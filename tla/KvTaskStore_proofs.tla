-------------------------- MODULE KvTaskStore_proofs --------------------------
(***************************************************************************)
(* The safety of KvTaskStore for every set of workers, requests and tokens *)
(* and every bound.  The invariant has two halves: what holds however      *)
(* requests interleave (NothingIsMadeUp), and what holds for as long as no *)
(* two requests have been under way at once (Alone), failures and restarts *)
(* included.                                                               *)
(***************************************************************************)
EXTENDS KvTaskStore, Operators_proofs

(* An entry is labelled with the version of the record it carries. *)
Entries ==
    {e \in [op : Operations, version : Nat, token : Tokens, record : StoredTasks] :
        e.version = e.record.version}

Jobs ==
    [stage : {"put", "token", "get", "append"}, request : Requests,
     next : StoredTasks, todo : Seq(KvLists), read : Seq(Entries)]

TypeOK ==
    /\ record \in StoredTasks \cup {NoTask}
    /\ lists \in [KvLists -> Seq(Entries)]
    /\ jobs \in [Workers -> Jobs \cup {Idle}]
    /\ consumed \in [Workers -> SUBSET Tokens]
    /\ written \subseteq StoredTasks
    /\ answers \subseteq [request : Requests, version : Nat]
    /\ overlapped \in BOOLEAN

(* What may be left of the lists of an operation. *)
Todos(op) ==
    CASE op = "create"   -> {<<"snapshots", "log">>, <<"log">>}
      [] op = "update"   -> {<<"snapshots">>}
      [] op = "continue" -> {<<"events", "log">>, <<"log">>}
      [] OTHER           -> {<<"snapshots", "events", "log">>, <<"events", "log">>, <<"log">>}

Members(todo) == {todo[n] : n \in DOMAIN todo}

(* A job that is to put a record follows one that was stored; a job past   *)
(* its put carries one that was stored.                                    *)
JobIsTrue(job) ==
    /\ job.todo \in Todos(job.request.op)
    /\ job.stage \in {"put", "token"} => job.todo = Trail(job.request.op)
    /\ job.stage = "put" => job.request.op # "continue"
    /\ job.stage = "token" => job.request.op = "continue"
    /\ job.stage # "put" => job.next \in written
    /\ job.stage = "put" /\ job.next.version > 1 =>
          \E b \in written : b.version = job.next.version - 1
    /\ \A i \in DOMAIN job.read : job.read[i].record \in written

NothingIsMadeUp ==
    /\ record # NoTask => record \in written
    /\ TrailTellsTheTruth
    /\ \A w \in Workers : jobs[w] # Idle => JobIsTrue(jobs[w])

(* What a job may rely on while nobody else is under way: the record and   *)
(* the list it read are still there, what it has to write is new to the    *)
(* lists to come, and it is in the lists that are done.                    *)
JobIsAlone(job) ==
    /\ job.stage = "put" => \A w \in written : w.version < job.next.version
    /\ job.stage # "put" => job.next = record
    /\ job.stage = "append" => job.read = lists[Head(job.todo)]
    /\ job.stage \in {"get", "append"} =>
          /\ \A l \in Members(job.todo) :
                IF job.request.op = "continue"
                THEN l = "events" => ~HasContinuation(job.request.token)
                ELSE \A i \in DOMAIN lists[l] :
                        lists[l][i].op # "continue" => lists[l][i].version < job.next.version
          /\ \A l \in Members(Trail(job.request.op)) \ Members(job.todo) :
                \E i \in DOMAIN lists[l] : lists[l][i] = Entry(job.request, job.next)

OneIsBusy == \A v, w \in Workers : jobs[v] # Idle /\ jobs[w] # Idle => v = w

(* The record is the last of the history, which has one for each version.  *)
HistoryIsLinear ==
    /\ \A w \in written : record # NoTask /\ w.version <= record.version
    /\ \A v, w \in written : v.version = w.version => v = w

SnapshotsRise ==
    /\ \A i \in DOMAIN lists["snapshots"] : lists["snapshots"][i].op # "continue"
    /\ \A i, j \in DOMAIN lists["snapshots"] :
          i < j => lists["snapshots"][i].version < lists["snapshots"][j].version

Alone == ~overlapped =>
    /\ OneIsBusy
    /\ HistoryIsLinear
    /\ \A w \in Workers : jobs[w] # Idle => JobIsAlone(jobs[w])
    /\ SnapshotsRise

IInv ==
    /\ TypeOK
    /\ NothingIsMadeUp
    /\ Alone
    /\ TrailIsCutInOrder
    /\ AnsweredIsRecorded
    /\ OneContinuationPerToken

----------------------------------------------------------------------------
(* KvLists and jobs. *)

LEMMA Assumptions ==
    /\ NoTask \notin Tasks
    /\ NoTask \notin StoredTasks
    /\ \A r \in Requests :
          /\ r.op \in Operations /\ r.payload \in Payloads
          /\ r.progress \in Progress /\ r.token \in Tokens
BY KvTaskStoreAssumption DEF RequestRecords, StoredTasks

LEMMA AppendFacts ==
    ASSUME NEW S, NEW s \in Seq(S), NEW e \in S
    PROVE  /\ Append(s, e) \in Seq(S)
           /\ DOMAIN Append(s, e) = DOMAIN s \cup {Len(s) + 1}
           /\ \A i \in DOMAIN s : i \in 1..Len(s) /\ Append(s, e)[i] = s[i]
           /\ Append(s, e)[Len(s) + 1] = e
           /\ Len(s) \in Nat
           /\ DOMAIN s = 1..Len(s)
OBVIOUS

(* The lists of an operation are worked off from the front, each of them   *)
(* once (_append, and the calls of it in each operation).                  *)
LEMMA TodoFacts ==
    ASSUME NEW op \in Operations, NEW todo \in Todos(op)
    PROVE  /\ todo \in Seq(KvLists) /\ Len(todo) \in Nat \ {0}
           /\ Head(todo) \in KvLists /\ Head(todo) \in Members(todo)
           /\ Members(todo) \subseteq Members(Trail(op))
           /\ Len(todo) > 1 => /\ Tail(todo) \in Todos(op)
                               /\ Members(Tail(todo)) = Members(todo) \ {Head(todo)}
           /\ Len(todo) <= 1 => Members(todo) = {Head(todo)}
<1>1. CASE todo = <<"log">>
    <2>1. Members(todo) = {"log"}
        BY <1>1 DEF Members
    <2>2. "log" \in Members(Trail(op))
        BY <1>1 DEF Todos, Members, Trail, Operations
    <2>. QED
        BY <1>1, <2>1, <2>2 DEF KvLists
<1>2. CASE todo = <<"snapshots">>
    <2>1. Members(todo) = {"snapshots"}
        BY <1>2 DEF Members
    <2>2. "snapshots" \in Members(Trail(op))
        BY <1>2 DEF Todos, Members, Trail, Operations
    <2>. QED
        BY <1>2, <2>1, <2>2 DEF KvLists
<1>3. CASE todo = <<"snapshots", "log">>
    BY <1>3 DEF Todos, Members, Trail, Operations, KvLists
<1>4. CASE todo = <<"events", "log">>
    BY <1>4 DEF Todos, Members, Trail, Operations, KvLists
<1>5. CASE todo = <<"snapshots", "events", "log">>
    BY <1>5 DEF Todos, Members, Trail, Operations, KvLists
<1>. QED
    BY <1>1, <1>2, <1>3, <1>4, <1>5 DEF Todos

LEMMA TrailIsATodo ==
    ASSUME NEW op \in Operations
    PROVE  Trail(op) \in Todos(op)
BY DEF Trail, Todos, Operations

----------------------------------------------------------------------------
(* What the steps do, job by job. *)

LEMMA IdleFacts ==
    /\ Idle.stage = "idle" /\ Idle.read = << >>
    /\ Idle \notin Jobs
BY DEF Idle, Jobs

(* Every job under way is a well-formed one. *)
LEMMA BusyJob ==
    ASSUME TypeOK, NEW w \in Workers, jobs[w] # Idle
    PROVE  /\ jobs[w] \in Jobs
           /\ jobs[w].request \in Requests /\ jobs[w].next \in StoredTasks
           /\ jobs[w].read \in Seq(Entries)
           /\ jobs[w].request.op \in Operations
           /\ jobs[w].request.token \in Tokens
           /\ jobs[w].next.version \in Nat \ {0}
           /\ Entry(jobs[w].request, jobs[w].next) \in Entries
<1>1. jobs[w] \in Jobs
    BY DEF TypeOK
<1>2. /\ jobs[w].request \in Requests /\ jobs[w].next \in StoredTasks
      /\ jobs[w].read \in Seq(Entries)
    BY <1>1 DEF Jobs
<1>3. /\ jobs[w].request.op \in Operations
      /\ jobs[w].request.token \in Tokens
      /\ jobs[w].next.version \in Nat \ {0}
    BY <1>2, Assumptions DEF StoredTasks
<1>. QED
    BY <1>1, <1>2, <1>3 DEF Entry, Entries

(* A request that was accepted. *)
LEMMA StartStep ==
    ASSUME TypeOK, NEW w \in Workers, NEW r \in Requests,
           Begin(w, r) \/ ContinueLoad(w, r)
    PROVE  LET job == jobs'[w] IN
           /\ job \in Jobs
           /\ job.stage = IF r.op = "continue" THEN "token" ELSE "put"
           /\ job.request = r
           /\ job.next = KvResult(r, record)
           /\ job.todo = Trail(r.op)
           /\ job.read = << >>
           /\ jobs[w] = Idle
           /\ jobs' \in [Workers -> Jobs \cup {Idle}]
           /\ \A v \in Workers \ {w} : jobs'[v] = jobs[v]
           /\ KvAccepts(r, record)
           /\ overlapped' = (overlapped \/ \E v \in Workers \ {w} : jobs[v] # Idle)
           /\ UNCHANGED <<record, lists, consumed, written, answers>>
<1>. DEFINE new == [stage   |-> IF r.op = "continue" THEN "token" ELSE "put",
                    request |-> r, next |-> KvResult(r, record),
                    todo    |-> Trail(r.op), read |-> << >>]
<1>1. /\ jobs' = [jobs EXCEPT ![w] = new]
      /\ KvAccepts(r, record)
      /\ jobs[w] = Idle
      /\ UNCHANGED <<record, lists, consumed, written, answers>>
    BY DEF Begin, ContinueLoad, Arrives, Idle
<1>2. overlapped' = (overlapped \/ \E v \in Workers \ {w} : jobs[v] # Idle)
    BY DEF Begin, ContinueLoad, Arrives, Others
<1>3. KvResult(r, record) \in StoredTasks
    BY <1>1, Assumptions, KvResultType DEF TypeOK
<1>4. Trail(r.op) \in Seq(KvLists)
    BY Assumptions, TrailIsATodo, TodoFacts
<1>5. new \in Jobs
    BY <1>3, <1>4 DEF Jobs
<1>6. jobs \in [Workers -> Jobs \cup {Idle}]
    BY DEF TypeOK
<1>7. jobs'[w] = new
    BY <1>1, <1>6
<1>. QED
    BY <1>1, <1>2, <1>5, <1>6, <1>7

(* A job that goes on. *)
LEMMA JobChanges ==
    ASSUME TypeOK, NEW w \in Workers, NEW job \in Jobs,
           jobs' = [jobs EXCEPT ![w] = job]
    PROVE  /\ jobs'[w] = job
           /\ \A v \in Workers \ {w} : jobs'[v] = jobs[v]
           /\ jobs' \in [Workers -> Jobs \cup {Idle}]
BY DEF TypeOK

LEMMA JobEnds ==
    ASSUME TypeOK, NEW w \in Workers, jobs' = [jobs EXCEPT ![w] = Idle]
    PROVE  /\ jobs'[w] = Idle
           /\ \A v \in Workers \ {w} : jobs'[v] = jobs[v]
           /\ \A v \in Workers : jobs'[v] # Idle => jobs[v] # Idle /\ jobs'[v] = jobs[v]
           /\ jobs' \in [Workers -> Jobs \cup {Idle}]
BY DEF TypeOK

LEMMA PutRecordStep ==
    ASSUME TypeOK, NEW w \in Workers, PutRecord(w)
    PROVE  /\ jobs[w] # Idle /\ jobs[w].stage = "put"
           /\ record' = jobs[w].next /\ written' = written \cup {jobs[w].next}
           /\ jobs'[w] \in Jobs /\ jobs'[w].stage = "get"
           /\ jobs'[w].todo = jobs[w].todo /\ jobs'[w].read = jobs[w].read
           /\ jobs'[w].request = jobs[w].request /\ jobs'[w].next = jobs[w].next
           /\ \A v \in Workers \ {w} : jobs'[v] = jobs[v]
           /\ jobs' \in [Workers -> Jobs \cup {Idle}]
           /\ UNCHANGED <<lists, consumed, answers, overlapped>>
<1>1. jobs[w] # Idle /\ jobs[w].stage = "put"
    BY IdleFacts DEF PutRecord
<1>2. jobs[w] \in Jobs
    BY <1>1, BusyJob
<1>. DEFINE next == [jobs[w] EXCEPT !.stage = "get"]
<1>3. /\ next \in Jobs /\ next.stage = "get"
      /\ next.todo = jobs[w].todo /\ next.read = jobs[w].read
      /\ next.request = jobs[w].request /\ next.next = jobs[w].next
    BY <1>2 DEF Jobs
<1>4. jobs' = [jobs EXCEPT ![w] = next]
    BY DEF PutRecord
<1>. HIDE DEF next
<1>5. /\ jobs'[w] = next
      /\ \A v \in Workers \ {w} : jobs'[v] = jobs[v]
      /\ jobs' \in [Workers -> Jobs \cup {Idle}]
    BY <1>3, <1>4, JobChanges
<1>. QED
    BY <1>1, <1>3, <1>5 DEF PutRecord

LEMMA ConsumeStep ==
    ASSUME TypeOK, NEW w \in Workers, ContinueConsume(w)
    PROVE  /\ jobs[w] # Idle /\ jobs[w].stage = "token"
           /\ ~HasContinuation(jobs[w].request.token)
           /\ consumed' \in [Workers -> SUBSET Tokens]
           /\ jobs'[w] \in Jobs /\ jobs'[w].stage = "get"
           /\ jobs'[w].todo = jobs[w].todo /\ jobs'[w].read = jobs[w].read
           /\ jobs'[w].request = jobs[w].request /\ jobs'[w].next = jobs[w].next
           /\ \A v \in Workers \ {w} : jobs'[v] = jobs[v]
           /\ jobs' \in [Workers -> Jobs \cup {Idle}]
           /\ UNCHANGED <<record, lists, written, answers, overlapped>>
<1>1. jobs[w] # Idle /\ jobs[w].stage = "token"
    BY IdleFacts DEF ContinueConsume
<1>2. jobs[w] \in Jobs /\ jobs[w].request.token \in Tokens
    BY <1>1, BusyJob
<1>. DEFINE next == [jobs[w] EXCEPT !.stage = "get"]
<1>3. /\ next \in Jobs /\ next.stage = "get"
      /\ next.todo = jobs[w].todo /\ next.read = jobs[w].read
      /\ next.request = jobs[w].request /\ next.next = jobs[w].next
    BY <1>2 DEF Jobs
<1>4. jobs' = [jobs EXCEPT ![w] = next]
    BY DEF ContinueConsume
<1>. HIDE DEF next
<1>5. /\ jobs'[w] = next
      /\ \A v \in Workers \ {w} : jobs'[v] = jobs[v]
      /\ jobs' \in [Workers -> Jobs \cup {Idle}]
    BY <1>3, <1>4, JobChanges
<1>6. consumed' \in [Workers -> SUBSET Tokens]
    BY <1>2 DEF ContinueConsume, TypeOK
<1>. QED
    BY <1>1, <1>3, <1>5, <1>6 DEF ContinueConsume, TokenFresh

LEMMA GetListStep ==
    ASSUME TypeOK, NothingIsMadeUp, NEW w \in Workers, GetList(w)
    PROVE  /\ jobs[w] # Idle /\ jobs[w].stage = "get"
           /\ Head(jobs[w].todo) \in KvLists
           /\ jobs'[w] \in Jobs /\ jobs'[w].stage = "append"
           /\ jobs'[w].todo = jobs[w].todo
           /\ jobs'[w].read = lists[Head(jobs[w].todo)]
           /\ jobs'[w].request = jobs[w].request /\ jobs'[w].next = jobs[w].next
           /\ \A v \in Workers \ {w} : jobs'[v] = jobs[v]
           /\ jobs' \in [Workers -> Jobs \cup {Idle}]
           /\ UNCHANGED <<record, lists, consumed, written, answers, overlapped>>
<1>1. jobs[w] # Idle /\ jobs[w].stage = "get"
    BY IdleFacts DEF GetList
<1>2. jobs[w] \in Jobs /\ jobs[w].request.op \in Operations
    BY <1>1, BusyJob
<1>3. Head(jobs[w].todo) \in KvLists
    BY <1>1, <1>2, TodoFacts DEF NothingIsMadeUp, JobIsTrue
<1>4. lists[Head(jobs[w].todo)] \in Seq(Entries)
    BY <1>3 DEF TypeOK
<1>. DEFINE next == [jobs[w] EXCEPT !.stage = "append",
                                     !.read = lists[Head(jobs[w].todo)]]
<1>5. /\ next \in Jobs /\ next.stage = "append"
      /\ next.todo = jobs[w].todo /\ next.read = lists[Head(jobs[w].todo)]
      /\ next.request = jobs[w].request /\ next.next = jobs[w].next
    BY <1>2, <1>4 DEF Jobs
<1>6. jobs' = [jobs EXCEPT ![w] = next]
    BY DEF GetList, TypeOK
<1>. HIDE DEF next
<1>7. /\ jobs'[w] = next
      /\ \A v \in Workers \ {w} : jobs'[v] = jobs[v]
      /\ jobs' \in [Workers -> Jobs \cup {Idle}]
    BY <1>5, <1>6, JobChanges
<1>. QED
    BY <1>1, <1>3, <1>5, <1>7 DEF GetList

(* The list read is put back with one entry more; the job goes on with the *)
(* next list or is done.                                                   *)
LEMMA PutListStep ==
    ASSUME TypeOK, NothingIsMadeUp, NEW w \in Workers, PutList(w)
    PROVE  LET job == jobs[w]
               new == Entry(job.request, job.next)
               l   == Head(job.todo)
           IN /\ job # Idle /\ job.stage = "append"
              /\ l \in KvLists /\ new \in Entries /\ job.read \in Seq(Entries)
              /\ lists' = [lists EXCEPT ![l] = Append(job.read, new)]
              /\ lists' \in [KvLists -> Seq(Entries)]
              /\ \A v \in Workers \ {w} : jobs'[v] = jobs[v]
              /\ jobs' \in [Workers -> Jobs \cup {Idle}]
              /\ UNCHANGED <<record, consumed, written, overlapped>>
              /\ \/ /\ Members(job.todo) = {l}
                    /\ jobs'[w] = Idle
                    /\ answers' = answers \cup
                          {[request |-> job.request, version |-> job.next.version]}
                 \/ /\ jobs'[w] \in Jobs /\ jobs'[w].stage = "get"
                    /\ jobs'[w].todo = Tail(job.todo)
                    /\ jobs'[w].todo \in Todos(job.request.op)
                    /\ Members(jobs'[w].todo) = Members(job.todo) \ {l}
                    /\ jobs'[w].read = << >>
                    /\ jobs'[w].request = job.request /\ jobs'[w].next = job.next
                    /\ answers' = answers
<1>. DEFINE job == jobs[w]
            new == Entry(job.request, job.next)
            l   == Head(job.todo)
<1>1. job # Idle /\ job.stage = "append"
    BY IdleFacts DEF PutList
<1>2. /\ job \in Jobs /\ job.request.op \in Operations
      /\ new \in Entries /\ job.read \in Seq(Entries)
    BY <1>1, BusyJob
<1>3. job.todo \in Todos(job.request.op)
    BY <1>1 DEF NothingIsMadeUp, JobIsTrue
<1>4. /\ l \in KvLists /\ Len(job.todo) \in Nat \ {0}
      /\ Len(job.todo) > 1 => /\ Tail(job.todo) \in Todos(job.request.op)
                              /\ Members(Tail(job.todo)) = Members(job.todo) \ {l}
      /\ Len(job.todo) <= 1 => Members(job.todo) = {l}
    BY <1>2, <1>3, TodoFacts
<1>5. /\ lists' = [lists EXCEPT ![l] = Append(job.read, new)]
      /\ UNCHANGED <<record, consumed, written, overlapped>>
    BY DEF PutList
<1>6. lists' \in [KvLists -> Seq(Entries)]
    <2>1. Append(job.read, new) \in Seq(Entries)
        BY <1>2, AppendFacts
    <2>. QED
        BY <1>4, <1>5, <2>1 DEF TypeOK
<1>7. CASE Len(job.todo) > 1
    <2>1. Tail(job.todo) \in Seq(KvLists)
        BY <1>2, <1>4, <1>7, TodoFacts
    <2>2. << >> \in Seq(Entries)
        OBVIOUS
    <2>. DEFINE next == [job EXCEPT !.stage = "get", !.read = << >>, !.todo = Tail(@)]
    <2>3. /\ next \in Jobs /\ next.stage = "get"
          /\ next.todo = Tail(job.todo) /\ next.read = << >>
          /\ next.request = job.request /\ next.next = job.next
        BY <1>2, <2>1, <2>2 DEF Jobs
    <2>4. jobs' = [jobs EXCEPT ![w] = next] /\ answers' = answers
        BY <1>7 DEF PutList, TypeOK
    <2>. HIDE DEF next
    <2>5. /\ jobs'[w] = next
          /\ \A v \in Workers \ {w} : jobs'[v] = jobs[v]
          /\ jobs' \in [Workers -> Jobs \cup {Idle}]
        BY <2>3, <2>4, JobChanges
    <2>. QED
        BY <1>1, <1>2, <1>4, <1>5, <1>6, <1>7, <2>3, <2>4, <2>5
<1>8. CASE ~(Len(job.todo) > 1)
    <2>1. jobs' = [jobs EXCEPT ![w] = Idle]
        BY <1>8 DEF PutList
    <2>2. answers' = answers \cup {[request |-> job.request, version |-> job.next.version]}
        BY <1>8 DEF PutList, Tell
    <2>3. Members(job.todo) = {l}
        BY <1>4, <1>8
    <2>. QED
        BY <1>1, <1>2, <1>4, <1>5, <1>6, <2>1, <2>2, <2>3, JobEnds
<1>. QED
    BY <1>7, <1>8

LEMMA ReplayStep ==
    ASSUME TypeOK, NEW w \in Workers, ContinueReplay(w)
    PROVE  /\ jobs[w] # Idle /\ jobs[w].stage = "token"
           /\ HasContinuation(jobs[w].request.token)
           /\ answers' = answers \cup {[request |-> jobs[w].request,
                                        version |-> jobs[w].next.version]}
           /\ jobs' = [jobs EXCEPT ![w] = Idle]
           /\ UNCHANGED <<record, lists, consumed, written, overlapped>>
BY IdleFacts DEF ContinueReplay, Tell

(* A request that fails and an isolate that stops leave everything but     *)
(* their own job, and what the isolate remembered.                         *)
LEMMA DropStep ==
    ASSUME TypeOK, NEW w \in Workers, Fail(w) \/ Restart(w)
    PROVE  /\ jobs' = [jobs EXCEPT ![w] = Idle]
           /\ consumed' \in [Workers -> SUBSET Tokens]
           /\ UNCHANGED <<record, lists, written, answers, overlapped>>
BY DEF Fail, Restart, TypeOK

----------------------------------------------------------------------------
(* Types. *)

LEMMA InitType == KvInit => TypeOK
<1>1. << >> \in Seq(Entries)
    OBVIOUS
<1>. QED
    BY <1>1 DEF KvInit, TypeOK

LEMMA TypeStep == TypeOK /\ NothingIsMadeUp /\ [KvNext]_kvVars => TypeOK'
<1>. SUFFICES ASSUME TypeOK, NothingIsMadeUp, [KvNext]_kvVars PROVE TypeOK'
    OBVIOUS
<1>1. ASSUME NEW w \in Workers, NEW r \in Requests, Begin(w, r) \/ ContinueLoad(w, r)
      PROVE  TypeOK'
    <2>1. /\ jobs' \in [Workers -> Jobs \cup {Idle}]
          /\ overlapped' \in BOOLEAN
          /\ UNCHANGED <<record, lists, consumed, written, answers>>
        BY <1>1, StartStep DEF TypeOK
    <2>. QED
        BY <2>1 DEF TypeOK
<1>2. ASSUME NEW w \in Workers, PutRecord(w) PROVE TypeOK'
    <2>1. /\ jobs' \in [Workers -> Jobs \cup {Idle}]
          /\ record' = jobs[w].next /\ written' = written \cup {jobs[w].next}
          /\ jobs[w] # Idle
          /\ UNCHANGED <<lists, consumed, answers, overlapped>>
        BY <1>2, PutRecordStep
    <2>2. jobs[w].next \in StoredTasks
        BY <2>1, BusyJob
    <2>. QED
        BY <2>1, <2>2 DEF TypeOK
<1>3. ASSUME NEW w \in Workers, ContinueReplay(w) PROVE TypeOK'
    <2>1. jobs[w].request \in Requests /\ jobs[w].next.version \in Nat
        BY <1>3, ReplayStep, BusyJob
    <2>2. jobs' \in [Workers -> Jobs \cup {Idle}]
        BY <1>3, ReplayStep, JobEnds
    <2>. QED
        BY <1>3, <2>1, <2>2, ReplayStep DEF TypeOK
<1>4. ASSUME NEW w \in Workers, ContinueConsume(w) PROVE TypeOK'
    BY <1>4, ConsumeStep DEF TypeOK
<1>5. ASSUME NEW w \in Workers, GetList(w) PROVE TypeOK'
    BY <1>5, GetListStep DEF TypeOK
<1>6. ASSUME NEW w \in Workers, PutList(w) PROVE TypeOK'
    <2>1. /\ jobs[w] # Idle
          /\ lists' \in [KvLists -> Seq(Entries)]
          /\ jobs' \in [Workers -> Jobs \cup {Idle}]
          /\ UNCHANGED <<record, consumed, written, overlapped>>
          /\ \/ answers' = answers
             \/ answers' = answers \cup {[request |-> jobs[w].request,
                                          version |-> jobs[w].next.version]}
        BY <1>6, PutListStep
    <2>2. jobs[w].request \in Requests /\ jobs[w].next.version \in Nat
        BY <2>1, BusyJob
    <2>3. answers' \subseteq [request : Requests, version : Nat]
        BY <2>1, <2>2 DEF TypeOK
    <2>. QED
        BY <2>1, <2>3 DEF TypeOK
<1>7. ASSUME NEW w \in Workers, Fail(w) \/ Restart(w) PROVE TypeOK'
    BY <1>7, DropStep, JobEnds DEF TypeOK
<1>8. CASE UNCHANGED kvVars
    BY <1>8 DEF TypeOK, kvVars
<1>. QED
    BY <1>1, <1>2, <1>3, <1>4, <1>5, <1>6, <1>7, <1>8 DEF KvNext

----------------------------------------------------------------------------
(* What holds however requests interleave. *)

LEMMA InitNothingIsMadeUp == KvInit => NothingIsMadeUp
<1>. SUFFICES ASSUME KvInit PROVE NothingIsMadeUp
    OBVIOUS
<1>1. TrailTellsTheTruth
    BY DEF KvInit, TrailTellsTheTruth
<1>. QED
    BY <1>1 DEF KvInit, NothingIsMadeUp

(* More history makes no job untrue. *)
LEMMA JobStaysTrue ==
    ASSUME NEW job, JobIsTrue(job), written \subseteq written'
    PROVE  JobIsTrue(job)'
BY DEF JobIsTrue

LEMMA StartedIsTrue ==
    ASSUME TypeOK, NothingIsMadeUp, NEW w \in Workers, NEW r \in Requests,
           Begin(w, r) \/ ContinueLoad(w, r)
    PROVE  JobIsTrue(jobs[w])'
<1>. DEFINE job == jobs'[w]
<1>1. /\ job.stage = IF r.op = "continue" THEN "token" ELSE "put"
      /\ job.request = r /\ job.next = KvResult(r, record)
      /\ job.todo = Trail(r.op) /\ job.read = << >>
      /\ KvAccepts(r, record)
      /\ written' = written
    BY StartStep
<1>2. /\ r.op = "create" => job.next.version = 1
      /\ r.op # "create" => record # NoTask /\ record \in StoredTasks
      /\ r.op = "continue" => job.next = record
      /\ r.op \notin {"create", "continue"} => job.next.version = record.version + 1
    BY <1>1, Assumptions, KvResultType DEF TypeOK
<1>3. job.todo \in Todos(r.op)
    BY <1>1, Assumptions, TrailIsATodo
<1>4. record # NoTask => record \in written
    BY DEF NothingIsMadeUp
<1>. HIDE DEF job
<1>5. job.stage = "put" /\ job.next.version > 1 =>
         \E b \in written' : b.version = job.next.version - 1
    <2>. SUFFICES ASSUME job.stage = "put", job.next.version > 1
                  PROVE  \E b \in written : b.version = job.next.version - 1
        BY <1>1
    <2>1. r.op \notin {"create", "continue"}
        BY <1>1, <1>2
    <2>2. record \in written /\ record.version = job.next.version - 1
        BY <1>2, <1>4, <2>1 DEF StoredTasks
    <2>. QED
        BY <2>2
<1>6. job.stage # "put" => job.next \in written'
    BY <1>1, <1>2, <1>4
<1>. QED
    BY <1>1, <1>3, <1>5, <1>6 DEF JobIsTrue, job

LEMMA NothingIsMadeUpStep ==
    TypeOK /\ NothingIsMadeUp /\ [KvNext]_kvVars => NothingIsMadeUp'
<1>. SUFFICES ASSUME TypeOK, NothingIsMadeUp, [KvNext]_kvVars PROVE NothingIsMadeUp'
    OBVIOUS
<1>1. ASSUME NEW w \in Workers, NEW r \in Requests, Begin(w, r) \/ ContinueLoad(w, r)
      PROVE  NothingIsMadeUp'
    <2>1. /\ UNCHANGED <<record, lists, written>>
          /\ \A v \in Workers \ {w} : jobs'[v] = jobs[v]
        BY <1>1, StartStep
    <2>2. JobIsTrue(jobs[w])'
        BY <1>1, StartedIsTrue
    <2>3. ASSUME NEW v \in Workers \ {w}, jobs'[v] # Idle PROVE JobIsTrue(jobs[v])'
        BY <2>1, <2>3, JobStaysTrue DEF NothingIsMadeUp, JobIsTrue
    <2>. QED
        BY <2>1, <2>2, <2>3 DEF NothingIsMadeUp, TrailTellsTheTruth
<1>2. ASSUME NEW w \in Workers, PutRecord(w) PROVE NothingIsMadeUp'
    <2>1. /\ jobs[w] # Idle /\ jobs[w].stage = "put"
          /\ record' = jobs[w].next /\ written' = written \cup {jobs[w].next}
          /\ jobs'[w].stage = "get" /\ jobs'[w].todo = jobs[w].todo
          /\ jobs'[w].read = jobs[w].read
          /\ jobs'[w].request = jobs[w].request /\ jobs'[w].next = jobs[w].next
          /\ \A v \in Workers \ {w} : jobs'[v] = jobs[v]
          /\ lists' = lists
        BY <1>2, PutRecordStep
    <2>2. JobIsTrue(jobs[w])
        BY <2>1 DEF NothingIsMadeUp
    <2>3. JobIsTrue(jobs[w])'
        BY <2>1, <2>2 DEF JobIsTrue
    <2>4. ASSUME NEW v \in Workers \ {w}, jobs'[v] # Idle PROVE JobIsTrue(jobs[v])'
        BY <2>1, <2>4 DEF NothingIsMadeUp, JobIsTrue
    <2>5. TrailTellsTheTruth'
        <3>1. ASSUME NEW x \in written', x.version > 1
              PROVE  \E b \in written' : b.version = x.version - 1
            <4>1. CASE x = jobs[w].next
                BY <2>1, <2>2, <3>1, <4>1 DEF JobIsTrue
            <4>2. CASE x \in written
                BY <2>1, <3>1, <4>2 DEF NothingIsMadeUp, TrailTellsTheTruth
            <4>. QED
                BY <2>1, <4>1, <4>2
        <3>. QED
            BY <2>1, <3>1 DEF NothingIsMadeUp, TrailTellsTheTruth
    <2>. QED
        BY <2>1, <2>3, <2>4, <2>5 DEF NothingIsMadeUp
<1>3. ASSUME NEW w \in Workers, jobs' = [jobs EXCEPT ![w] = Idle],
             UNCHANGED <<record, lists, written>>
      PROVE  NothingIsMadeUp'
    <2>1. ASSUME NEW v \in Workers, jobs'[v] # Idle PROVE JobIsTrue(jobs[v])'
        BY <1>3, <2>1, JobEnds DEF NothingIsMadeUp, JobIsTrue
    <2>. QED
        BY <1>3, <2>1 DEF NothingIsMadeUp, TrailTellsTheTruth
<1>4. ASSUME NEW w \in Workers, ContinueConsume(w) PROVE NothingIsMadeUp'
    <2>1. /\ jobs[w] # Idle /\ jobs[w].stage = "token"
          /\ jobs'[w].stage = "get" /\ jobs'[w].todo = jobs[w].todo
          /\ jobs'[w].read = jobs[w].read
          /\ jobs'[w].request = jobs[w].request /\ jobs'[w].next = jobs[w].next
          /\ \A v \in Workers \ {w} : jobs'[v] = jobs[v]
          /\ UNCHANGED <<record, lists, written>>
        BY <1>4, ConsumeStep
    <2>2. JobIsTrue(jobs[w])'
        BY <2>1 DEF NothingIsMadeUp, JobIsTrue
    <2>3. ASSUME NEW v \in Workers \ {w}, jobs'[v] # Idle PROVE JobIsTrue(jobs[v])'
        BY <2>1, <2>3 DEF NothingIsMadeUp, JobIsTrue
    <2>. QED
        BY <2>1, <2>2, <2>3 DEF NothingIsMadeUp, TrailTellsTheTruth
<1>5. ASSUME NEW w \in Workers, GetList(w) PROVE NothingIsMadeUp'
    <2>1. /\ jobs[w] # Idle /\ jobs[w].stage = "get"
          /\ Head(jobs[w].todo) \in KvLists
          /\ jobs'[w].stage = "append" /\ jobs'[w].todo = jobs[w].todo
          /\ jobs'[w].read = lists[Head(jobs[w].todo)]
          /\ jobs'[w].request = jobs[w].request /\ jobs'[w].next = jobs[w].next
          /\ \A v \in Workers \ {w} : jobs'[v] = jobs[v]
          /\ UNCHANGED <<record, lists, written>>
        BY <1>5, GetListStep
    <2>2. JobIsTrue(jobs[w])'
        BY <2>1 DEF NothingIsMadeUp, JobIsTrue, TrailTellsTheTruth
    <2>3. ASSUME NEW v \in Workers \ {w}, jobs'[v] # Idle PROVE JobIsTrue(jobs[v])'
        BY <2>1, <2>3 DEF NothingIsMadeUp, JobIsTrue
    <2>. QED
        BY <2>1, <2>2, <2>3 DEF NothingIsMadeUp, TrailTellsTheTruth
<1>6. ASSUME NEW w \in Workers, PutList(w) PROVE NothingIsMadeUp'
    <2>. DEFINE job == jobs[w]
                new == Entry(job.request, job.next)
                l   == Head(job.todo)
    <2>1. /\ job # Idle /\ job.stage = "append"
          /\ l \in KvLists /\ new \in Entries /\ job.read \in Seq(Entries)
          /\ lists' = [lists EXCEPT ![l] = Append(job.read, new)]
          /\ \A v \in Workers \ {w} : jobs'[v] = jobs[v]
          /\ UNCHANGED <<record, written>>
          /\ \/ jobs'[w] = Idle
             \/ /\ jobs'[w].stage = "get"
                /\ jobs'[w].todo \in Todos(job.request.op)
                /\ jobs'[w].read = << >>
                /\ jobs'[w].request = job.request /\ jobs'[w].next = job.next
        BY <1>6, PutListStep
    <2>2. JobIsTrue(job)
        BY <2>1 DEF NothingIsMadeUp
    <2>3. jobs'[w] # Idle => JobIsTrue(jobs[w])'
        BY <2>1, <2>2 DEF JobIsTrue
    <2>4. ASSUME NEW v \in Workers \ {w}, jobs'[v] # Idle PROVE JobIsTrue(jobs[v])'
        BY <2>1, <2>4 DEF NothingIsMadeUp, JobIsTrue
    <2>5. new.record \in written
        BY <2>1, <2>2 DEF JobIsTrue, Entry
    <2>6. ASSUME NEW k \in KvLists, NEW i \in DOMAIN lists'[k]
          PROVE  lists'[k][i].record \in written
        <3>. HIDE DEF job, new, l
        <3>1. CASE k # l
            BY <2>1, <2>6, <3>1 DEF NothingIsMadeUp, TrailTellsTheTruth, TypeOK
        <3>2. CASE k = l
            <4>1. lists'[k] = Append(job.read, new)
                BY <2>1, <3>2 DEF TypeOK
            <4>2. \/ i \in DOMAIN job.read /\ lists'[k][i] = job.read[i]
                  \/ lists'[k][i] = new
                BY <2>1, <2>6, <4>1, AppendFacts
            <4>. QED
                BY <2>2, <2>5, <4>2 DEF JobIsTrue
        <3>. QED
            BY <3>1, <3>2
    <2>7. TrailTellsTheTruth'
        BY <2>1, <2>6 DEF NothingIsMadeUp, TrailTellsTheTruth
    <2>. QED
        BY <2>1, <2>3, <2>4, <2>7 DEF NothingIsMadeUp
<1>7. CASE UNCHANGED kvVars
    BY <1>7 DEF NothingIsMadeUp, TrailTellsTheTruth, JobIsTrue, kvVars
<1>8. ASSUME NEW w \in Workers, ContinueReplay(w) \/ Fail(w) \/ Restart(w)
      PROVE  NothingIsMadeUp'
    BY <1>3, <1>8, ReplayStep, DropStep
<1>. QED
    BY <1>1, <1>2, <1>4, <1>5, <1>6, <1>7, <1>8 DEF KvNext

----------------------------------------------------------------------------
(* What holds while no two requests have been under way at once.           *)

LEMMA InitAlone == KvInit => Alone
BY DEF KvInit, Alone, OneIsBusy, HistoryIsLinear, SnapshotsRise, KvLists

(* While one is busy the others are idle, before its step and after it. *)
LEMMA OthersAreIdle ==
    ASSUME TypeOK, Alone, ~overlapped, NEW w \in Workers, jobs[w] # Idle,
           \A v \in Workers \ {w} : jobs'[v] = jobs[v]
    PROVE  /\ \A v \in Workers \ {w} : jobs[v] = Idle /\ jobs'[v] = Idle
           /\ OneIsBusy'
           /\ JobIsAlone(jobs[w])
BY DEF Alone, OneIsBusy

LEMMA StartIsAlone ==
    ASSUME IInv, ~overlapped', NEW w \in Workers, NEW r \in Requests,
           Begin(w, r) \/ ContinueLoad(w, r)
    PROVE  Alone'
<1>. DEFINE job == jobs'[w]
<1>1. /\ job.stage = IF r.op = "continue" THEN "token" ELSE "put"
      /\ job.request = r /\ job.next = KvResult(r, record)
      /\ KvAccepts(r, record)
      /\ \A v \in Workers \ {w} : jobs'[v] = jobs[v]
      /\ overlapped' = (overlapped \/ \E v \in Workers \ {w} : jobs[v] # Idle)
      /\ UNCHANGED <<record, lists, written>>
    BY StartStep DEF IInv
<1>2. ~overlapped /\ \A v \in Workers \ {w} : jobs'[v] = Idle
    BY <1>1
<1>3. HistoryIsLinear /\ SnapshotsRise
    BY <1>2 DEF IInv, Alone
<1>4. /\ r.op = "create" => record = NoTask /\ job.next.version = 1
      /\ r.op # "create" => record # NoTask /\ record \in StoredTasks
      /\ r.op = "continue" => job.next = record
      /\ r.op \notin {"create", "continue"} => job.next.version = record.version + 1
    BY <1>1, Assumptions, KvResultType DEF IInv, TypeOK
<1>5. JobIsAlone(jobs[w])'
    <2>. HIDE DEF job
    <2>1. ASSUME job.stage = "put", NEW x \in written PROVE x.version < job.next.version
        <3>1. record # NoTask /\ x.version <= record.version
            BY <1>3 DEF HistoryIsLinear
        <3>2. x.version \in Nat /\ record.version \in Nat
            BY <3>1 DEF IInv, TypeOK, StoredTasks
        <3>. QED
            BY <1>1, <1>4, <2>1, <3>1, <3>2
    <2>2. job.stage # "put" => job.next = record
        BY <1>1, <1>4
    <2>3. job.stage \in {"put", "token"}
        BY <1>1
    <2>. QED
        BY <1>1, <2>1, <2>2, <2>3 DEF JobIsAlone, job
<1>6. OneIsBusy'
    BY <1>2 DEF OneIsBusy
<1>7. \A v \in Workers : jobs'[v] # Idle => JobIsAlone(jobs[v])'
    <2>. SUFFICES ASSUME NEW v \in Workers, jobs'[v] # Idle PROVE JobIsAlone(jobs[v])'
        OBVIOUS
    <2>1. v = w
        BY <1>2
    <2>. QED
        BY <1>5, <2>1
<1>8. HistoryIsLinear' /\ SnapshotsRise'
    BY <1>1, <1>3 DEF HistoryIsLinear, SnapshotsRise
<1>. QED
    BY <1>6, <1>7, <1>8 DEF Alone

LEMMA PutRecordIsAlone ==
    ASSUME IInv, ~overlapped', NEW w \in Workers, PutRecord(w)
    PROVE  Alone'
<1>. DEFINE job == jobs[w]
<1>1. /\ job # Idle /\ job.stage = "put"
      /\ record' = job.next /\ written' = written \cup {job.next}
      /\ jobs'[w].stage = "get" /\ jobs'[w].todo = job.todo
      /\ jobs'[w].request = job.request /\ jobs'[w].next = job.next
      /\ \A v \in Workers \ {w} : jobs'[v] = jobs[v]
      /\ UNCHANGED <<lists, overlapped>>
    BY PutRecordStep DEF IInv
<1>2. ~overlapped /\ HistoryIsLinear /\ SnapshotsRise
    BY <1>1 DEF IInv, Alone
<1>3. /\ \A v \in Workers \ {w} : jobs'[v] = Idle
      /\ OneIsBusy' /\ JobIsAlone(job)
    BY <1>1, <1>2, OthersAreIdle DEF IInv
<1>4. /\ JobIsTrue(job) /\ TrailTellsTheTruth
      /\ job.request.op \in Operations /\ job.next \in StoredTasks
    BY <1>1, BusyJob DEF IInv, NothingIsMadeUp
<1>5. /\ job.todo = Trail(job.request.op) /\ job.request.op # "continue"
      /\ \A x \in written : x.version < job.next.version
    BY <1>1, <1>3, <1>4 DEF JobIsTrue, JobIsAlone
<1>6. ASSUME NEW l \in KvLists, NEW i \in DOMAIN lists[l]
      PROVE  lists[l][i].version < job.next.version
    <2>1. lists[l][i] \in Entries
        BY <1>6 DEF IInv, TypeOK
    <2>2. lists[l][i].version = lists[l][i].record.version /\ lists[l][i].record \in written
        BY <1>4, <2>1 DEF Entries, TrailTellsTheTruth
    <2>. QED
        BY <1>5, <2>2
<1>7. Members(job.todo) \subseteq KvLists
    <2>1. job.todo \in Seq(KvLists)
        BY <1>4, <1>5, TrailIsATodo, TodoFacts
    <2>. QED
        BY <2>1 DEF Members
<1>. HIDE DEF job
<1>8. JobIsAlone(jobs[w])'
    BY <1>1, <1>5, <1>6, <1>7 DEF JobIsAlone
<1>9. HistoryIsLinear'
    <2>1. \A x \in written : x.version \in Nat
        BY DEF IInv, TypeOK, StoredTasks
    <2>2. job.next # NoTask /\ job.next.version \in Nat
        BY <1>4, Assumptions DEF StoredTasks
    <2>. QED
        BY <1>1, <1>2, <1>5, <2>1, <2>2 DEF HistoryIsLinear
<1>10. \A v \in Workers : jobs'[v] # Idle => JobIsAlone(jobs[v])'
    <2>. SUFFICES ASSUME NEW v \in Workers, jobs'[v] # Idle PROVE JobIsAlone(jobs[v])'
        OBVIOUS
    <2>1. v = w
        BY <1>3
    <2>. QED
        BY <1>8, <2>1
<1>11. SnapshotsRise'
    BY <1>1, <1>2 DEF SnapshotsRise
<1>. QED
    BY <1>3, <1>9, <1>10, <1>11 DEF Alone

LEMMA ConsumeIsAlone ==
    ASSUME IInv, ~overlapped', NEW w \in Workers, ContinueConsume(w)
    PROVE  Alone'
<1>. DEFINE job == jobs[w]
<1>1. /\ job # Idle /\ job.stage = "token" /\ ~HasContinuation(job.request.token)
      /\ jobs'[w].stage = "get" /\ jobs'[w].todo = job.todo
      /\ jobs'[w].request = job.request /\ jobs'[w].next = job.next
      /\ \A v \in Workers \ {w} : jobs'[v] = jobs[v]
      /\ UNCHANGED <<record, lists, written, overlapped>>
    BY ConsumeStep DEF IInv
<1>2. ~overlapped /\ HistoryIsLinear /\ SnapshotsRise
    BY <1>1 DEF IInv, Alone
<1>3. /\ \A v \in Workers \ {w} : jobs'[v] = Idle
      /\ OneIsBusy' /\ JobIsAlone(job)
    BY <1>1, <1>2, OthersAreIdle DEF IInv
<1>4. job.todo = Trail(job.request.op) /\ job.request.op = "continue"
    BY <1>1 DEF IInv, NothingIsMadeUp, JobIsTrue
<1>5. HasContinuation(job.request.token)' <=> HasContinuation(job.request.token)
    BY <1>1 DEF HasContinuation
<1>. HIDE DEF job
<1>6. JobIsAlone(jobs[w])'
    BY <1>1, <1>3, <1>4, <1>5 DEF JobIsAlone, HasContinuation
<1>7. \A v \in Workers : jobs'[v] # Idle => JobIsAlone(jobs[v])'
    <2>. SUFFICES ASSUME NEW v \in Workers, jobs'[v] # Idle PROVE JobIsAlone(jobs[v])'
        OBVIOUS
    <2>1. v = w
        BY <1>3
    <2>. QED
        BY <1>6, <2>1
<1>8. HistoryIsLinear' /\ SnapshotsRise'
    BY <1>1, <1>2 DEF HistoryIsLinear, SnapshotsRise
<1>. QED
    BY <1>3, <1>7, <1>8 DEF Alone

LEMMA GetListIsAlone ==
    ASSUME IInv, ~overlapped', NEW w \in Workers, GetList(w)
    PROVE  Alone'
<1>. DEFINE job == jobs[w]
<1>1. /\ job # Idle /\ job.stage = "get"
      /\ jobs'[w].stage = "append" /\ jobs'[w].todo = job.todo
      /\ jobs'[w].read = lists[Head(job.todo)]
      /\ jobs'[w].request = job.request /\ jobs'[w].next = job.next
      /\ \A v \in Workers \ {w} : jobs'[v] = jobs[v]
      /\ UNCHANGED <<record, lists, written, overlapped>>
    BY GetListStep DEF IInv
<1>2. ~overlapped /\ HistoryIsLinear /\ SnapshotsRise
    BY <1>1 DEF IInv, Alone
<1>3. /\ \A v \in Workers \ {w} : jobs'[v] = Idle
      /\ OneIsBusy' /\ JobIsAlone(job)
    BY <1>1, <1>2, OthersAreIdle DEF IInv
<1>. HIDE DEF job
<1>4. JobIsAlone(jobs[w])'
    BY <1>1, <1>3 DEF JobIsAlone, HasContinuation
<1>5. \A v \in Workers : jobs'[v] # Idle => JobIsAlone(jobs[v])'
    <2>. SUFFICES ASSUME NEW v \in Workers, jobs'[v] # Idle PROVE JobIsAlone(jobs[v])'
        OBVIOUS
    <2>1. v = w
        BY <1>3
    <2>. QED
        BY <1>4, <2>1
<1>6. HistoryIsLinear' /\ SnapshotsRise'
    BY <1>1, <1>2 DEF HistoryIsLinear, SnapshotsRise
<1>. QED
    BY <1>3, <1>5, <1>6 DEF Alone

(* Alone, a list is put back as it was, with one entry more, which the job *)
(* had not written there before.                                           *)
LEMMA AppendAlone ==
    ASSUME IInv, ~overlapped', NEW w \in Workers, PutList(w)
    PROVE  LET job == jobs[w]
               new == Entry(job.request, job.next)
               l   == Head(job.todo)
           IN /\ ~overlapped
              /\ job # Idle /\ job.stage = "append" /\ JobIsAlone(job)
              /\ job.request.op \in Operations /\ job.todo \in Todos(job.request.op)
              /\ l \in KvLists /\ l \in Members(job.todo) /\ new \in Entries
              /\ \A k \in KvLists : /\ lists[k] \in Seq(Entries)
                                  /\ DOMAIN lists[k] = 1..Len(lists[k])
                                  /\ Len(lists[k]) \in Nat
              /\ \A k \in KvLists \ {l} : lists'[k] = lists[k]
              /\ DOMAIN lists'[l] = DOMAIN lists[l] \cup {Len(lists[l]) + 1}
              /\ \A i \in DOMAIN lists[l] : lists'[l][i] = lists[l][i]
              /\ lists'[l][Len(lists[l]) + 1] = new
              /\ IF job.request.op = "continue"
                 THEN l = "events" => ~HasContinuation(job.request.token)
                 ELSE \A i \in DOMAIN lists[l] :
                         lists[l][i].op # "continue" => lists[l][i].version < job.next.version
              /\ \A k \in Members(Trail(job.request.op)) \ Members(job.todo) :
                    \E i \in DOMAIN lists[k] : lists[k][i] = new
<1>. DEFINE job == jobs[w]
            new == Entry(job.request, job.next)
            l   == Head(job.todo)
<1>1. /\ job # Idle /\ job.stage = "append"
      /\ l \in KvLists /\ new \in Entries
      /\ lists' = [lists EXCEPT ![l] = Append(job.read, new)]
      /\ \A v \in Workers \ {w} : jobs'[v] = jobs[v]
      /\ overlapped' = overlapped
    BY PutListStep DEF IInv
<1>2. JobIsAlone(job)
    BY <1>1, OthersAreIdle DEF IInv
<1>3. job.request.op \in Operations
    BY <1>1, BusyJob DEF IInv
<1>4. job.todo \in Todos(job.request.op)
    BY <1>1 DEF IInv, NothingIsMadeUp, JobIsTrue
<1>5. l \in Members(job.todo)
    BY <1>3, <1>4, TodoFacts
<1>6. job.read = lists[l]
    BY <1>1, <1>2 DEF JobIsAlone
<1>7. \A k \in KvLists : lists[k] \in Seq(Entries)
    BY DEF IInv, TypeOK
<1>8. /\ \A k \in KvLists \ {l} : lists'[k] = lists[k]
      /\ lists'[l] = Append(lists[l], new)
    BY <1>1, <1>6 DEF IInv, TypeOK
<1>. HIDE DEF new, job, l
<1>9. /\ DOMAIN lists'[l] = DOMAIN lists[l] \cup {Len(lists[l]) + 1}
      /\ \A i \in DOMAIN lists[l] : lists'[l][i] = lists[l][i]
      /\ lists'[l][Len(lists[l]) + 1] = new
    BY <1>1, <1>7, <1>8, AppendFacts
<1>10. \A k \in KvLists : DOMAIN lists[k] = 1..Len(lists[k]) /\ Len(lists[k]) \in Nat
    BY <1>7
<1>11. IF job.request.op = "continue"
       THEN l = "events" => ~HasContinuation(job.request.token)
       ELSE \A i \in DOMAIN lists[l] :
               lists[l][i].op # "continue" => lists[l][i].version < job.next.version
    BY <1>1, <1>2, <1>5 DEF JobIsAlone
<1>12. \A k \in Members(Trail(job.request.op)) \ Members(job.todo) :
          \E i \in DOMAIN lists[k] : lists[k][i] = new
    BY <1>1, <1>2 DEF JobIsAlone, new
<1>. QED
    BY <1>1, <1>2, <1>3, <1>4, <1>5, <1>7, <1>8, <1>9, <1>10, <1>11, <1>12
       DEF job, new, l

(* The order of the lists: which are done when one is written. *)
LEMMA TrailOrder ==
    ASSUME NEW op \in Operations, NEW todo \in Todos(op)
    PROVE  LET l    == Head(todo)
               done == Members(Trail(op)) \ Members(todo)
           IN /\ l = "log" /\ op \notin {"create", "continue"} => "events" \in done
              /\ l = "events" /\ op # "continue" => "snapshots" \in done
              /\ l = "events" => op # "create"
              /\ l = "snapshots" => op # "continue"
<1>1. CASE todo = <<"log">>
    <2>1. Members(todo) = {"log"} /\ Head(todo) = "log"
        BY <1>1 DEF Members
    <2>2. op # "update"
        BY <1>1 DEF Todos
    <2>3. op \notin {"create", "continue"} => "events" \in Members(Trail(op))
        BY <2>2 DEF Members, Trail
    <2>. QED
        BY <2>1, <2>3
<1>2. CASE todo = <<"snapshots">>
    BY <1>2 DEF Todos
<1>3. CASE todo = <<"snapshots", "log">>
    BY <1>3 DEF Todos
<1>4. CASE todo = <<"events", "log">>
    <2>1. Members(todo) = {"events", "log"} /\ Head(todo) = "events"
        BY <1>4 DEF Members
    <2>2. op # "update" /\ op # "create"
        BY <1>4 DEF Todos
    <2>3. op # "continue" => "snapshots" \in Members(Trail(op))
        BY <2>2 DEF Members, Trail
    <2>. QED
        BY <2>1, <2>2, <2>3
<1>5. CASE todo = <<"snapshots", "events", "log">>
    BY <1>5 DEF Todos
<1>. QED
    BY <1>1, <1>2, <1>3, <1>4, <1>5 DEF Todos

LEMMA PutListIsAlone ==
    ASSUME IInv, ~overlapped', NEW w \in Workers, PutList(w)
    PROVE  Alone'
<1>. DEFINE job == jobs[w]
            new == Entry(job.request, job.next)
            l   == Head(job.todo)
            n   == Len(lists[l])
<1>1. /\ ~overlapped
      /\ job # Idle /\ job.stage = "append" /\ JobIsAlone(job)
      /\ job.request.op \in Operations /\ job.todo \in Todos(job.request.op)
      /\ l \in KvLists /\ l \in Members(job.todo)
      /\ \A k \in KvLists : DOMAIN lists[k] = 1..Len(lists[k]) /\ Len(lists[k]) \in Nat
      /\ \A k \in KvLists \ {l} : lists'[k] = lists[k]
      /\ DOMAIN lists'[l] = DOMAIN lists[l] \cup {n + 1}
      /\ \A i \in DOMAIN lists[l] : lists'[l][i] = lists[l][i]
      /\ lists'[l][n + 1] = new
      /\ IF job.request.op = "continue"
         THEN l = "events" => ~HasContinuation(job.request.token)
         ELSE \A i \in DOMAIN lists[l] :
                 lists[l][i].op # "continue" => lists[l][i].version < job.next.version
      /\ \A k \in Members(Trail(job.request.op)) \ Members(job.todo) :
            \E i \in DOMAIN lists[k] : lists[k][i] = new
    BY AppendAlone
<1>2. /\ \A v \in Workers \ {w} : jobs'[v] = jobs[v]
      /\ UNCHANGED <<record, written, overlapped>>
      /\ \/ jobs'[w] = Idle
         \/ /\ jobs'[w].stage = "get"
            /\ jobs'[w].todo \in Todos(job.request.op)
            /\ Members(jobs'[w].todo) = Members(job.todo) \ {l}
            /\ jobs'[w].request = job.request /\ jobs'[w].next = job.next
    BY PutListStep DEF IInv
<1>3. /\ \A v \in Workers \ {w} : jobs'[v] = Idle
      /\ OneIsBusy'
    BY <1>1, <1>2, OthersAreIdle DEF IInv
<1>4. HistoryIsLinear /\ SnapshotsRise
    BY <1>1 DEF IInv, Alone
<1>5. HistoryIsLinear'
    BY <1>2, <1>4 DEF HistoryIsLinear
<1>6. new.op = job.request.op /\ new.version = job.next.version
    BY DEF Entry
<1>7. SnapshotsRise'
    <2>1. CASE l # "snapshots"
        BY <1>1, <1>4, <2>1 DEF SnapshotsRise, KvLists
    <2>2. CASE l = "snapshots"
        <3>1. job.request.op # "continue"
            BY <1>1, <2>2, TrailOrder
        <3>2. \A i \in DOMAIN lists[l] : lists[l][i].version < job.next.version
            BY <1>1, <1>4, <2>2, <3>1 DEF SnapshotsRise
        <3>. HIDE DEF new, job, l
        <3>3. \A i \in DOMAIN lists'["snapshots"] : lists'["snapshots"][i].op # "continue"
            BY <1>1, <1>4, <1>6, <2>2, <3>1 DEF SnapshotsRise
        <3>4. ASSUME NEW i \in DOMAIN lists'["snapshots"],
                     NEW j \in DOMAIN lists'["snapshots"], i < j
              PROVE  lists'["snapshots"][i].version < lists'["snapshots"][j].version
            <4>. HIDE DEF n
            <4>1. i \in DOMAIN lists[l] /\ n \in Nat /\ DOMAIN lists[l] = 1..n
                BY <1>1, <2>2, <3>4 DEF n
            <4>2. CASE j \in DOMAIN lists[l]
                BY <1>1, <1>4, <2>2, <3>4, <4>1, <4>2 DEF SnapshotsRise
            <4>3. CASE j = n + 1
                BY <1>1, <1>6, <2>2, <3>2, <4>1, <4>3
            <4>. QED
                BY <1>1, <2>2, <3>4, <4>2, <4>3
        <3>. QED
            BY <3>3, <3>4 DEF SnapshotsRise
    <2>. QED
        BY <2>1, <2>2
<1>8. ASSUME jobs'[w] # Idle PROVE JobIsAlone(jobs[w])'
    <2>1. /\ jobs'[w].stage = "get"
          /\ Members(jobs'[w].todo) = Members(job.todo) \ {l}
          /\ jobs'[w].request = job.request /\ jobs'[w].next = job.next
        BY <1>2, <1>8
    <2>2. job.next = record
        BY <1>1 DEF JobIsAlone
    <2>. HIDE DEF new, l
    <2>3. Members(job.todo) \subseteq KvLists /\ Members(Trail(job.request.op)) \subseteq KvLists
        <3>1. job.todo \in Seq(KvLists) /\ Trail(job.request.op) \in Seq(KvLists)
            BY <1>1, TrailIsATodo, TodoFacts
        <3>. QED
            BY <3>1 DEF Members
    <2>4. ASSUME NEW k \in Members(job.todo) \ {l}
          PROVE  IF job.request.op = "continue"
                 THEN k = "events" => \A i \in DOMAIN lists'[k] :
                    ~(/\ lists'[k][i].op = "continue"
                      /\ lists'[k][i].token = job.request.token)
                 ELSE \A i \in DOMAIN lists'[k] :
                    lists'[k][i].op # "continue" => lists'[k][i].version < job.next.version
        <3>1. lists'[k] = lists[k] /\ k \in KvLists
            BY <1>1, <2>3
        <3>2. IF job.request.op = "continue"
              THEN k = "events" => ~HasContinuation(job.request.token)
              ELSE \A i \in DOMAIN lists[k] :
                 lists[k][i].op # "continue" => lists[k][i].version < job.next.version
            BY <1>1 DEF JobIsAlone
        <3>. QED
            BY <3>1, <3>2 DEF HasContinuation
    <2>5. ASSUME NEW k \in Members(Trail(job.request.op)) \ Members(jobs'[w].todo)
          PROVE  \E i \in DOMAIN lists'[k] : lists'[k][i] = new
        <3>1. CASE k = l
            BY <1>1, <3>1
        <3>2. CASE k # l
            <4>1. k \in Members(Trail(job.request.op)) \ Members(job.todo)
                BY <2>1, <2>5, <3>2
            <4>2. lists'[k] = lists[k]
                BY <1>1, <2>3, <3>2
            <4>. QED
                BY <1>1, <4>1, <4>2
        <3>. QED
            BY <3>1, <3>2
    <2>6. new = Entry(jobs'[w].request, jobs'[w].next)
        BY <2>1 DEF new
    <2>. HIDE DEF job
    <2>. QED
        BY <1>2, <2>1, <2>2, <2>4, <2>5, <2>6 DEF JobIsAlone, HasContinuation, Entry
<1>9. \A v \in Workers : jobs'[v] # Idle => JobIsAlone(jobs[v])'
    <2>. SUFFICES ASSUME NEW v \in Workers, jobs'[v] # Idle PROVE JobIsAlone(jobs[v])'
        OBVIOUS
    <2>1. v = w
        BY <1>3
    <2>. QED
        BY <1>8, <2>1
<1>. QED
    BY <1>3, <1>5, <1>7, <1>9 DEF Alone

LEMMA EndIsAlone ==
    ASSUME IInv, ~overlapped, NEW w \in Workers, jobs' = [jobs EXCEPT ![w] = Idle],
           UNCHANGED <<record, lists, written>>
    PROVE  Alone'
<1>1. \A v \in Workers : jobs'[v] # Idle => jobs[v] # Idle /\ jobs'[v] = jobs[v]
    BY JobEnds DEF IInv
<1>2. ASSUME NEW v \in Workers, jobs'[v] # Idle PROVE JobIsAlone(jobs[v])'
    <2>1. JobIsAlone(jobs[v])
        BY <1>1, <1>2 DEF IInv, Alone
    <2>. QED
        BY <1>1, <1>2, <2>1 DEF JobIsAlone, HasContinuation
<1>3. OneIsBusy'
    BY <1>1 DEF IInv, Alone, OneIsBusy
<1>. QED
    BY <1>2, <1>3 DEF IInv, Alone, HistoryIsLinear, SnapshotsRise

LEMMA AloneStep == IInv /\ [KvNext]_kvVars => Alone'
<1>. SUFFICES ASSUME IInv, [KvNext]_kvVars, ~overlapped' PROVE Alone'
    BY DEF Alone
<1>1. ASSUME NEW w \in Workers, NEW r \in Requests, Begin(w, r) \/ ContinueLoad(w, r)
      PROVE  Alone'
    BY <1>1, StartIsAlone
<1>2. ASSUME NEW w \in Workers, PutRecord(w) PROVE Alone'
    BY <1>2, PutRecordIsAlone
<1>3. ASSUME NEW w \in Workers, ContinueConsume(w) PROVE Alone'
    BY <1>3, ConsumeIsAlone
<1>4. ASSUME NEW w \in Workers, GetList(w) PROVE Alone'
    BY <1>4, GetListIsAlone
<1>5. ASSUME NEW w \in Workers, PutList(w) PROVE Alone'
    BY <1>5, PutListIsAlone
<1>6. ASSUME NEW w \in Workers, ContinueReplay(w) \/ Fail(w) \/ Restart(w) PROVE Alone'
    <2>1. /\ jobs' = [jobs EXCEPT ![w] = Idle] /\ overlapped' = overlapped
          /\ UNCHANGED <<record, lists, written>>
        BY <1>6, ReplayStep, DropStep DEF IInv
    <2>. QED
        BY <2>1, EndIsAlone
<1>7. CASE UNCHANGED kvVars
    BY <1>7 DEF IInv, Alone, OneIsBusy, HistoryIsLinear, SnapshotsRise, JobIsAlone,
                HasContinuation, kvVars
<1>. QED
    BY <1>1, <1>2, <1>3, <1>4, <1>5, <1>6, <1>7 DEF KvNext

----------------------------------------------------------------------------
(* The lists: what is in one of them when it is in another, and when a     *)
(* client was told.                                                        *)

LEMMA InitTrail == KvInit => TrailIsCutInOrder /\ AnsweredIsRecorded /\ OneContinuationPerToken
BY DEF KvInit, TrailIsCutInOrder, AnsweredIsRecorded, OneContinuationPerToken, KvLists

(* The three properties speak of the lists and the answers only. *)
LEMMA TrailUntouched ==
    ASSUME IInv, overlapped => overlapped', UNCHANGED <<lists, answers>>
    PROVE  TrailIsCutInOrder' /\ AnsweredIsRecorded' /\ OneContinuationPerToken'
BY DEF IInv, TrailIsCutInOrder, AnsweredIsRecorded, OneContinuationPerToken

MutationsOf(list) ==
    {e \in {list[i] : i \in DOMAIN list} : e.op \notin {"create", "continue"}}

LEMMA PutListKeepsOrder ==
    ASSUME IInv, ~overlapped', NEW w \in Workers, PutList(w)
    PROVE  TrailIsCutInOrder'
<1>. DEFINE job == jobs[w]
            new == Entry(job.request, job.next)
            l   == Head(job.todo)
            n   == Len(lists[l])
            done == Members(Trail(job.request.op)) \ Members(job.todo)
<1>1. /\ ~overlapped
      /\ job.request.op \in Operations /\ job.todo \in Todos(job.request.op)
      /\ l \in KvLists
      /\ \A k \in KvLists : DOMAIN lists[k] = 1..Len(lists[k]) /\ Len(lists[k]) \in Nat
      /\ \A k \in KvLists \ {l} : lists'[k] = lists[k]
      /\ DOMAIN lists'[l] = DOMAIN lists[l] \cup {n + 1}
      /\ \A i \in DOMAIN lists[l] : lists'[l][i] = lists[l][i]
      /\ lists'[l][n + 1] = new
      /\ IF job.request.op = "continue"
         THEN l = "events" => ~HasContinuation(job.request.token)
         ELSE \A i \in DOMAIN lists[l] :
                 lists[l][i].op # "continue" => lists[l][i].version < job.next.version
      /\ \A k \in done : \E i \in DOMAIN lists[k] : lists[k][i] = new
    BY AppendAlone
<1>2. /\ l = "log" /\ job.request.op \notin {"create", "continue"} => "events" \in done
      /\ l = "events" /\ job.request.op # "continue" => "snapshots" \in done
      /\ l = "events" => job.request.op # "create"
    BY <1>1, TrailOrder
<1>3. /\ new.op = job.request.op /\ new.version = job.next.version
      /\ new.token = job.request.token
    BY DEF Entry
<1>4. job.next.version \in Nat
    BY PutListStep, BusyJob DEF IInv
<1>5. /\ MutationsOf(lists["log"]) \subseteq MutationsOf(lists["events"])
      /\ MutationsOf(lists["events"]) \subseteq MutationsOf(lists["snapshots"])
      /\ \A i, j \in DOMAIN lists["events"] :
            lists["events"][i] = lists["events"][j] => i = j
    BY <1>1 DEF IInv, TrailIsCutInOrder, MutationsOf
<1>. HIDE DEF new, l, job, done
<1>6. MutationsOf(lists'[l])
         = MutationsOf(lists[l]) \cup
             (IF new.op \in {"create", "continue"} THEN {} ELSE {new})
    BY <1>1 DEF MutationsOf
<1>7. \A k \in KvLists \ {l} : MutationsOf(lists'[k]) = MutationsOf(lists[k])
    BY <1>1
<1>8. \A k \in done : new.op \notin {"create", "continue"} => new \in MutationsOf(lists[k])
    BY <1>1 DEF MutationsOf
<1>9. MutationsOf(lists'["log"]) \subseteq MutationsOf(lists'["events"])
    BY <1>1, <1>2, <1>3, <1>5, <1>6, <1>7, <1>8 DEF KvLists
<1>10. MutationsOf(lists'["events"]) \subseteq MutationsOf(lists'["snapshots"])
    <2>. HIDE DEF MutationsOf
    <2>1. CASE l = "events"
        <3>1. MutationsOf(lists'["snapshots"]) = MutationsOf(lists["snapshots"])
            BY <1>7, <2>1 DEF KvLists
        <3>2. new.op \notin {"create", "continue"} => new \in MutationsOf(lists["snapshots"])
            BY <1>2, <1>3, <1>8, <2>1
        <3>. QED
            BY <1>5, <1>6, <2>1, <3>1, <3>2
    <2>2. CASE l # "events"
        <3>1. MutationsOf(lists'["events"]) = MutationsOf(lists["events"])
            BY <1>7, <2>2 DEF KvLists
        <3>2. MutationsOf(lists["snapshots"]) \subseteq MutationsOf(lists'["snapshots"])
            BY <1>6, <1>7 DEF KvLists
        <3>. QED
            BY <1>5, <3>1, <3>2
    <2>. QED
        BY <2>1, <2>2
<1>11. ASSUME NEW i \in DOMAIN lists'["events"], NEW j \in DOMAIN lists'["events"],
              lists'["events"][i] = lists'["events"][j]
       PROVE  i = j
    <2>1. CASE l # "events"
        BY <1>1, <1>5, <1>11, <2>1 DEF KvLists
    <2>2. CASE l = "events"
        <3>1. ASSUME NEW x \in DOMAIN lists["events"] PROVE lists["events"][x] # new
            <4>1. CASE job.request.op = "continue"
                BY <1>1, <1>3, <2>2, <4>1 DEF HasContinuation
            <4>2. CASE job.request.op # "continue"
                BY <1>1, <1>3, <1>4, <2>2, <4>2
            <4>. QED
                BY <4>1, <4>2
        <3>. QED
            BY <1>1, <1>5, <1>11, <2>2, <3>1
    <2>. QED
        BY <2>1, <2>2
<1>. QED
    BY <1>9, <1>10, <1>11 DEF TrailIsCutInOrder, MutationsOf

LEMMA PutListRecords ==
    ASSUME IInv, ~overlapped', NEW w \in Workers, PutList(w)
    PROVE  AnsweredIsRecorded' /\ OneContinuationPerToken'
<1>. DEFINE job == jobs[w]
            new == Entry(job.request, job.next)
            l   == Head(job.todo)
            n   == Len(lists[l])
            done == Members(Trail(job.request.op)) \ Members(job.todo)
<1>1. /\ ~overlapped
      /\ job.request.op \in Operations /\ job.todo \in Todos(job.request.op)
      /\ l \in KvLists
      /\ \A k \in KvLists : DOMAIN lists[k] = 1..Len(lists[k]) /\ Len(lists[k]) \in Nat
      /\ \A k \in KvLists \ {l} : lists'[k] = lists[k]
      /\ DOMAIN lists'[l] = DOMAIN lists[l] \cup {n + 1}
      /\ \A i \in DOMAIN lists[l] : lists'[l][i] = lists[l][i]
      /\ lists'[l][n + 1] = new
      /\ job.request.op = "continue" =>
            (l = "events" => ~HasContinuation(job.request.token))
      /\ \A k \in done : \E i \in DOMAIN lists[k] : lists[k][i] = new
    BY AppendAlone
<1>2. \/ /\ Members(job.todo) = {l}
         /\ answers' = answers \cup
               {[request |-> job.request, version |-> job.next.version]}
      \/ answers' = answers
    BY PutListStep DEF IInv
<1>3. /\ new.op = job.request.op /\ new.version = job.next.version
      /\ new.token = job.request.token
    BY DEF Entry
<1>4. \A r \in Requests : Promised(r) \subseteq Members(Trail(r.op))
                          /\ Promised(r) \subseteq KvLists
    <2>. SUFFICES ASSUME NEW r \in Requests
                  PROVE  Promised(r) \subseteq Members(Trail(r.op)) /\ Promised(r) \subseteq KvLists
        OBVIOUS
    <2>1. r.op \in Operations
        BY Assumptions
    <2>2. Members(Trail(r.op)) \subseteq KvLists
        <3>1. Trail(r.op) \in Seq(KvLists)
            BY <2>1, TrailIsATodo, TodoFacts
        <3>. QED
            BY <3>1 DEF Members
    <2>3. CASE r.op = "continue"
        BY <2>2, <2>3 DEF Promised, Members, Trail
    <2>4. CASE r.op # "continue"
        BY <2>2, <2>4 DEF Promised, Members
    <2>. QED
        BY <2>3, <2>4
<1>5. job.request \in Requests
    BY PutListStep, BusyJob DEF IInv
<1>. HIDE DEF new, l, job, done
<1>6. ASSUME NEW a \in answers', NEW k \in Promised(a.request)
      PROVE  \E i \in DOMAIN lists'[k] :
                /\ lists'[k][i].op = a.request.op
                /\ IF a.request.op = "continue"
                   THEN lists'[k][i].token = a.request.token
                   ELSE lists'[k][i].version = a.version
    <2>1. CASE a \in answers
        <3>1. a.request \in Requests
            BY <2>1 DEF IInv, TypeOK
        <3>2. PICK i \in DOMAIN lists[k] :
                 /\ lists[k][i].op = a.request.op
                 /\ IF a.request.op = "continue"
                    THEN lists[k][i].token = a.request.token
                    ELSE lists[k][i].version = a.version
            BY <1>1, <1>6, <2>1 DEF IInv, AnsweredIsRecorded
        <3>3. k \in KvLists
            BY <1>4, <1>6, <3>1
        <3>4. i \in DOMAIN lists'[k] /\ lists'[k][i] = lists[k][i]
            BY <1>1, <3>2, <3>3
        <3>. QED
            BY <3>2, <3>4
    <2>2. CASE a \notin answers
        <3>1. /\ Members(job.todo) = {l}
              /\ a.request = job.request /\ a.version = job.next.version
            BY <1>2, <2>2
        <3>2. k = l \/ k \in done
            BY <1>4, <1>5, <1>6, <3>1 DEF done
        <3>3. k \in KvLists
            BY <1>4, <1>5, <1>6, <3>1
        <3>4. PICK i \in DOMAIN lists'[k] : lists'[k][i] = new
            <4>1. CASE k = l
                BY <1>1, <4>1
            <4>2. CASE k # l /\ k \in done
                BY <1>1, <3>3, <4>2
            <4>. QED
                BY <3>2, <4>1, <4>2
        <3>. QED
            BY <1>3, <3>1, <3>4
    <2>. QED
        BY <2>1, <2>2
<1>7. ASSUME NEW i \in DOMAIN lists'["events"], NEW j \in DOMAIN lists'["events"],
             lists'["events"][i].op = "continue", lists'["events"][j].op = "continue",
             lists'["events"][i].token = lists'["events"][j].token
      PROVE  i = j
    <2>0. \A x, y \in DOMAIN lists["events"] :
             /\ lists["events"][x].op = "continue"
             /\ lists["events"][y].op = "continue"
             /\ lists["events"][x].token = lists["events"][y].token
             => x = y
        BY <1>1 DEF IInv, OneContinuationPerToken
    <2>1. CASE l # "events"
        BY <1>1, <1>7, <2>0, <2>1 DEF KvLists
    <2>2. CASE l = "events"
        <3>1. ASSUME NEW x \in DOMAIN lists["events"], new.op = "continue",
                     lists["events"][x].op = "continue"
              PROVE  lists["events"][x].token # new.token
            BY <1>1, <1>3, <2>2, <3>1 DEF HasContinuation
        <3>2. \A x \in DOMAIN lists'["events"] : x \in DOMAIN lists["events"] \/ x = n + 1
            BY <1>1, <2>2
        <3>. QED
            BY <1>1, <1>7, <2>0, <2>2, <3>1, <3>2
    <2>. QED
        BY <2>1, <2>2
<1>8. AnsweredIsRecorded'
    BY <1>6 DEF AnsweredIsRecorded, Promised
<1>9. OneContinuationPerToken'
    BY <1>7 DEF OneContinuationPerToken
<1>. QED
    BY <1>8, <1>9

(* A continuation that is answered once more is in the events. *)
LEMMA ReplayIsRecorded ==
    ASSUME IInv, NEW w \in Workers, ContinueReplay(w)
    PROVE  TrailIsCutInOrder' /\ AnsweredIsRecorded' /\ OneContinuationPerToken'
<1>. DEFINE job == jobs[w]
<1>1. /\ job # Idle /\ job.stage = "token" /\ HasContinuation(job.request.token)
      /\ answers' = answers \cup {[request |-> job.request, version |-> job.next.version]}
      /\ UNCHANGED <<lists, overlapped>>
    BY ReplayStep DEF IInv
<1>2. job.request.op = "continue"
    BY <1>1 DEF IInv, NothingIsMadeUp, JobIsTrue
<1>3. PICK i \in DOMAIN lists["events"] :
         /\ lists["events"][i].op = "continue"
         /\ lists["events"][i].token = job.request.token
    BY <1>1 DEF HasContinuation
<1>. HIDE DEF job
<1>4. TrailIsCutInOrder' /\ OneContinuationPerToken'
    BY <1>1 DEF IInv, TrailIsCutInOrder, OneContinuationPerToken
<1>5. AnsweredIsRecorded'
    <2>. SUFFICES ASSUME ~overlapped, NEW a \in answers', NEW k \in Promised(a.request)
                  PROVE  \E x \in DOMAIN lists[k] :
                            /\ lists[k][x].op = a.request.op
                            /\ IF a.request.op = "continue"
                               THEN lists[k][x].token = a.request.token
                               ELSE lists[k][x].version = a.version
        BY <1>1 DEF AnsweredIsRecorded, Promised
    <2>1. CASE a \in answers
        BY <2>1 DEF IInv, AnsweredIsRecorded
    <2>2. CASE a \notin answers
        <3>1. a.request = job.request
            BY <1>1, <2>2
        <3>2. k = "events"
            BY <1>2, <3>1 DEF Promised
        <3>. QED
            BY <1>2, <1>3, <3>1, <3>2
    <2>. QED
        BY <2>1, <2>2
<1>. QED
    BY <1>4, <1>5

LEMMA TrailStep ==
    IInv /\ [KvNext]_kvVars => TrailIsCutInOrder' /\ AnsweredIsRecorded' /\ OneContinuationPerToken'
<1>. DEFINE Trails == TrailIsCutInOrder /\ AnsweredIsRecorded /\ OneContinuationPerToken
<1>. SUFFICES ASSUME IInv, [KvNext]_kvVars PROVE Trails'
    OBVIOUS
<1>1. ASSUME NEW w \in Workers, NEW r \in Requests, Begin(w, r) \/ ContinueLoad(w, r)
      PROVE  Trails'
    BY <1>1, StartStep, TrailUntouched DEF IInv
<1>2. ASSUME NEW w \in Workers, PutRecord(w) PROVE Trails'
    BY <1>2, PutRecordStep, TrailUntouched DEF IInv
<1>3. ASSUME NEW w \in Workers, ContinueConsume(w) PROVE Trails'
    BY <1>3, ConsumeStep, TrailUntouched DEF IInv
<1>4. ASSUME NEW w \in Workers, GetList(w) PROVE Trails'
    BY <1>4, GetListStep, TrailUntouched DEF IInv
<1>5. ASSUME NEW w \in Workers, PutList(w) PROVE Trails'
    <2>1. CASE ~overlapped'
        BY <1>5, <2>1, PutListKeepsOrder, PutListRecords
    <2>2. CASE overlapped'
        BY <2>2 DEF TrailIsCutInOrder, AnsweredIsRecorded, OneContinuationPerToken
    <2>. QED
        BY <2>1, <2>2
<1>6. ASSUME NEW w \in Workers, ContinueReplay(w) PROVE Trails'
    BY <1>6, ReplayIsRecorded
<1>7. ASSUME NEW w \in Workers, Fail(w) \/ Restart(w) PROVE Trails'
    BY <1>7, DropStep, TrailUntouched DEF IInv
<1>8. CASE UNCHANGED kvVars
    BY <1>8, TrailUntouched DEF kvVars
<1>. QED
    BY <1>1, <1>2, <1>3, <1>4, <1>5, <1>6, <1>7, <1>8 DEF KvNext

----------------------------------------------------------------------------
(* The theorems. *)

(* The invariant is inductive: every reachable state of the store is well  *)
(* typed, its lists hold nothing that was not stored, and as long as no    *)
(* two requests have met, the record, the job under way and the lists fit  *)
(* together.                                                               *)
THEOREM InductiveInvariant == KvSpec => []IInv
<1>1. KvInit => IInv
    BY InitType, InitNothingIsMadeUp, InitAlone, InitTrail DEF IInv
<1>2. IInv /\ [KvNext]_kvVars => IInv'
    BY TypeStep, NothingIsMadeUpStep, AloneStep, TrailStep DEF IInv
<1>. QED
    BY <1>1, <1>2, PTL DEF KvSpec

(* Every record, entry and job of the store has its type. *)
THEOREM TypeCorrect == KvSpec => []TypeOK
<1>1. IInv => TypeOK
    BY DEF IInv
<1>. QED
    BY <1>1, InductiveInvariant, PTL

(* Under any interleaving, failure and restart: no snapshot or event is    *)
(* made up, and the stored records follow one another (_append, 96-120).   *)
THEOREM NoEntryIsMadeUp == KvSpec => []TrailTellsTheTruth
<1>1. IInv => TrailTellsTheTruth
    BY DEF IInv, NothingIsMadeUp
<1>. QED
    BY <1>1, InductiveInvariant, PTL

LEMMA AloneSnapshots == IInv => SnapshotsAreTheHistory
<1>. SUFFICES ASSUME IInv, ~overlapped PROVE SnapshotsAreTheHistory
    BY DEF SnapshotsAreTheHistory
<1>1. HistoryIsLinear /\ SnapshotsRise /\ TrailTellsTheTruth
    BY DEF IInv, Alone, NothingIsMadeUp
<1>2. ASSUME NEW i \in DOMAIN lists["snapshots"], NEW w \in written,
             w.version = lists["snapshots"][i].version
      PROVE  w = lists["snapshots"][i].record
    <2>1. lists["snapshots"][i] \in Entries
        BY DEF IInv, TypeOK, KvLists
    <2>2. /\ lists["snapshots"][i].record \in written
          /\ lists["snapshots"][i].record.version = w.version
        BY <1>1, <1>2, <2>1 DEF TrailTellsTheTruth, KvLists, Entries
    <2>. QED
        BY <1>1, <2>2 DEF HistoryIsLinear
<1>. QED
    BY <1>1, <1>2 DEF SnapshotsAreTheHistory, SnapshotsRise

(* One request at a time, failures anywhere: the three lists tell the one  *)
(* history of the record, and each no more than the one before it.         *)
THEOREM ListsTellTheHistory == KvSpec => []TrailIsTheHistory
<1>1. IInv => TrailIsTheHistory
    BY AloneSnapshots DEF IInv, TrailIsTheHistory
<1>. QED
    BY <1>1, InductiveInvariant, PTL

(* One request at a time: what a client was told had been done is recorded *)
(* in every list of the operation, whatever fails later.                   *)
THEOREM AnswersAreRecorded == KvSpec => []AnsweredIsRecorded
<1>1. IInv => AnsweredIsRecorded
    BY DEF IInv
<1>. QED
    BY <1>1, InductiveInvariant, PTL

(* One request at a time: a token makes one continuation, although the     *)
(* isolate may forget what it has consumed (450-487).                      *)
THEOREM TokensContinueOnce == KvSpec => []OneContinuationPerToken
<1>1. IInv => OneContinuationPerToken
    BY DEF IInv
<1>. QED
    BY <1>1, InductiveInvariant, PTL
=============================================================================
