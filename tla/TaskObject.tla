----------------------------- MODULE TaskObject -----------------------------
(***************************************************************************)
(* worker/src/task-object.ts: the Durable Object that keeps one task, its  *)
(* version, the log of the commands applied to it (ActionCommits) and the  *)
(* index that makes a retried command harmless.                            *)
(*                                                                         *)
(* A Durable Object handles one event at a time while it awaits its own    *)
(* storage, so a handler is one action.  Its writes are separate puts,     *)
(* though: the object may be evicted, or a put may fail, after any of      *)
(* them.  Each action therefore chooses how many of its puts are done; an  *)
(* answer reaches the caller only after the last one.                      *)
(*                                                                         *)
(* MaxVersion and MaxTrail bound the exploration and nothing else.         *)
(***************************************************************************)
EXTENDS TaskLifecycle, FiniteSets

CONSTANTS
    Keys,        \* idempotency keys
    SafeKey,     \* SafeKey[k]: k with the characters outside [a-zA-Z0-9_-]
                 \* replaced; two keys may become the same
    Commands,    \* the commands callers send
    PutTasks,    \* the records /put-state receives
    TokenIds,    \* handoff token identifiers (continuation fingerprints)
    Fingerprints,
    NoFingerprint,
    Extras,      \* what else the body of a /put-state carries
    MaxVersion,  \* bound on the version
    MaxTrail     \* bound on the entries of the three lists together

Lists == {"events", "snapshots", "log"}

(* The optional fields of the body of /put-state: entries for any of the   *)
(* three lists, any number of them, and fingerprints for some tokens.      *)
ExtraRecords ==
    [lists  : [Lists -> Nat],
     prints : UNION {[T -> Fingerprints] : T \in SUBSET TokenIds}]

(* A body that is {task} alone. *)
NoExtra == [lists  |-> [l \in Lists |-> 0],
            prints |-> [t \in {} |-> NoFingerprint]]

CommandTypes == {"task.select_route", "task.transition_state",
                 "task.append_finding", "unsupported"}

(* computeSemanticDigest keeps the fields that say what a command does.    *)
(* Its JSON.stringify replacer lists the top-level field names only, so    *)
(* whatever is nested under "finding" is dropped: every finding has the    *)
(* digest of {"finding":{}}.                                               *)
SemanticDigest(type, payload) ==
    CASE type = "task.select_route"     -> <<type, payload.route>>
      [] type = "task.transition_state" -> <<type, payload.state, payload.action>>
      [] OTHER                          -> <<type>>

(* What the command really asks for. *)
Intent(type, payload) ==
    IF type = "task.append_finding" THEN <<type, payload.finding>>
    ELSE SemanticDigest(type, payload)

Digests == {SemanticDigest(t, p) : t \in CommandTypes, p \in Payloads}
Intents == {Intent(t, p) : t \in CommandTypes, p \in Payloads}

(* The parts of a TaskCommand the object looks at.  semantic_digest is a   *)
(* field of the command, computed by buildTaskCommand.                     *)
TaskCommands ==
    [key      : Keys,
     expected : Nat \cup {NoVersion},
     type     : CommandTypes,
     payload  : Payloads,
     digest   : Digests]

(* buildTaskCommand *)
BuildTaskCommand(key, expected, type, payload) ==
    [key |-> key, expected |-> expected, type |-> type, payload |-> payload,
     digest |-> SemanticDigest(type, payload)]

ASSUME TaskObjectAssumption ==
    /\ MaxVersion \in Nat
    /\ MaxTrail \in Nat
    /\ Extras \subseteq ExtraRecords
    /\ DOMAIN SafeKey = Keys
    /\ Commands \subseteq TaskCommands
    /\ PutTasks \subseteq Tasks
    /\ NoTask \notin Tasks
    /\ NoFingerprint \notin Fingerprints

VARIABLES
    task,         \* storage "task"
    version,      \* storage "version"
    commits,      \* storage "commits": the sequence of ActionCommits
    index,        \* storage "idempotency_index"
    replications, \* storage "meta".replication_count
    trail,        \* storage "events", "snapshots" and "log": their lengths
    fingerprints, \* storage "continuation_fingerprints"
    receipts      \* history: every successful answer to /apply-command

vars == <<task, version, commits, index, replications, trail, fingerprints,
          receipts>>

coreVars == <<task, version, commits, index>>

(* A mistake: the key is used as it is. *)
ActionIdUnsanitised(command, taskVersion) == <<command.key, taskVersion + 1>>

(* createActionId *)
ActionId(command, taskVersion) == <<SafeKey[command.key], taskVersion + 1>>

ActionIds == {SafeKey[k] : k \in Keys} \X Nat

IndexEntries == [action : ActionIds, digest : Digests, version : Nat]

Commits ==
    [action : ActionIds, digest : Digests, key : Keys,
     before : Nat, after : Nat, stateAfter : Tasks]

Receipts ==
    [key : Keys, intent : Intents, digest : Digests, action : ActionIds,
     version : Nat, replayed : BOOLEAN]

----------------------------------------------------------------------------

Init ==
    /\ task = NoTask
    /\ version = NoVersion
    /\ commits = << >>
    /\ index = [k \in {} |-> NoVersion]
    /\ replications = 0
    /\ trail = [l \in Lists |-> 0]
    /\ fingerprints = [t \in TokenIds |-> NoFingerprint]
    /\ receipts = {}

CurrentVersion == IF version = NoVersion THEN 0 ELSE version

----------------------------------------------------------------------------
(* POST /apply-command *)

(* A mistake: the idempotency index is not consulted. *)
SeenIgnored(command) == FALSE

Seen(command) == command.key \in DOMAIN index

(* applyTaskCommandMutation throws for an unsupported command, and when    *)
(* the record is missing or carries another version than the object.       *)
Applicable(command) ==
    /\ command.type # "unsupported"
    /\ task # NoTask
    /\ task.version = CurrentVersion

(* A mistake: the expected version is only advice. *)
VersionUnchecked(command) == TRUE

VersionMatches(command) ==
    command.expected = NoVersion \/ command.expected = CurrentVersion

ApplyTaskCommandMutation(command) ==
    CASE command.type = "task.select_route" ->
             AppendRouteSelectionLocal(task, command.payload.route, CurrentVersion)
      [] command.type = "task.transition_state" ->
             TransitionStateLocal(task, command.payload.state,
                                  command.payload.action, CurrentVersion)
      [] OTHER ->
             AppendFindingLocal(task, command.payload.finding, CurrentVersion)

(* What the object answers; every answer but "applied" leaves it as it is. *)
ApplyOutcome(command) ==
    IF Seen(command)
    THEN IF index[command.key].digest = command.digest
         THEN "replayed" ELSE "idempotency_key_reused"
    ELSE IF ~VersionMatches(command) THEN "version_conflict"
    ELSE IF ~Applicable(command) THEN "invalid_command"
    ELSE "applied"

(* A mistake: the commit records the state it started from. *)
NewCommitStale(command) ==
    [action     |-> ActionId(command, CurrentVersion),
     digest     |-> command.digest,
     key        |-> command.key,
     before     |-> CurrentVersion,
     after      |-> CurrentVersion + 1,
     stateAfter |-> task]

NewCommit(command) ==
    [action     |-> ActionId(command, CurrentVersion),
     digest     |-> command.digest,
     key        |-> command.key,
     before     |-> CurrentVersion,
     after      |-> CurrentVersion + 1,
     stateAfter |-> ApplyTaskCommandMutation(command)]

NewEntry(command) ==
    [action  |-> ActionId(command, CurrentVersion),
     digest  |-> command.digest,
     version |-> CurrentVersion + 1]

Receipt(command, entry, replayed) ==
    [key |-> command.key, intent |-> Intent(command.type, command.payload),
     digest |-> command.digest, action |-> entry.action,
     version |-> entry.version, replayed |-> replayed]

(* The whole update but the answer.  The first put writes task, version,   *)
(* commits and index together, the second one writes meta; metaDone is     *)
(* FALSE when the object stops, or storage fails, between the two.         *)
CommitCommand(command, metaDone) ==
    /\ ApplyOutcome(command) = "applied"
    /\ CurrentVersion < MaxVersion
    /\ task' = ApplyTaskCommandMutation(command)
    /\ version' = CurrentVersion + 1
    /\ commits' = Append(commits, NewCommit(command))
    /\ index' = [k \in DOMAIN index \cup {command.key} |->
                    IF k = command.key THEN NewEntry(command) ELSE index[k]]
    /\ replications' = IF metaDone THEN replications + 1 ELSE replications
    /\ UNCHANGED <<trail, fingerprints>>

ApplyCommand(command) ==
    /\ CommitCommand(command, TRUE)
    /\ receipts' = receipts \cup {Receipt(command, NewEntry(command), FALSE)}

(* Committed, but the caller gets an error or no answer at all. *)
ApplyCommandUnanswered(command) ==
    /\ \E metaDone \in BOOLEAN : CommitCommand(command, metaDone)
    /\ UNCHANGED receipts

ReplayCommand(command) ==
    /\ ApplyOutcome(command) = "replayed"
    /\ receipts' = receipts \cup {Receipt(command, index[command.key], TRUE)}
    /\ UNCHANGED <<coreVars, replications, trail, fingerprints>>

----------------------------------------------------------------------------
(* POST /put-state *)

(* A mistake: the conflict is only logged. *)
PutStateAcceptedAlways(incoming) == TRUE

PutStateAccepted(incoming) ==
    version # NoVersion /\ incoming.version # NoVersion
        => incoming.version = version + 1

PutVersion(incoming) ==
    IF incoming.version = NoVersion THEN CurrentVersion + 1 ELSE incoming.version

(* The core is one put; the lists the body has follow one by one, the      *)
(* fingerprints come last.  Only the first done of these four writes       *)
(* happen when the object stops on the way.                                *)
BulkOrder == <<"events", "snapshots", "log">>

BulkLists(done) == {BulkOrder[i] : i \in {j \in 1..3 : j <= done}}

TrailLength == trail["events"] + trail["snapshots"] + trail["log"]

AppendBulk(extra, done) ==
    /\ trail' = [l \in Lists |->
                    IF l \in BulkLists(done) THEN trail[l] + extra.lists[l]
                    ELSE trail[l]]
    /\ fingerprints' = [t \in TokenIds |->
                           IF done = 4 /\ t \in DOMAIN extra.prints
                           THEN extra.prints[t] ELSE fingerprints[t]]
    /\ TrailLength' <= MaxTrail

PutState(incoming, extra, done) ==
    /\ PutStateAccepted(incoming)
    /\ PutVersion(incoming) <= MaxVersion
    /\ task' = incoming
    /\ version' = PutVersion(incoming)
    /\ replications' = replications + 1
    /\ AppendBulk(extra, done)
    /\ UNCHANGED <<commits, index, receipts>>

----------------------------------------------------------------------------
(* POST /append-event, /append-snapshot, /append-log, /set-fingerprint *)

AppendTrail(l) ==
    /\ TrailLength < MaxTrail
    /\ trail' = [trail EXCEPT ![l] = @ + 1]
    /\ UNCHANGED <<coreVars, replications, fingerprints, receipts>>

SetFingerprint(token, print) ==
    /\ fingerprints' = [fingerprints EXCEPT ![token] = print]
    /\ UNCHANGED <<coreVars, replications, trail, receipts>>

(* GET /get-state, /commits and /get-fingerprint change nothing. *)

----------------------------------------------------------------------------

Next ==
    \/ \E c \in Commands :
          ApplyCommand(c) \/ ApplyCommandUnanswered(c) \/ ReplayCommand(c)
    \/ \E t \in PutTasks, x \in Extras, done \in 0..4 : PutState(t, x, done)
    \/ \E l \in Lists : AppendTrail(l)
    \/ \E k \in TokenIds, f \in Fingerprints : SetFingerprint(k, f)

Spec == Init /\ [][Next]_vars

----------------------------------------------------------------------------
(* Type correctness. *)

TypeOK ==
    /\ task \in Tasks \cup {NoTask}
    /\ version \in Nat \cup {NoVersion}
    /\ commits \in Seq(Commits)
    /\ DOMAIN index \subseteq Keys
    /\ \A k \in DOMAIN index : index[k] \in IndexEntries
    /\ replications \in Nat
    /\ trail \in [Lists -> Nat]
    /\ fingerprints \in [TokenIds -> Fingerprints \cup {NoFingerprint}]
    /\ receipts \subseteq Receipts

----------------------------------------------------------------------------
(* Safety. *)

(* The log is a chain.  Every commit raises the version by one, starts at  *)
(* or after the end of the one before it, and none is ahead of the object. *)
(* Equality is not promised between neighbours: /put-state (304-357)       *)
(* raises the version without a commit.                                    *)
CommitsAreChained ==
    /\ \A i \in DOMAIN commits :
          /\ commits[i].after = commits[i].before + 1
          /\ commits[i].after <= CurrentVersion
    /\ \A i, j \in DOMAIN commits : i < j => commits[i].after <= commits[j].before

(* However often a command is sent, and whether or not its first answer    *)
(* was delivered, the log holds at most one commit for its key.            *)
AtMostOneCommitPerKey ==
    \A i, j \in DOMAIN commits : commits[i].key = commits[j].key => i = j

(* The replay path looks a commit up by action id (161-165).  Although two *)
(* keys may be sanitised to the same text, the id of an index entry is the *)
(* id of exactly one commit, and that commit is the key's own.             *)
IndexFindsItsCommit ==
    \A k \in DOMAIN index :
        \E i \in DOMAIN commits :
            /\ commits[i].key = k
            /\ commits[i].action = index[k].action
            /\ commits[i].digest = index[k].digest
            /\ commits[i].after = index[k].version
            /\ \A j \in DOMAIN commits :
                  commits[j].action = index[k].action => j = i

(* All successful answers to one key name the same action, version and     *)
(* digest, and exactly one commit of the log stands behind them.           *)
ReceiptsAgree ==
    /\ \A r, s \in receipts :
          r.key = s.key => /\ r.action = s.action
                           /\ r.version = s.version
                           /\ r.digest = s.digest
    /\ \A r \in receipts :
          \E i \in DOMAIN commits :
              /\ commits[i].key = r.key
              /\ commits[i].action = r.action
              /\ commits[i].after = r.version

(* What a reader gets from /get-state is what the log says, as long as     *)
(* nobody has written past the last commit.                                *)
LastCommitIsTheTask ==
    LET n == Len(commits) IN
    n > 0 /\ commits[n].after = CurrentVersion => commits[n].stateAfter = task

(* No step rewrites history: commits are only appended, and an index entry *)
(* never changes once written.                                             *)
HistoryIsImmutable ==
    [][ /\ Len(commits) <= Len(commits')
        /\ \A i \in DOMAIN commits : commits'[i] = commits[i]
        /\ \A k \in DOMAIN index : k \in DOMAIN index' /\ index'[k] = index[k]
      ]_vars

(* Once the object has a version, it moves up one at a time, and the       *)
(* record never changes without it.                                        *)
VersionMovesWithTheTask ==
    [][ /\ version # NoVersion =>
               version' # NoVersion /\ version' \in {version, version + 1}
        /\ task' # task => version' # version
      ]_vars
----------------------------------------------------------------------------
(* The inductive invariant of the proofs.  The log and the index tell the  *)
(* same story: every commit is what the index says of its key, and every   *)
(* key of the index has a commit.  With the chain this makes keys and      *)
(* action ids unique in the log.                                           *)
IndexMirrorsCommits ==
    /\ \A i \in DOMAIN commits :
          /\ commits[i].key \in DOMAIN index
          /\ index[commits[i].key].action = commits[i].action
          /\ index[commits[i].key].digest = commits[i].digest
          /\ index[commits[i].key].version = commits[i].after
          /\ commits[i].action = <<SafeKey[commits[i].key], commits[i].after>>
    /\ \A k \in DOMAIN index : \E i \in DOMAIN commits : commits[i].key = k

(* Every answer that was given can be given again from the index. *)
ReceiptsMatchIndex ==
    \A r \in receipts :
        /\ r.key \in DOMAIN index
        /\ index[r.key].action = r.action
        /\ index[r.key].digest = r.digest
        /\ index[r.key].version = r.version

UnbornIsEmpty ==
    /\ version = NoVersion <=> task = NoTask
    /\ version = NoVersion => commits = << >>

IInv ==
    /\ TypeOK
    /\ CommitsAreChained
    /\ IndexMirrorsCommits
    /\ ReceiptsMatchIndex
    /\ UnbornIsEmpty
    /\ LastCommitIsTheTask
=============================================================================
