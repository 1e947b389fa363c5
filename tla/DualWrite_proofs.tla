--------------------------- MODULE DualWrite_proofs ---------------------------
(***************************************************************************)
(* The safety of TaskObject for every set of keys, commands and records    *)
(* and every bound, and the step simulation that makes it an               *)
(* implementation of CommandLedger.                                        *)
(*                                                                         *)
(* The safety of DualWrite, which composes it with KV, for every set of    *)
(* clients, requests, keys and records, and every bound.  The parts of the *)
(* invariant build on each other: the types of requests under way and      *)
(* calls (DwTypeOK), and then, for each promise, what it rests on.  Where  *)
(* a promise holds only for some requests or for one request at a time,    *)
(* the theorem says so.                                                    *)
(***************************************************************************)
EXTENDS DualWrite, TaskObjectRefinement, Operators_proofs

----------------------------------------------------------------------------
(* TaskObject *)

(* The assumptions the proofs use. *)
LEMMA Assumptions ==
    /\ NoVersion \notin Int
    /\ DOMAIN SafeKey = Keys
    /\ Commands \subseteq TaskCommands
    /\ PutTasks \subseteq Tasks
    /\ NoTask \notin Tasks
    /\ Extras \subseteq ExtraRecords
BY NoVersionAssumption, TaskObjectAssumption

LEMMA NoExtraType == NoExtra \in ExtraRecords
<1>1. NoExtra.lists \in [Lists -> Nat]
    BY DEF NoExtra
<1>2. NoExtra.prints \in [{} -> Fingerprints]
    BY DEF NoExtra
<1>3. {} \in SUBSET TokenIds
    OBVIOUS
<1>4. NoExtra.prints \in UNION {[T -> Fingerprints] : T \in SUBSET TokenIds}
    BY <1>2, <1>3
<1>. QED
    BY <1>1, <1>4 DEF NoExtra, ExtraRecords

----------------------------------------------------------------------------
(* Appending to a sequence. *)

LEMMA AppendFacts ==
    ASSUME NEW S, NEW s \in Seq(S), NEW e \in S
    PROVE  /\ Append(s, e) \in Seq(S)
           /\ Len(Append(s, e)) = Len(s) + 1
           /\ DOMAIN Append(s, e) = DOMAIN s \cup {Len(s) + 1}
           /\ \A i \in DOMAIN s : i \in 1..Len(s) /\ Append(s, e)[i] = s[i]
           /\ Append(s, e)[Len(s) + 1] = e
           /\ Len(s) \in Nat
           /\ DOMAIN s = 1..Len(s)
OBVIOUS

(* The mutation of an applicable command is a task at the next version     *)
(* (applyTaskCommandMutation).                                             *)
LEMMA MutationType ==
    ASSUME TypeOK, NEW c \in TaskCommands, Applicable(c), CurrentVersion \in Nat
    PROVE  /\ ApplyTaskCommandMutation(c) \in Tasks
           /\ ApplyTaskCommandMutation(c).version = CurrentVersion + 1
<1>1. task \in Tasks
    BY DEF TypeOK, Applicable
<1>2. /\ c.type \in CommandTypes
      /\ c.payload.route \in Routes
      /\ c.payload.state \in TaskStates
      /\ c.payload.action \in NextActions
      /\ c.payload.finding \in Findings
    BY Assumptions DEF TaskCommands, Payloads
<1>. HIDE DEF TypeOK, Tasks
<1>3. CASE c.type = "task.select_route"
    BY <1>1, <1>2, <1>3, AppendRouteSelectionLocalType DEF ApplyTaskCommandMutation
<1>4. CASE c.type = "task.transition_state"
    BY <1>1, <1>2, <1>4, TransitionStateLocalType DEF ApplyTaskCommandMutation
<1>5. CASE c.type = "task.append_finding"
    BY <1>1, <1>2, <1>5, AppendFindingLocalType DEF ApplyTaskCommandMutation
<1>. QED
    BY <1>2, <1>3, <1>4, <1>5 DEF CommandTypes, Applicable

(* What a commit and its index entry are made of. *)
LEMMA NewCommitType ==
    ASSUME TypeOK, NEW c \in TaskCommands, Applicable(c), CurrentVersion \in Nat
    PROVE  /\ NewCommit(c) \in Commits
           /\ NewEntry(c) \in IndexEntries
           /\ c.key \in Keys
           /\ c.digest \in Digests
<1>1. /\ c.key \in Keys
      /\ c.digest \in Digests
    BY Assumptions DEF TaskCommands
<1>2. ActionId(c, CurrentVersion) \in ActionIds
    BY <1>1 DEF ActionId, ActionIds
<1>3. ApplyTaskCommandMutation(c) \in Tasks
    BY MutationType
<1>. QED
    BY <1>1, <1>2, <1>3 DEF NewCommit, NewEntry, Commits, IndexEntries

LEMMA CurrentVersionType ==
    ASSUME TypeOK
    PROVE  CurrentVersion \in Nat
BY DEF TypeOK, CurrentVersion

----------------------------------------------------------------------------
(* The inductive invariant. *)

LEMMA InitIInv == Init => IInv
<1>. SUFFICES ASSUME Init PROVE IInv
    OBVIOUS
<1>1. TypeOK
    BY DEF Init, TypeOK, Lists
<1>2. CommitsAreChained /\ IndexMirrorsCommits /\ LastCommitIsTheTask
    BY DEF Init, CommitsAreChained, IndexMirrorsCommits, LastCommitIsTheTask
<1>3. ReceiptsMatchIndex /\ UnbornIsEmpty
    BY DEF Init, ReceiptsMatchIndex, UnbornIsEmpty
<1>. QED
    BY <1>1, <1>2, <1>3 DEF IInv

(* What applying a command does to the log and the index: both grow by the *)
(* same new entry, under a key neither of them knew.                       *)
LEMMA CommitFacts ==
    ASSUME IInv, NEW c \in TaskCommands, NEW metaDone \in BOOLEAN,
           CommitCommand(c, metaDone)
    PROVE  /\ Applicable(c)
           /\ CurrentVersion \in Nat
           /\ CurrentVersion' = CurrentVersion + 1
           /\ c.key \in Keys /\ c.key \notin DOMAIN index
           /\ NewCommit(c) \in Commits /\ NewEntry(c) \in IndexEntries
           /\ task' \in Tasks /\ task' = NewCommit(c).stateAfter
           /\ version' = CurrentVersion + 1
           /\ commits \in Seq(Commits)
           /\ commits' = Append(commits, NewCommit(c))
           /\ DOMAIN index' = DOMAIN index \cup {c.key}
           /\ \A k \in DOMAIN index : index'[k] = index[k]
           /\ index'[c.key] = NewEntry(c)
           /\ UNCHANGED <<trail, fingerprints>>
<1>1. TypeOK /\ CurrentVersion \in Nat
    BY CurrentVersionType DEF IInv
<1>2. ApplyOutcome(c) = "applied"
    BY DEF CommitCommand
<1>3. c.key \notin DOMAIN index /\ Applicable(c)
    BY <1>2 DEF ApplyOutcome, Seen
<1>4. /\ NewCommit(c) \in Commits /\ NewEntry(c) \in IndexEntries
      /\ c.key \in Keys
    BY <1>1, <1>3, NewCommitType
<1>5. ApplyTaskCommandMutation(c) \in Tasks
    BY <1>1, <1>3, MutationType
<1>6. /\ task' = ApplyTaskCommandMutation(c)
      /\ version' = CurrentVersion + 1
      /\ commits' = Append(commits, NewCommit(c))
      /\ index' = [k \in DOMAIN index \cup {c.key} |->
                      IF k = c.key THEN NewEntry(c) ELSE index[k]]
      /\ UNCHANGED <<trail, fingerprints>>
    BY DEF CommitCommand
<1>7. CurrentVersion' = CurrentVersion + 1
    BY <1>1, <1>6, Assumptions DEF CurrentVersion
<1>8. commits \in Seq(Commits)
    BY <1>1 DEF TypeOK
<1>9. NewCommit(c).stateAfter = ApplyTaskCommandMutation(c)
    BY DEF NewCommit
<1>. HIDE DEF NewCommit, NewEntry, ApplyTaskCommandMutation, Tasks, Commits, IndexEntries
<1>. QED
    BY <1>1, <1>3, <1>4, <1>5, <1>6, <1>7, <1>8, <1>9

(* A commit preserves every part of the invariant that does not speak of   *)
(* receipts.                                                               *)
LEMMA CommitPreserves ==
    ASSUME IInv, NEW c \in TaskCommands, NEW metaDone \in BOOLEAN,
           CommitCommand(c, metaDone)
    PROVE  /\ CommitsAreChained'
           /\ IndexMirrorsCommits'
           /\ UnbornIsEmpty'
           /\ LastCommitIsTheTask'
<1>. DEFINE new == NewCommit(c)
            n == Len(commits)
<1>1. /\ CurrentVersion \in Nat /\ CurrentVersion' = CurrentVersion + 1
      /\ c.key \notin DOMAIN index
      /\ new \in Commits
      /\ task' = new.stateAfter /\ task' \in Tasks
      /\ version' = CurrentVersion + 1
      /\ commits \in Seq(Commits) /\ commits' = Append(commits, new)
      /\ DOMAIN index' = DOMAIN index \cup {c.key}
      /\ \A k \in DOMAIN index : index'[k] = index[k]
      /\ index'[c.key] = NewEntry(c)
    BY CommitFacts
<1>2. /\ new.key = c.key /\ new.digest = c.digest
      /\ new.before = CurrentVersion /\ new.after = CurrentVersion + 1
      /\ new.action = <<SafeKey[c.key], CurrentVersion + 1>>
    BY DEF NewCommit, ActionId
<1>3. /\ NewEntry(c).action = new.action /\ NewEntry(c).digest = new.digest
      /\ NewEntry(c).version = new.after
    BY DEF NewCommit, NewEntry
<1>. HIDE DEF new
<1>4. /\ DOMAIN commits' = DOMAIN commits \cup {n + 1}
      /\ \A i \in DOMAIN commits : i \in 1..n /\ commits'[i] = commits[i]
      /\ commits'[n + 1] = new
      /\ n \in Nat /\ Len(commits') = n + 1
      /\ \A i \in DOMAIN commits : commits[i] \in Commits
    BY <1>1, AppendFacts
<1>5. \A i \in DOMAIN commits : /\ commits[i].before \in Nat
                                /\ commits[i].after \in Nat
    BY <1>4 DEF Commits
<1>. HIDE DEF n
<1>6. CommitsAreChained'
    <2>1. ASSUME NEW i \in DOMAIN commits'
          PROVE  /\ commits'[i].after = commits'[i].before + 1
                 /\ commits'[i].after <= CurrentVersion'
        BY <1>1, <1>2, <1>4, <1>5 DEF IInv, CommitsAreChained
    <2>2. ASSUME NEW i \in DOMAIN commits', NEW j \in DOMAIN commits', i < j
          PROVE  commits'[i].after <= commits'[j].before
        <3>1. CASE i \in DOMAIN commits /\ j \in DOMAIN commits
            BY <2>2, <3>1, <1>4 DEF IInv, CommitsAreChained
        <3>2. CASE i \in DOMAIN commits /\ j = n + 1
            BY <3>2, <1>1, <1>2, <1>4 DEF IInv, CommitsAreChained
        <3>. QED
            BY <2>2, <3>1, <3>2, <1>4
    <2>. QED
        BY <2>1, <2>2 DEF CommitsAreChained
<1>7. IndexMirrorsCommits'
    <2>1. ASSUME NEW i \in DOMAIN commits'
          PROVE  /\ commits'[i].key \in DOMAIN index'
                 /\ index'[commits'[i].key].action = commits'[i].action
                 /\ index'[commits'[i].key].digest = commits'[i].digest
                 /\ index'[commits'[i].key].version = commits'[i].after
                 /\ commits'[i].action
                      = <<SafeKey[commits'[i].key], commits'[i].after>>
        <3>1. CASE i \in DOMAIN commits
            BY <3>1, <1>1, <1>4 DEF IInv, IndexMirrorsCommits
        <3>2. CASE i = n + 1
            BY <3>2, <1>1, <1>2, <1>3, <1>4
        <3>. QED
            BY <3>1, <3>2, <1>4
    <2>2. ASSUME NEW k \in DOMAIN index'
          PROVE  \E i \in DOMAIN commits' : commits'[i].key = k
        <3>1. CASE k \in DOMAIN index
            <4>1. PICK i \in DOMAIN commits : commits[i].key = k
                BY <3>1 DEF IInv, IndexMirrorsCommits
            <4>. QED
                BY <4>1, <1>4
        <3>2. CASE k = c.key
            BY <3>2, <1>2, <1>4
        <3>. QED
            BY <3>1, <3>2, <1>1
    <2>. QED
        BY <2>1, <2>2 DEF IndexMirrorsCommits
<1>8. UnbornIsEmpty'
    BY <1>1, Assumptions DEF UnbornIsEmpty
<1>9. LastCommitIsTheTask'
    BY <1>1, <1>4 DEF LastCommitIsTheTask
<1>. QED
    BY <1>6, <1>7, <1>8, <1>9

(* A commit keeps the types of everything but the receipts. *)
LEMMA CommitType ==
    ASSUME IInv, NEW c \in TaskCommands, NEW metaDone \in BOOLEAN,
           CommitCommand(c, metaDone)
    PROVE  /\ task' \in Tasks \cup {NoTask}
           /\ version' \in Nat \cup {NoVersion}
           /\ commits' \in Seq(Commits)
           /\ DOMAIN index' \subseteq Keys
           /\ \A k \in DOMAIN index' : index'[k] \in IndexEntries
           /\ replications' \in Nat
           /\ trail' = trail /\ fingerprints' = fingerprints
<1>1. /\ CurrentVersion \in Nat
      /\ c.key \in Keys /\ NewCommit(c) \in Commits /\ NewEntry(c) \in IndexEntries
      /\ task' \in Tasks /\ version' = CurrentVersion + 1
      /\ commits \in Seq(Commits) /\ commits' = Append(commits, NewCommit(c))
      /\ DOMAIN index' = DOMAIN index \cup {c.key}
      /\ \A k \in DOMAIN index : index'[k] = index[k]
      /\ index'[c.key] = NewEntry(c)
      /\ trail' = trail /\ fingerprints' = fingerprints
    BY CommitFacts
<1>2. /\ DOMAIN index \subseteq Keys
      /\ \A k \in DOMAIN index : index[k] \in IndexEntries
      /\ replications \in Nat
    BY DEF IInv, TypeOK
<1>3. replications' \in Nat
    BY <1>2 DEF CommitCommand
<1>. HIDE DEF NewCommit, NewEntry, Tasks, Commits, IndexEntries
<1>4. commits' \in Seq(Commits)
    BY <1>1, AppendFacts
<1>. QED
    BY <1>1, <1>2, <1>3, <1>4

(* An answer built from an index entry has the type of a receipt. *)
LEMMA ReceiptType ==
    ASSUME NEW c \in TaskCommands, NEW entry \in IndexEntries, NEW replayed \in BOOLEAN
    PROVE  Receipt(c, entry, replayed) \in Receipts
<1>1. /\ c.key \in Keys /\ c.digest \in Digests
      /\ c.type \in CommandTypes /\ c.payload \in Payloads
    BY Assumptions DEF TaskCommands
<1>2. Intent(c.type, c.payload) \in Intents
    BY <1>1 DEF Intents
<1>3. entry.action \in ActionIds /\ entry.version \in Nat
    BY DEF IndexEntries
<1>. HIDE DEF Intents, Intent, ActionIds, Digests
<1>. QED
    BY <1>1, <1>2, <1>3 DEF Receipt, Receipts

LEMMA ApplyCommandPreserves ==
    ASSUME IInv, NEW c \in TaskCommands, ApplyCommand(c)
    PROVE  IInv'
<1>1. CommitCommand(c, TRUE)
    BY DEF ApplyCommand
<1>2. receipts' = receipts \cup {Receipt(c, NewEntry(c), FALSE)}
    BY DEF ApplyCommand
<1>3. /\ CommitsAreChained' /\ IndexMirrorsCommits' /\ UnbornIsEmpty'
      /\ LastCommitIsTheTask'
    BY <1>1, CommitPreserves
<1>4. /\ NewEntry(c) \in IndexEntries
      /\ DOMAIN index' = DOMAIN index \cup {c.key}
      /\ \A k \in DOMAIN index : index'[k] = index[k]
      /\ index'[c.key] = NewEntry(c)
    BY <1>1, CommitFacts
<1>5. Receipt(c, NewEntry(c), FALSE) \in Receipts
    BY <1>4, ReceiptType
<1>6. receipts' \subseteq Receipts
    BY <1>2, <1>5 DEF IInv, TypeOK
<1>7. TypeOK'
    <2>1. /\ task' \in Tasks \cup {NoTask}
          /\ version' \in Nat \cup {NoVersion}
          /\ commits' \in Seq(Commits)
          /\ DOMAIN index' \subseteq Keys
          /\ \A k \in DOMAIN index' : index'[k] \in IndexEntries
          /\ replications' \in Nat
          /\ trail' = trail /\ fingerprints' = fingerprints
        BY <1>1, CommitType
    <2>2. /\ trail \in [Lists -> Nat]
          /\ fingerprints \in [TokenIds -> Fingerprints \cup {NoFingerprint}]
        BY DEF IInv, TypeOK
    <2>. QED
        BY <1>6, <2>1, <2>2 DEF TypeOK
<1>8. ReceiptsMatchIndex'
    <2>1. ASSUME NEW r \in receipts'
          PROVE  /\ r.key \in DOMAIN index' /\ index'[r.key].action = r.action
                 /\ index'[r.key].digest = r.digest
                 /\ index'[r.key].version = r.version
        <3>1. CASE r \in receipts
            BY <3>1, <1>4 DEF IInv, ReceiptsMatchIndex
        <3>2. CASE r = Receipt(c, NewEntry(c), FALSE)
            BY <3>2, <1>4 DEF Receipt, NewEntry
        <3>. QED
            BY <3>1, <3>2, <1>2
    <2>. QED
        BY <2>1 DEF ReceiptsMatchIndex
<1>. QED
    BY <1>3, <1>7, <1>8 DEF IInv

LEMMA ApplyCommandUnansweredPreserves ==
    ASSUME IInv, NEW c \in TaskCommands, ApplyCommandUnanswered(c)
    PROVE  IInv'
<1>1. PICK metaDone \in BOOLEAN : CommitCommand(c, metaDone)
    BY DEF ApplyCommandUnanswered
<1>2. receipts' = receipts
    BY DEF ApplyCommandUnanswered
<1>3. /\ CommitsAreChained' /\ IndexMirrorsCommits' /\ UnbornIsEmpty'
      /\ LastCommitIsTheTask'
    BY <1>1, CommitPreserves
<1>4. TypeOK'
    <2>1. /\ task' \in Tasks \cup {NoTask}
          /\ version' \in Nat \cup {NoVersion}
          /\ commits' \in Seq(Commits)
          /\ DOMAIN index' \subseteq Keys
          /\ \A k \in DOMAIN index' : index'[k] \in IndexEntries
          /\ replications' \in Nat
          /\ trail' = trail /\ fingerprints' = fingerprints
        BY <1>1, CommitType
    <2>2. /\ trail \in [Lists -> Nat]
          /\ fingerprints \in [TokenIds -> Fingerprints \cup {NoFingerprint}]
          /\ receipts \subseteq Receipts
        BY DEF IInv, TypeOK
    <2>. QED
        BY <1>2, <2>1, <2>2 DEF TypeOK
<1>5. ReceiptsMatchIndex'
    BY <1>1, <1>2, CommitFacts DEF IInv, ReceiptsMatchIndex
<1>. QED
    BY <1>3, <1>4, <1>5 DEF IInv

LEMMA ReplayCommandPreserves ==
    ASSUME IInv, NEW c \in TaskCommands, ReplayCommand(c)
    PROVE  IInv'
<1>1. /\ receipts' = receipts \cup {Receipt(c, index[c.key], TRUE)}
      /\ UNCHANGED <<task, version, commits, index, replications, trail, fingerprints>>
    BY DEF ReplayCommand, coreVars
<1>2. c.key \in DOMAIN index /\ index[c.key].digest = c.digest
    BY DEF ReplayCommand, ApplyOutcome, Seen
<1>3. Receipt(c, index[c.key], TRUE) \in Receipts
    BY <1>2, ReceiptType DEF IInv, TypeOK
<1>4. TypeOK'
    BY <1>1, <1>3 DEF IInv, TypeOK
<1>5. ReceiptsMatchIndex'
    BY <1>1, <1>2 DEF IInv, ReceiptsMatchIndex, Receipt
<1>6. /\ CommitsAreChained' /\ IndexMirrorsCommits' /\ UnbornIsEmpty'
      /\ LastCommitIsTheTask'
    BY <1>1 DEF IInv, CommitsAreChained, IndexMirrorsCommits, UnbornIsEmpty,
                LastCommitIsTheTask, CurrentVersion
<1>. QED
    BY <1>4, <1>5, <1>6 DEF IInv

(* An accepted /put-state leaves the object at a natural version, ahead of *)
(* every commit of the log.                                                *)
LEMMA PutVersionFacts ==
    ASSUME IInv, NEW t \in Tasks, PutStateAccepted(t),
           version' = PutVersion(t)
    PROVE  /\ PutVersion(t) \in Nat
           /\ CurrentVersion' = PutVersion(t)
           /\ version # NoVersion => PutVersion(t) = version + 1
<1>1. t.version \in Nat \cup {NoVersion}
    BY Assumptions DEF Tasks
<1>2. version \in Nat \cup {NoVersion}
    BY DEF IInv, TypeOK
<1>. QED
    BY <1>1, <1>2, Assumptions DEF PutVersion, PutStateAccepted, CurrentVersion

LEMMA AppendBulkType ==
    ASSUME TypeOK, NEW x \in ExtraRecords, NEW done, AppendBulk(x, done)
    PROVE  /\ trail' \in [Lists -> Nat]
           /\ fingerprints' \in [TokenIds -> Fingerprints \cup {NoFingerprint}]
<1>1. x.lists \in [Lists -> Nat] /\ trail \in [Lists -> Nat]
    BY DEF ExtraRecords, TypeOK
<1>2. trail' = [l \in Lists |-> IF l \in BulkLists(done) THEN trail[l] + x.lists[l]
                                ELSE trail[l]]
    BY DEF AppendBulk
<1>3. \A t \in DOMAIN x.prints : x.prints[t] \in Fingerprints
    BY DEF ExtraRecords
<1>4. fingerprints' = [t \in TokenIds |->
                          IF done = 4 /\ t \in DOMAIN x.prints
                          THEN x.prints[t] ELSE fingerprints[t]]
    BY DEF AppendBulk
<1>5. fingerprints \in [TokenIds -> Fingerprints \cup {NoFingerprint}]
    BY DEF TypeOK
<1>6. trail' \in [Lists -> Nat]
    BY <1>1, <1>2
<1>7. fingerprints' \in [TokenIds -> Fingerprints \cup {NoFingerprint}]
    BY <1>3, <1>4, <1>5
<1>. QED
    BY <1>6, <1>7

LEMMA PutStatePreserves ==
    ASSUME IInv, NEW t \in Tasks, NEW x \in ExtraRecords, NEW done,
           PutState(t, x, done)
    PROVE  IInv'
<1>1. /\ PutStateAccepted(t)
      /\ task' = t /\ version' = PutVersion(t)
      /\ replications' = replications + 1
      /\ AppendBulk(x, done)
      /\ commits' = commits /\ index' = index /\ receipts' = receipts
    BY DEF PutState
<1>2. /\ PutVersion(t) \in Nat /\ CurrentVersion' = PutVersion(t)
      /\ version # NoVersion => PutVersion(t) = version + 1
    BY <1>1, PutVersionFacts
<1>3. t \in Tasks /\ t # NoTask
    BY Assumptions
<1>4. TypeOK'
    <2>1. /\ trail' \in [Lists -> Nat]
          /\ fingerprints' \in [TokenIds -> Fingerprints \cup {NoFingerprint}]
        BY <1>1, AppendBulkType DEF IInv
    <2>. QED
        BY <1>1, <1>2, <1>3, <2>1 DEF IInv, TypeOK
<1>5. \A i \in DOMAIN commits : /\ commits[i].after \in Nat
                                /\ commits[i].after < CurrentVersion'
    <2>1. \A i \in DOMAIN commits : commits[i] \in Commits
        BY DEF IInv, TypeOK
    <2>2. \A i \in DOMAIN commits : /\ commits[i].after \in Nat
                                    /\ commits[i].after <= CurrentVersion
        BY <2>1 DEF IInv, Commits, CommitsAreChained
    <2>3. CASE version = NoVersion
        BY <2>3 DEF IInv, UnbornIsEmpty
    <2>4. CASE version # NoVersion
        BY <1>2, <2>2, <2>4 DEF IInv, TypeOK, CurrentVersion
    <2>. QED
        BY <2>3, <2>4
<1>6. CommitsAreChained'
    BY <1>1, <1>2, <1>5 DEF IInv, CommitsAreChained
<1>7. LastCommitIsTheTask'
    BY <1>1, <1>2, <1>5 DEF IInv, TypeOK, LastCommitIsTheTask
<1>8. IndexMirrorsCommits' /\ ReceiptsMatchIndex'
    BY <1>1 DEF IInv, IndexMirrorsCommits, ReceiptsMatchIndex
<1>9. UnbornIsEmpty'
    BY <1>1, <1>2, <1>3, Assumptions DEF IInv, UnbornIsEmpty
<1>. QED
    BY <1>4, <1>6, <1>7, <1>8, <1>9 DEF IInv

LEMMA AppendTrailPreserves ==
    ASSUME IInv, NEW l \in Lists, AppendTrail(l)
    PROVE  IInv'
<1>1. /\ trail' = [trail EXCEPT ![l] = @ + 1]
      /\ UNCHANGED <<task, version, commits, index, replications, fingerprints, receipts>>
    BY DEF AppendTrail, coreVars
<1>2. TypeOK'
    BY <1>1 DEF IInv, TypeOK
<1>3. /\ CommitsAreChained' /\ IndexMirrorsCommits' /\ UnbornIsEmpty'
      /\ LastCommitIsTheTask' /\ ReceiptsMatchIndex'
    BY <1>1 DEF IInv, CommitsAreChained, IndexMirrorsCommits, UnbornIsEmpty,
                LastCommitIsTheTask, ReceiptsMatchIndex, CurrentVersion
<1>. QED
    BY <1>2, <1>3 DEF IInv

LEMMA SetFingerprintPreserves ==
    ASSUME IInv, NEW token \in TokenIds, NEW print \in Fingerprints,
           SetFingerprint(token, print)
    PROVE  IInv'
<1>1. /\ fingerprints' = [fingerprints EXCEPT ![token] = print]
      /\ UNCHANGED <<task, version, commits, index, replications, trail, receipts>>
    BY DEF SetFingerprint, coreVars
<1>2. TypeOK'
    BY <1>1 DEF IInv, TypeOK
<1>3. /\ CommitsAreChained' /\ IndexMirrorsCommits' /\ UnbornIsEmpty'
      /\ LastCommitIsTheTask' /\ ReceiptsMatchIndex'
    BY <1>1 DEF IInv, CommitsAreChained, IndexMirrorsCommits, UnbornIsEmpty,
                LastCommitIsTheTask, ReceiptsMatchIndex, CurrentVersion
<1>. QED
    BY <1>2, <1>3 DEF IInv

LEMMA StutterPreserves ==
    ASSUME IInv, UNCHANGED vars
    PROVE  IInv'
BY DEF vars, IInv, TypeOK, CommitsAreChained, IndexMirrorsCommits, UnbornIsEmpty,
       LastCommitIsTheTask, ReceiptsMatchIndex, CurrentVersion

LEMMA NextIInv == IInv /\ [Next]_vars => IInv'
<1>. SUFFICES ASSUME IInv, [Next]_vars PROVE IInv'
    OBVIOUS
<1>1. CASE \E c \in Commands : ApplyCommand(c)
    BY <1>1, ApplyCommandPreserves, Assumptions
<1>2. CASE \E c \in Commands : ApplyCommandUnanswered(c)
    BY <1>2, ApplyCommandUnansweredPreserves, Assumptions
<1>3. CASE \E c \in Commands : ReplayCommand(c)
    BY <1>3, ReplayCommandPreserves, Assumptions
<1>4. CASE \E t \in PutTasks, x \in Extras, done \in 0..4 : PutState(t, x, done)
    BY <1>4, PutStatePreserves, Assumptions
<1>5. CASE \E l \in Lists : AppendTrail(l)
    BY <1>5, AppendTrailPreserves
<1>6. CASE \E k \in TokenIds, f \in Fingerprints : SetFingerprint(k, f)
    BY <1>6, SetFingerprintPreserves
<1>7. CASE UNCHANGED vars
    BY <1>7, StutterPreserves
<1>. QED
    BY <1>1, <1>2, <1>3, <1>4, <1>5, <1>6, <1>7 DEF Next

(* The index and the log tell the same story in every reachable state.     *)
THEOREM InductiveInvariant == Spec => []IInv
BY InitIInv, NextIInv, PTL DEF Spec

----------------------------------------------------------------------------
(* The invariants of the runs. *)

(* Every variable keeps its type. *)
THEOREM TypeCorrect == Spec => []TypeOK
BY InductiveInvariant, PTL DEF IInv

(* The commits of a task form a chain of versions, none ahead of the task. *)
THEOREM CommitsChained == Spec => []CommitsAreChained
BY InductiveInvariant, PTL DEF IInv

LEMMA SuccessorsAreNotBelow ==
    ASSUME NEW a \in Nat, NEW b \in Nat, a + 1 = b + 1
    PROVE  ~(a + 1 <= b) /\ ~(b + 1 <= a)
OBVIOUS

(* Two commits of the log differ in their version after. *)
LEMMA CommitVersionsDiffer ==
    ASSUME IInv, NEW i \in DOMAIN commits, NEW j \in DOMAIN commits,
           commits[i].after = commits[j].after
    PROVE  i = j
<1>1. /\ commits[i].before \in Nat /\ commits[i].after \in Nat
      /\ commits[j].before \in Nat /\ commits[j].after \in Nat
      /\ commits[i].after = commits[i].before + 1
      /\ commits[j].after = commits[j].before + 1
    <2>1. commits[i] \in Commits /\ commits[j] \in Commits
        BY DEF IInv, TypeOK
    <2>. QED
        BY <2>1 DEF IInv, CommitsAreChained, Commits
<1>2. i \in Nat /\ j \in Nat
    BY DEF IInv, TypeOK
<1>3. /\ i < j => commits[i].after <= commits[j].before
      /\ j < i => commits[j].after <= commits[i].before
    BY DEF IInv, CommitsAreChained
<1>4. /\ ~(commits[i].after <= commits[j].before)
      /\ ~(commits[j].after <= commits[i].before)
    BY <1>1, SuccessorsAreNotBelow, Zenon
<1>. QED
    BY <1>2, <1>3, <1>4

LEMMA OneCommitPerKey == IInv => AtMostOneCommitPerKey
<1>. SUFFICES ASSUME IInv, NEW i \in DOMAIN commits, NEW j \in DOMAIN commits,
                     commits[i].key = commits[j].key
              PROVE  i = j
    BY DEF AtMostOneCommitPerKey
<1>1. commits[i].after = commits[j].after
    BY DEF IInv, IndexMirrorsCommits
<1>. QED
    BY <1>1, CommitVersionsDiffer

(* A command takes effect at most once, however often it is sent and       *)
(* whether or not its answers arrive.                                      *)
THEOREM AtMostOnce == Spec => []AtMostOneCommitPerKey
BY InductiveInvariant, OneCommitPerKey, PTL

LEMMA IndexFinds == IInv => IndexFindsItsCommit
<1>. SUFFICES ASSUME IInv, NEW k \in DOMAIN index
              PROVE  \E i \in DOMAIN commits :
                        /\ commits[i].key = k
                        /\ commits[i].action = index[k].action
                        /\ commits[i].digest = index[k].digest
                        /\ commits[i].after = index[k].version
                        /\ \A j \in DOMAIN commits :
                              commits[j].action = index[k].action => j = i
    BY DEF IndexFindsItsCommit
<1>1. PICK i \in DOMAIN commits : commits[i].key = k
    BY DEF IInv, IndexMirrorsCommits
<1>2. /\ commits[i].action = index[k].action
      /\ commits[i].digest = index[k].digest
      /\ commits[i].after = index[k].version
    BY <1>1 DEF IInv, IndexMirrorsCommits
<1>3. ASSUME NEW j \in DOMAIN commits, commits[j].action = index[k].action
      PROVE  j = i
    <2>1. commits[j].after = commits[i].after
        BY <1>2, <1>3 DEF IInv, IndexMirrorsCommits
    <2>. QED
        BY <2>1, CommitVersionsDiffer
<1>. QED
    BY <1>1, <1>2, <1>3

(* The replay path finds the commit of the key, and no other, although two *)
(* keys may be sanitised to one text.                                      *)
THEOREM ReplayFindsTheCommit == Spec => []IndexFindsItsCommit
BY InductiveInvariant, IndexFinds, PTL

LEMMA ReceiptsAgreeInv == IInv => ReceiptsAgree
<1>. SUFFICES ASSUME IInv PROVE ReceiptsAgree
    OBVIOUS
<1>1. ASSUME NEW r \in receipts, NEW s \in receipts, r.key = s.key
      PROVE  /\ r.action = s.action /\ r.version = s.version
             /\ r.digest = s.digest
    BY <1>1 DEF IInv, ReceiptsMatchIndex
<1>2. ASSUME NEW r \in receipts
      PROVE  \E i \in DOMAIN commits : /\ commits[i].key = r.key
                                       /\ commits[i].action = r.action
                                       /\ commits[i].after = r.version
    BY IndexFinds DEF IInv, ReceiptsMatchIndex, IndexFindsItsCommit
<1>. QED
    BY <1>1, <1>2 DEF ReceiptsAgree

(* All successful answers to one key are the same answer, and a commit     *)
(* stands behind it.                                                       *)
THEOREM AnswersAgree == Spec => []ReceiptsAgree
BY InductiveInvariant, ReceiptsAgreeInv, PTL

(* The record is the one the last commit left, unless someone wrote past   *)
(* the log.                                                                *)
THEOREM StateMatchesLog == Spec => []LastCommitIsTheTask
BY InductiveInvariant, PTL DEF IInv

----------------------------------------------------------------------------
(* Action properties. *)

LEMMA ImmutableStep ==
    ASSUME IInv, [Next]_vars
    PROVE  /\ Len(commits) <= Len(commits')
           /\ \A i \in DOMAIN commits : commits'[i] = commits[i]
           /\ \A k \in DOMAIN index : k \in DOMAIN index' /\ index'[k] = index[k]
<1>0. commits \in Seq(Commits)
    BY DEF IInv, TypeOK
<1>1. ASSUME NEW c \in Commands, NEW metaDone \in BOOLEAN,
             CommitCommand(c, metaDone)
      PROVE  /\ Len(commits) <= Len(commits')
             /\ \A i \in DOMAIN commits : commits'[i] = commits[i]
             /\ \A k \in DOMAIN index : k \in DOMAIN index' /\ index'[k] = index[k]
    <2>1. /\ commits' = Append(commits, NewCommit(c)) /\ NewCommit(c) \in Commits
          /\ DOMAIN index' = DOMAIN index \cup {c.key}
          /\ \A k \in DOMAIN index : index'[k] = index[k]
        BY <1>1, CommitFacts, Assumptions
    <2>. HIDE DEF NewCommit, Commits
    <2>. QED
        BY <1>0, <2>1, AppendFacts
<1>2. CASE UNCHANGED <<commits, index>>
    BY <1>0, <1>2
<1>3. CASE \E c \in Commands : ApplyCommand(c)
    BY <1>3, <1>1 DEF ApplyCommand
<1>4. CASE \E c \in Commands : ApplyCommandUnanswered(c)
    BY <1>4, <1>1 DEF ApplyCommandUnanswered
<1>5. CASE \E c \in Commands : ReplayCommand(c)
    BY <1>5, <1>2 DEF ReplayCommand, coreVars
<1>6. CASE \E t \in PutTasks, x \in Extras, done \in 0..4 : PutState(t, x, done)
    BY <1>6, <1>2 DEF PutState
<1>7. CASE \E l \in Lists : AppendTrail(l)
    BY <1>7, <1>2 DEF AppendTrail, coreVars
<1>8. CASE \E k \in TokenIds, f \in Fingerprints : SetFingerprint(k, f)
    BY <1>8, <1>2 DEF SetFingerprint, coreVars
<1>9. CASE UNCHANGED vars
    BY <1>9, <1>2 DEF vars
<1>. QED
    BY <1>3, <1>4, <1>5, <1>6, <1>7, <1>8, <1>9 DEF Next

(* No step takes a commit or an index entry back. *)
THEOREM ImmutableHistory == Spec => HistoryIsImmutable
<1>1. IInv /\ [Next]_vars =>
        [ /\ Len(commits) <= Len(commits')
          /\ \A i \in DOMAIN commits : commits'[i] = commits[i]
          /\ \A k \in DOMAIN index : k \in DOMAIN index' /\ index'[k] = index[k]
        ]_vars
    BY ImmutableStep
<1>. QED
    BY <1>1, InductiveInvariant, PTL DEF Spec, HistoryIsImmutable

LEMMA VersionStep ==
    ASSUME IInv, [Next]_vars
    PROVE  /\ version # NoVersion =>
                  version' # NoVersion /\ version' \in {version, version + 1}
           /\ task' # task => version' # version
<1>. DEFINE Moves ==
        /\ version # NoVersion =>
               version' # NoVersion /\ version' \in {version, version + 1}
        /\ task' # task => version' # version
<1>0. version \in Nat \cup {NoVersion} /\ NoVersion \notin Nat
    BY Assumptions DEF IInv, TypeOK
<1>1. ASSUME NEW c \in Commands, NEW metaDone \in BOOLEAN,
             CommitCommand(c, metaDone)
      PROVE  Moves
    <2>1. version' = CurrentVersion + 1 /\ CurrentVersion \in Nat
        BY <1>1, CommitFacts, Assumptions
    <2>. QED
        BY <1>0, <2>1 DEF CurrentVersion
<1>2. CASE UNCHANGED <<task, version>>
    BY <1>2
<1>3. CASE \E c \in Commands : ApplyCommand(c)
    BY <1>3, <1>1 DEF ApplyCommand
<1>4. CASE \E c \in Commands : ApplyCommandUnanswered(c)
    BY <1>4, <1>1 DEF ApplyCommandUnanswered
<1>5. CASE \E c \in Commands : ReplayCommand(c)
    BY <1>5, <1>2 DEF ReplayCommand, coreVars
<1>6. ASSUME NEW t \in PutTasks, NEW x \in Extras, NEW done \in 0..4,
             PutState(t, x, done)
      PROVE  Moves
    <2>1. /\ version' \in Nat
          /\ version # NoVersion => version' = version + 1
        BY <1>6, PutVersionFacts, Assumptions DEF PutState
    <2>. QED
        BY <1>0, <2>1
<1>7. CASE \E l \in Lists : AppendTrail(l)
    BY <1>7, <1>2 DEF AppendTrail, coreVars
<1>8. CASE \E k \in TokenIds, f \in Fingerprints : SetFingerprint(k, f)
    BY <1>8, <1>2 DEF SetFingerprint, coreVars
<1>9. CASE UNCHANGED vars
    BY <1>9, <1>2 DEF vars, coreVars
<1>. QED
    BY <1>3, <1>4, <1>5, <1>6, <1>7, <1>8, <1>9 DEF Next

(* Nobody ever sees the version go back or skip a value, nor the record of *)
(* a version replaced by another.                                          *)
THEOREM VersionMoves == Spec => VersionMovesWithTheTask
<1>1. IInv /\ [Next]_vars =>
        [ /\ version # NoVersion =>
                 version' # NoVersion /\ version' \in {version, version + 1}
          /\ task' # task => version' # version
        ]_vars
    BY VersionStep
<1>. QED
    BY <1>1, InductiveInvariant, PTL DEF Spec, VersionMovesWithTheTask

----------------------------------------------------------------------------
(* TaskObject implements CommandLedger. *)

(* Two variables of the ledger, under the refinement mapping; its head is  *)
(* CurrentVersion.                                                         *)
LedgerEffects == {EffectOf(commits[i]) : i \in DOMAIN commits}
LedgerAnswers == {AnswerOf(r) : r \in receipts}

LEMMA LedgerInit == Init => Ledger!Init
BY Assumptions DEF Init, Ledger!Init, CurrentVersion

(* A commit is a Commit of the ledger, answered or not. *)
LEMMA CommitIsLedgerCommit ==
    ASSUME IInv, NEW c \in TaskCommands, NEW metaDone \in BOOLEAN,
           CommitCommand(c, metaDone),
           \/ receipts' = receipts
           \/ receipts' = receipts \cup {Receipt(c, NewEntry(c), FALSE)}
    PROVE  Ledger!Next
<1>. DEFINE e == [key |-> c.key, digest |-> c.digest, version |-> CurrentVersion + 1]
            new == NewCommit(c)
<1>1. /\ c.key \in Keys /\ c.key \notin DOMAIN index
      /\ new \in Commits
      /\ CurrentVersion' = CurrentVersion + 1
      /\ commits \in Seq(Commits) /\ commits' = Append(commits, new)
    BY CommitFacts, Assumptions
<1>2. c.digest \in Digests
    BY Assumptions DEF TaskCommands
<1>3. EffectOf(new) = e
    BY DEF EffectOf, NewCommit
<1>4. AnswerOf(Receipt(c, NewEntry(c), FALSE)) = e
    BY DEF AnswerOf, Receipt, NewEntry
<1>. HIDE DEF new, e
<1>5. LedgerEffects' = LedgerEffects \cup {e}
    <2>1. /\ DOMAIN commits' = DOMAIN commits \cup {Len(commits) + 1}
          /\ \A i \in DOMAIN commits : commits'[i] = commits[i]
          /\ commits'[Len(commits) + 1] = new
        BY <1>1, AppendFacts
    <2>2. /\ \A i \in DOMAIN commits : EffectOf(commits'[i]) = EffectOf(commits[i])
          /\ EffectOf(commits'[Len(commits) + 1]) = e
        BY <2>1, <1>3
    <2>. HIDE DEF EffectOf
    <2>. QED
        BY <2>1, <2>2 DEF LedgerEffects
<1>6. LedgerAnswers' \in {LedgerAnswers, LedgerAnswers \cup {e}}
    BY <1>4 DEF LedgerAnswers
<1>7. \A f \in LedgerEffects : f.key # c.key
    BY <1>1 DEF LedgerEffects, EffectOf, IInv, IndexMirrorsCommits
<1>8. Ledger!Commit(c.key, c.digest)
    BY <1>1, <1>5, <1>6, <1>7 DEF Ledger!Commit, Ledger!Taken, e,
        LedgerEffects, LedgerAnswers
<1>. QED
    BY <1>1, <1>2, <1>8 DEF Ledger!Next

(* A replay is an Answer of the ledger: the entry found is an effect. *)
LEMMA ReplayIsLedgerAnswer ==
    ASSUME IInv, NEW c \in TaskCommands, ReplayCommand(c)
    PROVE  Ledger!Next
<1>. DEFINE r == Receipt(c, index[c.key], TRUE)
<1>1. /\ receipts' = receipts \cup {r}
      /\ version' = version /\ commits' = commits
    BY DEF ReplayCommand, coreVars
<1>2. c.key \in DOMAIN index /\ index[c.key].digest = c.digest
    BY DEF ReplayCommand, ApplyOutcome, Seen
<1>3. PICK i \in DOMAIN commits : /\ commits[i].key = c.key
                                  /\ commits[i].digest = index[c.key].digest
                                  /\ commits[i].after = index[c.key].version
    BY <1>2, IndexFinds DEF IndexFindsItsCommit
<1>4. AnswerOf(r) = EffectOf(commits[i])
    BY <1>2, <1>3 DEF AnswerOf, EffectOf, Receipt
<1>. HIDE DEF r
<1>5. AnswerOf(r) \in LedgerEffects
    BY <1>4 DEF LedgerEffects
<1>6. LedgerAnswers' = LedgerAnswers \cup {AnswerOf(r)}
    BY <1>1 DEF LedgerAnswers
<1>7. LedgerEffects' = LedgerEffects /\ CurrentVersion' = CurrentVersion
    BY <1>1 DEF LedgerEffects, CurrentVersion
<1>8. Ledger!Answer(AnswerOf(r))
    BY <1>5, <1>6, <1>7 DEF Ledger!Answer, LedgerEffects, LedgerAnswers
<1>. QED
    BY <1>5, <1>8 DEF Ledger!Next, LedgerEffects

(* A /put-state advances the ledger, or leaves it where it was when the    *)
(* first record of all carries version 0.                                  *)
LEMMA PutStateIsLedgerAdvance ==
    ASSUME IInv, NEW t \in Tasks, NEW x, NEW done, PutState(t, x, done)
    PROVE  [Ledger!Next]_Ledger!ledgerVars
<1>1. /\ PutStateAccepted(t) /\ version' = PutVersion(t)
      /\ commits' = commits /\ receipts' = receipts
    BY DEF PutState
<1>2. /\ PutVersion(t) \in Nat /\ CurrentVersion' = PutVersion(t)
      /\ version # NoVersion => PutVersion(t) = version + 1
    BY <1>1, PutVersionFacts, Assumptions
<1>3. CurrentVersion' \in Nat /\ CurrentVersion' >= CurrentVersion
    <2>1. version \in Nat \cup {NoVersion}
        BY DEF IInv, TypeOK
    <2>2. CASE version = NoVersion
        BY <1>2, <2>2 DEF CurrentVersion
    <2>3. CASE version \in Nat
        <3>1. CurrentVersion = version /\ version # NoVersion
            BY <2>3, Assumptions DEF CurrentVersion
        <3>. QED
            BY <1>2, <2>3, <3>1
    <2>. QED
        BY <2>1, <2>2, <2>3
<1>4. CurrentVersion \in Nat
    BY CurrentVersionType DEF IInv
<1>5. /\ {EffectOf(commits[i]) : i \in DOMAIN commits}'
            = {EffectOf(commits[i]) : i \in DOMAIN commits}
      /\ {AnswerOf(r) : r \in receipts}' = {AnswerOf(r) : r \in receipts}
    BY <1>1
<1>6. CASE CurrentVersion' > CurrentVersion
    BY <1>3, <1>5, <1>6 DEF Ledger!Next, Ledger!Advance
<1>7. CASE CurrentVersion' = CurrentVersion
    BY <1>5, <1>7 DEF Ledger!ledgerVars
<1>. QED
    BY <1>3, <1>4, <1>6, <1>7

LEMMA UntouchedLedger ==
    ASSUME UNCHANGED <<version, commits, receipts>>
    PROVE  UNCHANGED Ledger!ledgerVars
BY DEF Ledger!ledgerVars, CurrentVersion

LEMMA LedgerStep == IInv /\ [Next]_vars => [Ledger!Next]_Ledger!ledgerVars
<1>. SUFFICES ASSUME IInv, [Next]_vars
              PROVE  [Ledger!Next]_Ledger!ledgerVars
    OBVIOUS
<1>1. CASE \E c \in Commands : ApplyCommand(c)
    BY <1>1, CommitIsLedgerCommit, Assumptions DEF ApplyCommand
<1>2. CASE \E c \in Commands : ApplyCommandUnanswered(c)
    BY <1>2, CommitIsLedgerCommit, Assumptions DEF ApplyCommandUnanswered
<1>3. CASE \E c \in Commands : ReplayCommand(c)
    BY <1>3, ReplayIsLedgerAnswer, Assumptions
<1>4. CASE \E t \in PutTasks, x \in Extras, done \in 0..4 : PutState(t, x, done)
    BY <1>4, PutStateIsLedgerAdvance, Assumptions
<1>5. CASE \E l \in Lists : AppendTrail(l)
    BY <1>5, UntouchedLedger DEF AppendTrail, coreVars
<1>6. CASE \E k \in TokenIds, f \in Fingerprints : SetFingerprint(k, f)
    BY <1>6, UntouchedLedger DEF SetFingerprint, coreVars
<1>7. CASE UNCHANGED vars
    BY <1>7, UntouchedLedger DEF vars
<1>. QED
    BY <1>1, <1>2, <1>3, <1>4, <1>5, <1>6, <1>7 DEF Next

(* The Durable Object keeps the promise of the command ledger: a key takes *)
(* effect at most once, and every answer is that effect.                   *)
THEOREM ImplementsLedger == Spec => LedgerSpec
<1>1. Ledger!Init /\ [][Ledger!Next]_Ledger!ledgerVars => LedgerSpec
    BY PTL DEF LedgerSpec, Ledger!Spec
<1>. QED
    BY <1>1, LedgerInit, LedgerStep, InductiveInvariant, PTL DEF Spec

----------------------------------------------------------------------------
(* DualWrite *)

Stages == {"idle", "sent", "project", "write", "trail", "repair", "replay", "replayPut"}

Flights ==
    [stage : Stages, request : RequestRecords \cup {NoKey},
     next : StoredTasks \cup {NoTask}, version : Nat, plan : Seq(Commits),
     fetched : BOOLEAN, truth : Nat, replayed : Nat]

(* A mutation keeps the request it is for; what is about to be written is  *)
(* a record; and a repair finds a record to repair.                        *)
FlightIsWhole(f) ==
    /\ f.stage \in {"sent", "project", "write", "trail"} =>
          f.request \in Requests[mode]
    /\ f.stage \in {"sent", "project"} => IsAuthoritative(f.request)
    /\ f.stage \in {"write", "trail", "replayPut"} => f.next # NoTask
    /\ f.stage \in {"repair", "replay", "replayPut"} => kv # NoTask
    /\ f.stage = "repair" /\ ~f.fetched => f.next # NoTask
    /\ f.stage = "replayPut" => f.plan # << >>

CallIsWhole(call) ==
    \/ call.kind = "put-state" /\ call.body \in StoredTasks
    \/ /\ call.kind = "apply-command"
       /\ \E r \in Requests[mode] : r.op \in Enveloped /\ call.body = Command(r)

DwTypeOK ==
    /\ mode \in Modes
    /\ kv \in StoredTasks \cup {NoTask}
    /\ flight \in [Clients -> Flights]
    /\ \A c \in Clients : FlightIsWhole(flight[c])
    /\ \A call \in calls : CallIsWhole(call)
    /\ written \subseteq StoredTasks
    /\ answers \subseteq [request : Requests[mode], version : Nat]

BaseInv == IInv /\ DwTypeOK

----------------------------------------------------------------------------
(* Types. *)

(* What a client may ask for in the mode of the deployment.                *)
LEMMA RequestFacts ==
    ASSUME mode \in Modes, NEW r \in Requests[mode]
    PROVE  /\ r \in RequestRecords
           /\ r.op \in Operations /\ r.expected \in Nat
           /\ r.payload \in Payloads /\ r.progress \in Progress
           /\ r.op \in Enveloped => DerivedKey(r) \in Keys
<1>1. r \in RequestRecords
    BY DualWriteAssumption
<1>2. r.op \in Enveloped => DerivedKey(r) \in Keys
    BY DualWriteAssumption
<1>. QED
    BY <1>1, <1>2 DEF RequestRecords

(* The command of a request is one the object understands, and only by the *)
(* fields of the request (buildTaskCommand).                               *)
LEMMA CommandType ==
    ASSUME mode \in Modes, NEW r \in Requests[mode], r.op \in Enveloped
    PROVE  /\ Command(r) \in TaskCommands
           /\ Command(r).key = DerivedKey(r) /\ Command(r).expected = r.expected
           /\ Command(r).type = r.op /\ Command(r).payload = r.payload
           /\ Command(r).digest = SemanticDigest(r.op, r.payload)
<1>1. DerivedKey(r) \in Keys /\ r.expected \in Nat /\ r.payload \in Payloads
    BY RequestFacts
<1>2. r.op \in CommandTypes
    BY DEF Enveloped, CommandTypes
<1>3. SemanticDigest(r.op, r.payload) \in Digests
    BY <1>1, <1>2 DEF Digests
<1>4. Command(r) = [key |-> DerivedKey(r), expected |-> r.expected, type |-> r.op,
                    payload |-> r.payload, digest |-> SemanticDigest(r.op, r.payload)]
    BY DEF Command, BuildTaskCommand
<1>. HIDE DEF DerivedKey, SemanticDigest, Digests, Command, Payloads
<1>. QED
    BY <1>1, <1>2, <1>3, <1>4 DEF TaskCommands

LEMMA IdleType == Idle \in Flights /\ Idle.stage = "idle" /\ Idle.next = NoTask
<1>1. << >> \in Seq(Commits)
    OBVIOUS
<1>. HIDE DEF Commits, StoredTasks, RequestRecords
<1>. QED
    BY <1>1 DEF Idle, Flights, Stages

(* One request moves on, the others stay where they are.                   *)
LEMMA OneFlightChanges ==
    ASSUME DwTypeOK, NEW c \in Clients, NEW x \in Flights,
           flight' = [flight EXCEPT ![c] = x], mode' = mode,
           kv # NoTask => kv' # NoTask,
           FlightIsWhole(x)'
    PROVE  /\ flight' \in [Clients -> Flights]
           /\ \A d \in Clients : FlightIsWhole(flight[d])'
<1>1. flight' \in [Clients -> Flights]
    BY DEF DwTypeOK
<1>2. ASSUME NEW d \in Clients
      PROVE  FlightIsWhole(flight[d])'
    <2>1. CASE d = c
        <3>1. flight'[d] = x
            BY <2>1 DEF DwTypeOK
        <3>. QED
            BY <3>1 DEF FlightIsWhole, IsAuthoritative
    <2>2. CASE d # c
        <3>1. flight'[d] = flight[d] /\ FlightIsWhole(flight[d])
            BY <2>2 DEF DwTypeOK
        <3>. QED
            BY <3>1 DEF FlightIsWhole, IsAuthoritative
    <2>. QED
        BY <2>1, <2>2
<1>. QED
    BY <1>1, <1>2

LEMMA InitBase == DwInit => BaseInv
<1>. SUFFICES ASSUME DwInit PROVE BaseInv
    OBVIOUS
<1>1. IInv
    BY InitIInv DEF DwInit
<1>2. \A c \in Clients : flight[c] = Idle
    BY DEF DwInit
<1>3. flight \in [Clients -> Flights]
    BY IdleType DEF DwInit
<1>4. \A c \in Clients : FlightIsWhole(flight[c])
    BY <1>2, IdleType DEF FlightIsWhole
<1>. QED
    BY <1>1, <1>3, <1>4 DEF BaseInv, DwTypeOK, DwInit

(* A request moves on.  The step answers nobody, starts no call, and       *)
(* leaves the record as it is.                                             *)
LEMMA FlightStep ==
    ASSUME BaseInv, NEW c \in Clients, NEW x \in Flights,
           flight' = [flight EXCEPT ![c] = x], FlightIsWhole(x), IInv',
           UNCHANGED <<storeVars, calls, answers, mode>>
    PROVE  BaseInv'
<1>2. UNCHANGED <<kv, written, calls, answers, mode>>
    BY DEF storeVars
<1>3. FlightIsWhole(x)'
    BY <1>2 DEF FlightIsWhole, IsAuthoritative
<1>4. DwTypeOK'
    BY <1>2, <1>3, OneFlightChanges
       DEF BaseInv, DwTypeOK, CallIsWhole, Command, DerivedKey, BuildTaskCommand
<1>. QED
    BY <1>4 DEF BaseInv

(* A request ends: nothing is left of it, but an answer perhaps and calls. *)
LEMMA EndStep ==
    ASSUME BaseInv, NEW c \in Clients, Reset(c), IInv',
           UNCHANGED <<storeVars, mode>>,
           \A call \in calls' : CallIsWhole(call),
           answers' \subseteq [request : Requests[mode], version : Nat]
    PROVE  BaseInv'
<1>1. UNCHANGED <<kv, written, mode>>
    BY DEF storeVars
<1>2. FlightIsWhole(Idle)'
    BY IdleType DEF FlightIsWhole
<1>3. flight' = [flight EXCEPT ![c] = Idle]
    BY DEF Reset
<1>4. /\ flight' \in [Clients -> Flights]
      /\ \A d \in Clients : FlightIsWhole(flight[d])'
    BY <1>1, <1>2, <1>3, IdleType, OneFlightChanges DEF BaseInv
<1>5. \A call \in calls' : CallIsWhole(call)'
    BY <1>1 DEF CallIsWhole, Command, DerivedKey, BuildTaskCommand
<1>6. DwTypeOK'
    BY <1>1, <1>4, <1>5 DEF BaseInv, DwTypeOK
<1>. QED
    BY <1>6 DEF BaseInv

(* What a request keeps once it has read the record and computed the next  *)
(* one (task-store-kv.mjs).                                                *)
ReadFlight(r, v) ==
    [Idle EXCEPT !.stage = IF r.op = "continue" THEN "trail" ELSE "write",
                 !.request = r, !.next = KvResult(r, kv), !.version = v]

LEMMA ReadRecordFacts ==
    ASSUME BaseInv, NEW c \in Clients, NEW r \in Requests[mode], NEW v \in Nat,
           ReadRecord(c, r, v)
    PROVE  LET x == ReadFlight(r, v) IN
           /\ x \in Flights
           /\ x.stage = IF r.op = "continue" THEN "trail" ELSE "write"
           /\ x.request = r /\ x.next = KvResult(r, kv) /\ x.version = v
           /\ flight' = [flight EXCEPT ![c] = x]
           /\ KvAccepts(r, kv) /\ KvResult(r, kv) \in StoredTasks
           /\ UNCHANGED <<objectVars, storeVars, calls, answers>>
<1>1. /\ r \in RequestRecords /\ r.op \in Operations
      /\ r.payload \in Payloads /\ r.progress \in Progress
    BY RequestFacts DEF BaseInv, DwTypeOK
<1>2. /\ KvAccepts(r, kv)
      /\ UNCHANGED <<objectVars, storeVars, calls, answers>>
      /\ flight' = [flight EXCEPT ![c] = ReadFlight(r, v)]
    BY DEF ReadRecord, ReadFlight
<1>3. kv \in StoredTasks \cup {NoTask}
    BY DEF BaseInv, DwTypeOK
<1>4. KvResult(r, kv) \in StoredTasks
    BY <1>1, <1>2, <1>3, KvResultType
<1>5. Idle \in Flights
    BY IdleType
<1>. HIDE DEF KvAccepts, KvResult, StoredTasks, RequestRecords, Idle
<1>6. LET x == ReadFlight(r, v) IN
      /\ x \in Flights
      /\ x.stage = IF r.op = "continue" THEN "trail" ELSE "write"
      /\ x.request = r /\ x.next = KvResult(r, kv) /\ x.version = v
    BY <1>1, <1>4, <1>5 DEF Flights, Stages, ReadFlight
<1>. QED
    BY <1>2, <1>4, <1>6

LEMMA StoredFacts ==
    /\ NoTask \notin StoredTasks
    /\ \A t \in StoredTasks : t \in Tasks /\ t.version \in Nat \ {0}
BY Assumptions DEF StoredTasks

LEMMA ObjectUntouched ==
    ASSUME BaseInv, UNCHANGED objectVars
    PROVE  IInv'
BY StutterPreserves DEF BaseInv, objectVars

LEMMA SendCommandFacts ==
    ASSUME BaseInv, NEW c \in Clients, NEW r \in Requests[mode], SendCommand(c, r)
    PROVE  /\ MayStart(c) /\ IsAuthoritative(r) /\ kv # NoTask
           /\ UNCHANGED <<objectVars, storeVars, calls, answers>>
           /\ \E x \in Flights :
                 /\ x.stage = "sent" /\ x.request = r
                 /\ flight' = [flight EXCEPT ![c] = x]
<1>. DEFINE x == [Idle EXCEPT !.stage = "sent", !.request = r]
<1>1. r \in RequestRecords
    BY RequestFacts DEF BaseInv, DwTypeOK
<1>2. x \in Flights /\ x.stage = "sent" /\ x.request = r
    <2>. HIDE DEF RequestRecords, StoredTasks, Commits
    <2>. QED
        BY <1>1, IdleType DEF Flights, Stages
<1>3. /\ flight' = [flight EXCEPT ![c] = x] /\ IsAuthoritative(r)
      /\ MayStart(c) /\ kv # NoTask
      /\ UNCHANGED <<objectVars, storeVars, calls, answers>>
    BY DEF SendCommand
<1>. HIDE DEF x
<1>. QED
    BY <1>2, <1>3

LEMMA SendCommandBase ==
    ASSUME BaseInv, NEW c \in Clients, NEW r \in Requests[mode], SendCommand(c, r),
           UNCHANGED mode
    PROVE  BaseInv'
<1>1. IsAuthoritative(r) /\ UNCHANGED <<objectVars, storeVars, calls, answers>>
    BY SendCommandFacts
<1>2. PICK x \in Flights : /\ x.stage = "sent" /\ x.request = r
                           /\ flight' = [flight EXCEPT ![c] = x]
    BY SendCommandFacts
<1>3. FlightIsWhole(x)
    BY <1>1, <1>2 DEF FlightIsWhole
<1>. QED
    BY <1>1, <1>2, <1>3, ObjectUntouched, FlightStep

(* A request that was sent is a command the object understands. *)
LEMMA SentFacts ==
    ASSUME BaseInv, NEW c \in Clients, flight[c].stage = "sent"
    PROVE  /\ flight[c] \in Flights
           /\ flight[c].request \in Requests[mode] /\ mode = "authoritative"
           /\ flight[c].request.op \in Enveloped
           /\ Command(flight[c].request) \in TaskCommands
<1>1. /\ flight[c] \in Flights /\ FlightIsWhole(flight[c]) /\ mode \in Modes
    BY DEF BaseInv, DwTypeOK
<1>2. /\ flight[c].request \in Requests[mode]
      /\ IsAuthoritative(flight[c].request)
    BY <1>1 DEF FlightIsWhole
<1>. QED
    BY <1>1, <1>2, CommandType DEF IsAuthoritative

LEMMA CommandAppliedFacts ==
    ASSUME BaseInv, NEW c \in Clients, CommandApplied(c)
    PROVE  /\ flight[c].stage = "sent" /\ ApplyCommand(Command(flight[c].request))
           /\ UNCHANGED <<storeVars, calls, answers>>
           /\ \E x \in Flights :
                 /\ x.stage = "project" /\ x.request = flight[c].request
                 /\ x.version = CurrentVersion + 1
                 /\ flight' = [flight EXCEPT ![c] = x]
<1>. DEFINE x == [flight[c] EXCEPT !.stage = "project", !.version = CurrentVersion + 1]
<1>1. /\ flight[c].stage = "sent"
      /\ ApplyCommand(Command(flight[c].request))
      /\ flight' = [flight EXCEPT ![c].stage = "project",
                                  ![c].version = CurrentVersion + 1]
      /\ UNCHANGED <<storeVars, calls, answers>>
    BY DEF CommandApplied
<1>2. flight[c] \in Flights /\ flight \in [Clients -> Flights]
    BY DEF BaseInv, DwTypeOK
<1>3. CurrentVersion + 1 \in Nat
    BY CurrentVersionType DEF BaseInv, IInv
<1>4. /\ x \in Flights /\ x.stage = "project" /\ x.request = flight[c].request
      /\ x.version = CurrentVersion + 1
    <2>. HIDE DEF CurrentVersion, RequestRecords, StoredTasks, Commits
    <2>. QED
        BY <1>2, <1>3 DEF Flights, Stages
<1>5. flight' = [flight EXCEPT ![c] = x]
    <2>. HIDE DEF CurrentVersion, Flights
    <2>. QED
        BY <1>1, <1>2
<1>. HIDE DEF x
<1>. QED
    BY <1>1, <1>4, <1>5

LEMMA CommandAppliedBase ==
    ASSUME BaseInv, NEW c \in Clients, CommandApplied(c), UNCHANGED mode
    PROVE  BaseInv'
<1>1. /\ flight[c].stage = "sent" /\ ApplyCommand(Command(flight[c].request))
      /\ UNCHANGED <<storeVars, calls, answers>>
    BY CommandAppliedFacts
<1>2. PICK x \in Flights : /\ x.stage = "project" /\ x.request = flight[c].request
                           /\ flight' = [flight EXCEPT ![c] = x]
    BY CommandAppliedFacts
<1>3. /\ flight[c].request \in Requests[mode] /\ mode = "authoritative"
      /\ Command(flight[c].request) \in TaskCommands
      /\ flight[c].request.op \in Enveloped
    BY <1>1, SentFacts
<1>4. IInv'
    BY <1>1, <1>3, ApplyCommandPreserves DEF BaseInv
<1>5. FlightIsWhole(x)
    BY <1>2, <1>3 DEF FlightIsWhole, IsAuthoritative
<1>. QED
    BY <1>1, <1>2, <1>4, <1>5, FlightStep

LEMMA CommandUnansweredBase ==
    ASSUME BaseInv, NEW c \in Clients, CommandUnanswered(c), UNCHANGED mode
    PROVE  BaseInv'
<1>1. /\ flight[c].stage = "sent"
      /\ ApplyCommandUnanswered(Command(flight[c].request))
      /\ Reset(c) /\ UNCHANGED <<storeVars, calls, answers>>
    BY DEF CommandUnanswered
<1>2. IInv'
    BY <1>1, SentFacts, ApplyCommandUnansweredPreserves DEF BaseInv
<1>. QED
    BY <1>1, <1>2, EndStep DEF BaseInv, DwTypeOK

LEMMA CommandReplayedBase ==
    ASSUME BaseInv, NEW c \in Clients, CommandReplayed(c), UNCHANGED mode
    PROVE  BaseInv'
<1>. DEFINE r == flight[c].request
<1>1. /\ flight[c].stage = "sent"
      /\ ReplayCommand(Command(r))
      /\ Tell(r, index[DerivedKey(r)].version)
      /\ Reset(c) /\ UNCHANGED <<storeVars, calls>>
    BY DEF CommandReplayed
<1>2. /\ r \in Requests[mode] /\ r.op \in Enveloped
      /\ Command(r) \in TaskCommands /\ mode \in Modes
    BY <1>1, SentFacts DEF BaseInv, DwTypeOK
<1>3. IInv'
    BY <1>1, <1>2, ReplayCommandPreserves DEF BaseInv
<1>. HIDE DEF r
<1>4. DerivedKey(r) \in DOMAIN index
    <2>1. Command(r).key \in DOMAIN index
        BY <1>1 DEF ReplayCommand, ApplyOutcome, Seen
    <2>. QED
        BY <1>2, <2>1, CommandType
<1>5. index[DerivedKey(r)].version \in Nat
    BY <1>4 DEF BaseInv, IInv, TypeOK, IndexEntries
<1>6. answers' \subseteq [request : Requests[mode], version : Nat]
    BY <1>1, <1>2, <1>5 DEF Tell, BaseInv, DwTypeOK
<1>. QED
    BY <1>1, <1>3, <1>6, EndStep DEF BaseInv, DwTypeOK

LEMMA StartInKvVersion ==
    ASSUME BaseInv, NEW c \in Clients, NEW r \in Requests[mode], StartInKv(c, r)
    PROVE  KvResult(r, kv).version \in Nat
<1>1. KvAccepts(r, kv)
    BY DEF StartInKv, ReadRecord
<1>2. /\ r.op \in Operations /\ r.payload \in Payloads /\ r.progress \in Progress
      /\ kv \in StoredTasks \cup {NoTask}
    BY RequestFacts DEF BaseInv, DwTypeOK
<1>3. KvResult(r, kv) \in StoredTasks
    BY <1>1, <1>2, KvResultType
<1>. QED
    BY <1>3, StoredFacts

LEMMA StartInKvBase ==
    ASSUME BaseInv, NEW c \in Clients, NEW r \in Requests[mode], StartInKv(c, r),
           UNCHANGED mode
    PROVE  BaseInv'
<1>. DEFINE v == KvResult(r, kv).version
            x == ReadFlight(r, v)
<1>1. ReadRecord(c, r, v)
    BY DEF StartInKv
<1>2. v \in Nat
    BY StartInKvVersion
<1>. HIDE DEF v
<1>3. /\ x \in Flights /\ x.stage \in {"write", "trail"}
      /\ x.request = r /\ x.next \in StoredTasks
      /\ flight' = [flight EXCEPT ![c] = x]
      /\ UNCHANGED <<objectVars, storeVars, calls, answers>>
    BY <1>1, <1>2, ReadRecordFacts
<1>. HIDE DEF x
<1>4. FlightIsWhole(x)
    BY <1>3, StoredFacts DEF FlightIsWhole
<1>. QED
    BY <1>3, <1>4, ObjectUntouched, FlightStep

LEMMA ProjectBase ==
    ASSUME BaseInv, NEW c \in Clients, Project(c), UNCHANGED mode
    PROVE  BaseInv'
<1>. DEFINE r == flight[c].request
            v == flight[c].version
            x == ReadFlight(r, v)
<1>1. flight[c].stage = "project" /\ ReadRecord(c, r, v)
    BY DEF Project
<1>2. flight[c] \in Flights /\ FlightIsWhole(flight[c])
    BY DEF BaseInv, DwTypeOK
<1>3. r \in Requests[mode] /\ v \in Nat
    BY <1>1, <1>2 DEF FlightIsWhole, Flights
<1>. HIDE DEF r, v
<1>4. /\ x \in Flights /\ x.stage \in {"write", "trail"}
      /\ x.request = r /\ x.next \in StoredTasks
      /\ flight' = [flight EXCEPT ![c] = x]
      /\ UNCHANGED <<objectVars, storeVars, calls, answers>>
    BY <1>1, <1>3, ReadRecordFacts
<1>. HIDE DEF x
<1>5. FlightIsWhole(x)
    BY <1>3, <1>4, StoredFacts DEF FlightIsWhole
<1>. QED
    BY <1>4, <1>5, ObjectUntouched, FlightStep

(* A record is put: the client that put it moves on.                       *)
LEMMA PutStep ==
    ASSUME BaseInv, NEW c \in Clients, NEW x \in Flights, NEW record \in StoredTasks,
           flight' = [flight EXCEPT ![c] = x], Put(record),
           x.stage \in {"trail", "replay"},
           x.stage = "trail" => x.request \in Requests[mode] /\ x.next # NoTask,
           UNCHANGED <<objectVars, calls, answers, mode>>
    PROVE  BaseInv'
<1>1. kv' = record /\ written' = written \cup {record} /\ kv' # NoTask
    BY StoredFacts DEF Put
<1>0. FlightIsWhole(x)'
    BY <1>1 DEF FlightIsWhole
<1>2. /\ flight' \in [Clients -> Flights]
      /\ \A d \in Clients : FlightIsWhole(flight[d])'
    BY <1>0, <1>1, OneFlightChanges DEF BaseInv
<1>3. IInv'
    BY ObjectUntouched
<1>4. DwTypeOK'
    BY <1>1, <1>2
       DEF BaseInv, DwTypeOK, CallIsWhole, Command, DerivedKey, BuildTaskCommand
<1>. QED
    BY <1>3, <1>4 DEF BaseInv

LEMMA PutRecordFacts ==
    ASSUME BaseInv, NEW c \in Clients, PutRecord(c)
    PROVE  /\ flight[c].stage = "write" /\ flight[c].request \in Requests[mode]
           /\ flight[c].next \in StoredTasks /\ Put(flight[c].next)
           /\ UNCHANGED <<objectVars, calls, answers>>
           /\ \E x \in Flights :
                 /\ x.stage = "trail" /\ x.request = flight[c].request
                 /\ x.next = flight[c].next /\ x.version = flight[c].version
                 /\ flight' = [flight EXCEPT ![c] = x]
<1>. DEFINE x == [flight[c] EXCEPT !.stage = "trail"]
<1>1. /\ flight[c].stage = "write" /\ Put(flight[c].next)
      /\ flight' = [flight EXCEPT ![c].stage = "trail"]
      /\ UNCHANGED <<objectVars, calls, answers>>
    BY DEF PutRecord
<1>2. /\ flight[c] \in Flights /\ FlightIsWhole(flight[c])
      /\ flight \in [Clients -> Flights]
    BY DEF BaseInv, DwTypeOK
<1>3. flight[c].next \in StoredTasks /\ flight[c].request \in Requests[mode]
    BY <1>1, <1>2 DEF FlightIsWhole, Flights
<1>4. /\ x \in Flights /\ x.stage = "trail" /\ x.request = flight[c].request
      /\ x.next = flight[c].next /\ x.version = flight[c].version
    <2>. HIDE DEF RequestRecords, StoredTasks, Commits
    <2>. QED
        BY <1>2 DEF Flights, Stages
<1>5. flight' = [flight EXCEPT ![c] = x]
    <2>. HIDE DEF Flights
    <2>. QED
        BY <1>1, <1>2
<1>. HIDE DEF x
<1>. QED
    BY <1>1, <1>3, <1>4, <1>5

LEMMA PutRecordBase ==
    ASSUME BaseInv, NEW c \in Clients, PutRecord(c), UNCHANGED mode
    PROVE  BaseInv'
<1>1. /\ flight[c].request \in Requests[mode]
      /\ flight[c].next \in StoredTasks /\ Put(flight[c].next)
      /\ UNCHANGED <<objectVars, calls, answers>>
    BY PutRecordFacts
<1>2. PICK x \in Flights : /\ x.stage = "trail" /\ x.request = flight[c].request
                           /\ x.next = flight[c].next
                           /\ flight' = [flight EXCEPT ![c] = x]
    BY PutRecordFacts
<1>. QED
    BY <1>1, <1>2, StoredFacts, PutStep

LEMMA ProjectionFailsBase ==
    ASSUME BaseInv, NEW c \in Clients, ProjectionFails(c), UNCHANGED mode
    PROVE  BaseInv'
<1>1. /\ flight[c].stage \in {"project", "write", "trail"}
      /\ Tell(flight[c].request, flight[c].version)
      /\ Reset(c) /\ UNCHANGED <<objectVars, storeVars, calls>>
    BY DEF ProjectionFails
<1>2. flight[c] \in Flights /\ FlightIsWhole(flight[c])
    BY DEF BaseInv, DwTypeOK
<1>3. flight[c].request \in Requests[mode] /\ flight[c].version \in Nat
    BY <1>1, <1>2 DEF FlightIsWhole, Flights
<1>4. answers' \subseteq [request : Requests[mode], version : Nat]
    BY <1>1, <1>3 DEF Tell, BaseInv, DwTypeOK
<1>. QED
    BY <1>1, <1>4, ObjectUntouched, EndStep DEF BaseInv, DwTypeOK

(* The calls a finished mutation leaves behind. *)
LEMMA ReplicationIsWhole ==
    ASSUME NEW r \in Requests[mode], NEW record \in StoredTasks
    PROVE  \A call \in Replication(r, record) : CallIsWhole(call)
<1>. HIDE DEF StoredTasks, Command
<1>1. CASE r.op \in Enveloped
    BY <1>1 DEF Replication, CallIsWhole
<1>2. CASE r.op \notin Enveloped
    BY <1>2 DEF Replication, CallIsWhole
<1>. QED
    BY <1>1, <1>2

LEMMA FinishBase ==
    ASSUME BaseInv, NEW c \in Clients, Finish(c), UNCHANGED mode
    PROVE  BaseInv'
<1>. DEFINE r == flight[c].request
            record == flight[c].next
<1>1. /\ flight[c].stage = "trail" /\ Tell(r, flight[c].version)
      /\ calls' = IF IsAuthoritative(r) THEN calls ELSE calls \cup Replication(r, record)
      /\ Reset(c) /\ UNCHANGED <<objectVars, storeVars>>
    BY DEF Finish
<1>2. flight[c] \in Flights /\ FlightIsWhole(flight[c])
    BY DEF BaseInv, DwTypeOK
<1>3. /\ r \in Requests[mode] /\ flight[c].version \in Nat
      /\ record \in StoredTasks
    BY <1>1, <1>2 DEF FlightIsWhole, Flights
<1>. HIDE DEF r, record
<1>4. answers' \subseteq [request : Requests[mode], version : Nat]
    BY <1>1, <1>3 DEF Tell, BaseInv, DwTypeOK
<1>5. \A call \in calls' : CallIsWhole(call)
    BY <1>1, <1>3, ReplicationIsWhole DEF BaseInv, DwTypeOK
<1>. QED
    BY <1>1, <1>4, <1>5, ObjectUntouched, EndStep

(* Giving up, and the end of a repair. *)
LEMMA StopBase ==
    ASSUME BaseInv, NEW c \in Clients, Reset(c),
           UNCHANGED <<objectVars, storeVars, calls, answers>>, UNCHANGED mode
    PROVE  BaseInv'
BY ObjectUntouched, EndStep DEF BaseInv, DwTypeOK

(* A log that was read, or the empty one of a read that failed. *)
LEMMA FetchedLogsType ==
    ASSUME TypeOK, NEW log \in FetchedLogs
    PROVE  log \in Seq(Commits) /\ Len(log) \in Nat /\ DOMAIN log = 1..Len(log)
<1>1. log = commits \/ log = << >>
    BY DEF FetchedLogs
<1>2. commits \in Seq(Commits)
    BY DEF TypeOK
<1>3. << >> \in Seq(Commits)
    OBVIOUS
<1>4. log \in Seq(Commits)
    BY <1>1, <1>2, <1>3, Zenon
<1>. HIDE DEF Commits, FetchedLogs, TypeOK
<1>. QED
    BY <1>4

(* A repair begins with a read of either side. *)
LEMMA RepairFetchFacts ==
    ASSUME BaseInv, NEW c \in Clients, RepairFetch(c)
    PROVE  /\ MayStart(c) /\ kv # NoTask
           /\ UNCHANGED <<objectVars, storeVars, calls, answers>>
           /\ \E x \in Flights :
                 /\ x.stage = "repair" /\ x.fetched /\ x.plan \in FetchedLogs
                 /\ x.truth = CurrentVersion
                 /\ flight' = [flight EXCEPT ![c] = x]
<1>1. PICK log \in FetchedLogs :
          flight' = [flight EXCEPT ![c] = [Idle EXCEPT
              !.stage = "repair", !.fetched = TRUE, !.plan = log,
              !.truth = CurrentVersion]]
    BY DEF RepairFetch
<1>2. MayStart(c) /\ kv # NoTask /\ UNCHANGED <<objectVars, storeVars, calls, answers>>
    BY DEF RepairFetch
<1>3. log \in Seq(Commits) /\ CurrentVersion \in Nat
    BY FetchedLogsType, CurrentVersionType DEF BaseInv, IInv
<1>. DEFINE x == [Idle EXCEPT !.stage = "repair", !.fetched = TRUE, !.plan = log,
                              !.truth = CurrentVersion]
<1>4. /\ x \in Flights /\ x.stage = "repair" /\ x.fetched /\ x.plan = log
      /\ x.truth = CurrentVersion
    <2>. HIDE DEF RequestRecords, StoredTasks, Commits, CurrentVersion, FetchedLogs
    <2>. QED
        BY <1>3, IdleType DEF Flights, Stages
<1>5. flight' = [flight EXCEPT ![c] = x]
    BY <1>1
<1>. HIDE DEF x
<1>. QED
    BY <1>2, <1>4, <1>5

LEMMA RepairFetchBase ==
    ASSUME BaseInv, NEW c \in Clients, RepairFetch(c), UNCHANGED mode
    PROVE  BaseInv'
<1>1. kv # NoTask /\ UNCHANGED <<objectVars, storeVars, calls, answers>>
    BY RepairFetchFacts
<1>2. PICK x \in Flights : /\ x.stage = "repair" /\ x.fetched
                           /\ flight' = [flight EXCEPT ![c] = x]
    BY RepairFetchFacts
<1>3. FlightIsWhole(x)
    BY <1>1, <1>2 DEF FlightIsWhole
<1>. QED
    BY <1>1, <1>2, <1>3, ObjectUntouched, FlightStep

LEMMA RepairLoadFacts ==
    ASSUME BaseInv, NEW c \in Clients, RepairLoad(c)
    PROVE  /\ MayStart(c) /\ kv # NoTask /\ kv \in StoredTasks
           /\ UNCHANGED <<objectVars, storeVars, calls, answers>>
           /\ \E x \in Flights :
                 /\ x.stage = "repair" /\ x.fetched = FALSE /\ x.next = kv
                 /\ x.plan = << >>
                 /\ flight' = [flight EXCEPT ![c] = x]
<1>. DEFINE x == [Idle EXCEPT !.stage = "repair", !.next = kv]
<1>1. /\ kv # NoTask /\ UNCHANGED <<objectVars, storeVars, calls, answers>>
      /\ MayStart(c) /\ flight' = [flight EXCEPT ![c] = x]
    BY DEF RepairLoad
<1>2. kv \in StoredTasks
    BY <1>1 DEF BaseInv, DwTypeOK
<1>3. /\ x \in Flights /\ x.stage = "repair" /\ x.next = kv
      /\ x.fetched = FALSE /\ x.plan = << >>
    <2>. HIDE DEF RequestRecords, StoredTasks, Commits
    <2>1. Idle.fetched = FALSE /\ Idle.plan = << >>
        BY DEF Idle
    <2>. QED
        BY <1>2, <2>1, IdleType DEF Flights, Stages
<1>. HIDE DEF x
<1>. QED
    BY <1>1, <1>2, <1>3

LEMMA RepairLoadBase ==
    ASSUME BaseInv, NEW c \in Clients, RepairLoad(c), UNCHANGED mode
    PROVE  BaseInv'
<1>1. /\ kv # NoTask
      /\ UNCHANGED <<objectVars, storeVars, calls, answers>>
    BY RepairLoadFacts
<1>2. PICK x \in Flights : /\ x.stage = "repair" /\ x.next = kv
                           /\ flight' = [flight EXCEPT ![c] = x]
    BY RepairLoadFacts
<1>3. FlightIsWhole(x)
    BY <1>1, <1>2 DEF FlightIsWhole
<1>. QED
    BY <1>1, <1>2, <1>3, ObjectUntouched, FlightStep

(* Both reads are there.  What the plan is made from: a log, and the       *)
(* version of the object when it was read.                                 *)
PlanSource(f, log, record, truth) ==
    \/ /\ f.fetched /\ log = f.plan /\ record = kv /\ truth = f.truth
    \/ /\ ~f.fetched /\ log \in FetchedLogs /\ record = f.next
       /\ truth = CurrentVersion

LEMMA RepairPlanFacts ==
    ASSUME BaseInv, NEW c \in Clients, RepairPlan(c)
    PROVE  /\ flight[c].stage = "repair" /\ kv # NoTask
           /\ \E log \in Seq(Commits), record \in StoredTasks, truth \in Nat :
                 /\ PlanSource(flight[c], log, record, truth)
                 /\ Plan(c, log, record, truth)
<1>1. flight[c].stage = "repair"
    BY DEF RepairPlan
<1>2. flight[c] \in Flights /\ FlightIsWhole(flight[c])
    BY DEF BaseInv, DwTypeOK
<1>3. kv # NoTask /\ kv \in StoredTasks
    BY <1>1, <1>2 DEF FlightIsWhole, BaseInv, DwTypeOK
<1>4. CASE flight[c].fetched
    <2>1. Plan(c, flight[c].plan, kv, flight[c].truth)
        BY <1>4 DEF RepairPlan
    <2>2. flight[c].plan \in Seq(Commits) /\ flight[c].truth \in Nat
        BY <1>2 DEF Flights
    <2>. HIDE DEF Plan, Commits, StoredTasks
    <2>. QED
        BY <1>1, <1>3, <1>4, <2>1, <2>2 DEF PlanSource
<1>5. CASE ~flight[c].fetched
    <2>1. PICK log \in FetchedLogs : Plan(c, log, flight[c].next, CurrentVersion)
        BY <1>5 DEF RepairPlan
    <2>2. log \in Seq(Commits) /\ CurrentVersion \in Nat
        BY FetchedLogsType, CurrentVersionType DEF BaseInv, IInv
    <2>3. flight[c].next \in StoredTasks
        BY <1>1, <1>2, <1>5 DEF FlightIsWhole, Flights
    <2>. HIDE DEF Plan, Commits, StoredTasks, CurrentVersion, FetchedLogs
    <2>. QED
        BY <1>1, <1>3, <1>5, <2>1, <2>2, <2>3 DEF PlanSource
<1>. QED
    BY <1>4, <1>5

(* The commits a plan takes from a log (planProjectionRepair).             *)
LEMMA PlanTakesFromTheLog ==
    ASSUME NEW log \in Seq(Commits), NEW target, NEW projected
    PROVE  LET plan == CommitsToApply(log, target, projected) IN
           /\ plan \in Seq(Commits) /\ Len(plan) \in Nat
           /\ \A k \in DOMAIN plan :
                 \E i \in DOMAIN log : /\ plan[k] = log[i]
                                       /\ log[i].before >= projected
                                       /\ log[i].after <= target
<1>. DEFINE positions == {i \in DOMAIN log : /\ log[i].before >= projected
                                             /\ log[i].after <= target}
            plan == SelectAt(log, positions)
<1>1. CommitsToApply(log, target, projected) = plan
    BY DEF CommitsToApply
<1>2. /\ plan \in Seq(Commits)
      /\ \E from : Embedding(from, plan, log, positions, Len(log))
    <2>. HIDE DEF positions
    <2>. QED
        BY SelectAtEmbeds
<1>3. PICK from : Embedding(from, plan, log, positions, Len(log))
    BY <1>2
<1>. HIDE DEF plan
<1>4. ASSUME NEW k \in DOMAIN plan
      PROVE  \E i \in DOMAIN log : /\ plan[k] = log[i]
                                   /\ log[i].before >= projected
                                   /\ log[i].after <= target
    <2>1. k \in 1..Len(plan)
        BY <1>2
    <2>2. from[k] \in positions /\ plan[k] = log[from[k]]
        <3>. HIDE DEF positions
        <3>. QED
            BY <1>3, <2>1 DEF Embedding
    <2>. QED
        BY <2>2
<1>5. Len(plan) \in Nat
    BY <1>2
<1>. QED
    BY <1>1, <1>2, <1>4, <1>5

PlanFlight(log, record, truth) ==
    LET target == AuthoritativeVersion(log, record.version)
        plan   == CommitsToApply(log, target, record.version)
    IN  [Idle EXCEPT !.stage = "replay", !.plan = plan, !.version = target,
                     !.truth = truth, !.replayed = Len(plan)]

LEMMA PlanFlightType ==
    ASSUME NEW log \in Seq(Commits), NEW record \in StoredTasks, NEW truth \in Nat
    PROVE  LET x      == PlanFlight(log, record, truth)
               target == AuthoritativeVersion(log, record.version)
               plan   == CommitsToApply(log, target, record.version)
           IN  /\ x \in Flights /\ x.stage = "replay" /\ x.plan = plan
               /\ x.version = target /\ x.truth = truth /\ x.replayed = Len(plan)
               /\ plan \in Seq(Commits) /\ Len(plan) \in Nat /\ target \in Nat
<1>. DEFINE target == AuthoritativeVersion(log, record.version)
            plan   == CommitsToApply(log, target, record.version)
<1>1. target \in Nat
    <2>1. record.version \in Nat
        BY StoredFacts
    <2>2. CASE log = << >>
        BY <2>1, <2>2 DEF AuthoritativeVersion
    <2>3. CASE log # << >>
        <3>. HIDE DEF Commits
        <3>1. Len(log) \in DOMAIN log /\ log[Len(log)] \in Commits
            BY <2>3
        <3>2. log[Len(log)].after \in Nat
            BY <3>1 DEF Commits
        <3>. QED
            BY <2>3, <3>2 DEF AuthoritativeVersion, Last
    <2>. QED
        BY <2>2, <2>3
<1>. HIDE DEF target
<1>2. plan \in Seq(Commits) /\ Len(plan) \in Nat
    BY PlanTakesFromTheLog
<1>. HIDE DEF plan
<1>3. PlanFlight(log, record, truth) =
          [Idle EXCEPT !.stage = "replay", !.plan = plan, !.version = target,
                       !.truth = truth, !.replayed = Len(plan)]
    BY DEF PlanFlight, plan, target
<1>4. LET x == PlanFlight(log, record, truth)
      IN  /\ x \in Flights /\ x.stage = "replay" /\ x.plan = plan
          /\ x.version = target /\ x.truth = truth /\ x.replayed = Len(plan)
    <2>. HIDE DEF RequestRecords, StoredTasks, Commits
    <2>. QED
        BY <1>1, <1>2, <1>3, IdleType DEF Flights, Stages
<1>. QED
    BY <1>1, <1>2, <1>4 DEF plan, target

LEMMA PlanStepFacts ==
    ASSUME NEW c \in Clients, NEW log \in Seq(Commits), NEW record \in StoredTasks,
           NEW truth \in Nat, Plan(c, log, record, truth)
    PROVE  LET target == AuthoritativeVersion(log, record.version)
               plan   == CommitsToApply(log, target, record.version)
           IN  /\ ValidRepairPlan(plan, target, record.version)
               /\ UNCHANGED <<objectVars, storeVars, calls, answers>>
               /\ \E x \in Flights :
                     /\ x.stage = "replay" /\ x.plan = plan /\ x.version = target
                     /\ x.truth = truth /\ x.replayed = Len(plan)
                     /\ flight' = [flight EXCEPT ![c] = x]
<1>. DEFINE target == AuthoritativeVersion(log, record.version)
            plan   == CommitsToApply(log, target, record.version)
            x == PlanFlight(log, record, truth)
<1>1. /\ flight' = [flight EXCEPT ![c] = x]
      /\ ValidRepairPlan(plan, target, record.version)
      /\ UNCHANGED <<objectVars, storeVars, calls, answers>>
    BY DEF Plan, PlanFlight
<1>2. /\ x \in Flights /\ x.stage = "replay" /\ x.plan = plan
      /\ x.version = target /\ x.truth = truth /\ x.replayed = Len(plan)
    BY PlanFlightType
<1>. HIDE DEF x, plan, target
<1>3. \E y \in Flights : /\ y.stage = "replay" /\ y.plan = plan
                         /\ y.version = target /\ y.truth = truth
                         /\ y.replayed = Len(plan)
                         /\ flight' = [flight EXCEPT ![c] = y]
    BY <1>1, <1>2
<1>. QED
    BY <1>1, <1>3 DEF plan, target

LEMMA RepairPlanBase ==
    ASSUME BaseInv, NEW c \in Clients, RepairPlan(c), UNCHANGED mode
    PROVE  BaseInv'
<1>1. kv # NoTask
    BY RepairPlanFacts
<1>2. PICK log \in Seq(Commits), record \in StoredTasks, truth \in Nat :
          Plan(c, log, record, truth)
    BY RepairPlanFacts
<1>3. UNCHANGED <<objectVars, storeVars, calls, answers>>
    BY <1>2, PlanStepFacts
<1>4. PICK x \in Flights : x.stage = "replay" /\ flight' = [flight EXCEPT ![c] = x]
    BY <1>2, PlanStepFacts
<1>5. FlightIsWhole(x)
    BY <1>1, <1>4 DEF FlightIsWhole
<1>. QED
    BY <1>3, <1>4, <1>5, ObjectUntouched, FlightStep

(* The record a replay writes: the one of the commit, under the version    *)
(* after that of the record it replaces (kvStore.update).                  *)
ReplayRecord(commit, v) == [commit.stateAfter EXCEPT !.version = v + 1]

LEMMA ReplayRecordType ==
    ASSUME NEW commit \in Commits, NEW v \in Nat
    PROVE  /\ ReplayRecord(commit, v) \in StoredTasks
           /\ commit.stateAfter.version = v + 1 =>
                 ReplayRecord(commit, v) = commit.stateAfter
<1>. DEFINE t == commit.stateAfter
            next == [t EXCEPT !.version = v + 1]
<1>1. t \in Tasks
    BY DEF Commits
<1>. HIDE DEF t
<1>2. DOMAIN next = DOMAIN t /\ next = [f \in DOMAIN next |-> next[f]]
    OBVIOUS
<1>3. /\ next.version = v + 1 /\ next.state = t.state
      /\ next.action = t.action /\ next.progress = t.progress
      /\ next.route = t.route /\ next.routes = t.routes
      /\ next.findings = t.findings /\ next.updated_at = t.updated_at
    BY <1>1 DEF Tasks
<1>4. t.version = v + 1 => next = t
    BY <1>1 DEF Tasks
<1>5. ReplayRecord(commit, v) = next
    BY DEF ReplayRecord, t
<1>. HIDE DEF next
<1>6. next \in Tasks
    BY <1>1, <1>2, <1>3, TaskFields DEF Tasks
<1>. QED
    BY <1>3, <1>4, <1>5, <1>6 DEF StoredTasks, t

LEMMA ReplayReadFacts ==
    ASSUME BaseInv, NEW c \in Clients, ReplayRead(c)
    PROVE  LET commit == Head(flight[c].plan)
               x == [flight[c] EXCEPT !.stage = "replayPut",
                                      !.next = ReplayRecord(commit, kv.version)]
           IN  /\ flight[c] \in Flights /\ flight[c].stage = "replay"
               /\ 1 \in DOMAIN flight[c].plan /\ flight[c].plan # << >>
               /\ commit = flight[c].plan[1] /\ commit \in Commits
               /\ kv \in StoredTasks /\ kv.version = commit.before
               /\ x \in Flights /\ x.stage = "replayPut" /\ x.plan = flight[c].plan
               /\ x.version = flight[c].version /\ x.truth = flight[c].truth
               /\ x.replayed = flight[c].replayed
               /\ x.next = ReplayRecord(commit, kv.version)
               /\ x.next \in StoredTasks
               /\ flight' = [flight EXCEPT ![c] = x]
               /\ UNCHANGED <<objectVars, storeVars, calls, answers>>
<1>. DEFINE commit == Head(flight[c].plan)
            next == ReplayRecord(commit, kv.version)
            x == [flight[c] EXCEPT !.stage = "replayPut", !.next = next]
<1>1. /\ flight[c].stage = "replay" /\ flight[c].plan # << >>
      /\ kv.version = commit.before
      /\ flight' = [flight EXCEPT ![c].stage = "replayPut", ![c].next = next]
      /\ UNCHANGED <<objectVars, storeVars, calls, answers>>
    BY DEF ReplayRead, ReplayRecord
<1>2. /\ flight[c] \in Flights /\ FlightIsWhole(flight[c])
      /\ flight \in [Clients -> Flights]
    BY DEF BaseInv, DwTypeOK
<1>3. kv \in StoredTasks
    BY <1>1, <1>2 DEF FlightIsWhole, BaseInv, DwTypeOK
<1>4. 1 \in DOMAIN flight[c].plan /\ commit = flight[c].plan[1] /\ commit \in Commits
    <2>1. flight[c].plan \in Seq(Commits)
        BY <1>2 DEF Flights
    <2>. HIDE DEF Commits
    <2>. QED
        BY <1>1, <2>1
<1>. HIDE DEF commit
<1>5. next \in StoredTasks
    BY <1>3, <1>4, StoredFacts, ReplayRecordType
<1>. HIDE DEF next
<1>6. /\ x \in Flights /\ x.stage = "replayPut" /\ x.plan = flight[c].plan
      /\ x.version = flight[c].version /\ x.truth = flight[c].truth
      /\ x.replayed = flight[c].replayed /\ x.next = next
    <2>. HIDE DEF RequestRecords, StoredTasks, Commits
    <2>. QED
        BY <1>2, <1>5 DEF Flights, Stages
<1>7. flight' = [flight EXCEPT ![c] = x]
    <2>. HIDE DEF Flights
    <2>. QED
        BY <1>1, <1>2
<1>. HIDE DEF x
<1>. QED
    BY <1>1, <1>2, <1>3, <1>4, <1>5, <1>6, <1>7 DEF x, next, commit

LEMMA ReplayReadBase ==
    ASSUME BaseInv, NEW c \in Clients, ReplayRead(c), UNCHANGED mode
    PROVE  BaseInv'
<1>. DEFINE x == [flight[c] EXCEPT
                    !.stage = "replayPut",
                    !.next = ReplayRecord(Head(flight[c].plan), kv.version)]
<1>1. /\ x \in Flights /\ x.stage = "replayPut" /\ x.next \in StoredTasks
      /\ x.plan # << >> /\ kv \in StoredTasks
      /\ flight' = [flight EXCEPT ![c] = x]
      /\ UNCHANGED <<objectVars, storeVars, calls, answers>>
    BY ReplayReadFacts
<1>. HIDE DEF x
<1>2. FlightIsWhole(x)
    BY <1>1, StoredFacts DEF FlightIsWhole
<1>. QED
    BY <1>1, <1>2, ObjectUntouched, FlightStep

LEMMA ReplayPutFacts ==
    ASSUME BaseInv, NEW c \in Clients, ReplayPut(c)
    PROVE  LET x == [flight[c] EXCEPT !.stage = "replay", !.next = NoTask,
                                      !.plan = Tail(flight[c].plan)]
           IN  /\ flight[c] \in Flights /\ flight[c].stage = "replayPut"
               /\ flight[c].next \in StoredTasks /\ Put(flight[c].next)
               /\ x \in Flights /\ x.stage = "replay"
               /\ x.plan = Tail(flight[c].plan)
               /\ x.version = flight[c].version /\ x.truth = flight[c].truth
               /\ x.replayed = flight[c].replayed
               /\ flight' = [flight EXCEPT ![c] = x]
               /\ UNCHANGED <<objectVars, calls, answers>>
<1>. DEFINE rest == Tail(flight[c].plan)
            x == [flight[c] EXCEPT !.stage = "replay", !.next = NoTask, !.plan = rest]
<1>1. /\ flight[c].stage = "replayPut" /\ Put(flight[c].next)
      /\ flight' = [flight EXCEPT ![c].stage = "replay", ![c].next = NoTask,
                                  ![c].plan = Tail(@)]
      /\ UNCHANGED <<objectVars, calls, answers>>
    BY DEF ReplayPut
<1>2. /\ flight[c] \in Flights /\ FlightIsWhole(flight[c])
      /\ flight \in [Clients -> Flights]
    BY DEF BaseInv, DwTypeOK
<1>3. flight[c].next \in StoredTasks
    BY <1>1, <1>2 DEF FlightIsWhole, Flights
<1>4. rest \in Seq(Commits)
    <2>1. flight[c].plan \in Seq(Commits) /\ flight[c].plan # << >>
        BY <1>1, <1>2 DEF Flights, FlightIsWhole
    <2>. HIDE DEF Commits
    <2>. QED
        BY <2>1
<1>5. flight' = [flight EXCEPT ![c] = x]
    <2>. HIDE DEF Flights
    <2>. QED
        BY <1>1, <1>2
<1>. HIDE DEF rest
<1>6. /\ x \in Flights /\ x.stage = "replay" /\ x.plan = rest
      /\ x.version = flight[c].version /\ x.truth = flight[c].truth
      /\ x.replayed = flight[c].replayed
    <2>. HIDE DEF RequestRecords, StoredTasks, Commits
    <2>. QED
        BY <1>2, <1>4 DEF Flights, Stages
<1>. HIDE DEF x
<1>. QED
    BY <1>1, <1>2, <1>3, <1>5, <1>6 DEF x, rest

LEMMA ReplayPutBase ==
    ASSUME BaseInv, NEW c \in Clients, ReplayPut(c), UNCHANGED mode
    PROVE  BaseInv'
<1>. DEFINE x == [flight[c] EXCEPT !.stage = "replay", !.next = NoTask,
                                   !.plan = Tail(flight[c].plan)]
<1>1. /\ flight[c].next \in StoredTasks /\ Put(flight[c].next)
      /\ x \in Flights /\ x.stage = "replay"
      /\ flight' = [flight EXCEPT ![c] = x]
      /\ UNCHANGED <<objectVars, calls, answers>>
    BY ReplayPutFacts
<1>. HIDE DEF x
<1>. QED
    BY <1>1, PutStep

(* A call is delivered, refused or lost: there is one fewer, and requests  *)
(* under way and the record know nothing of it.                            *)
LEMMA CallStep ==
    ASSUME BaseInv, NEW call, calls' = calls \ {call}, IInv',
           UNCHANGED <<storeVars, flight, answers, mode>>
    PROVE  BaseInv'
<1>1. UNCHANGED <<kv, written, flight, answers, mode>>
    BY DEF storeVars
<1>2. DwTypeOK'
    BY <1>1 DEF BaseInv, DwTypeOK, FlightIsWhole, IsAuthoritative, CallIsWhole,
                Command, DerivedKey, BuildTaskCommand
<1>. QED
    BY <1>2 DEF BaseInv

(* What a delivered call does to the object.                               *)
LEMMA DeliverFacts ==
    ASSUME BaseInv, NEW call \in calls, Deliver(call)
    PROVE  /\ calls' = calls \ {call}
           /\ UNCHANGED <<storeVars, flight, answers>>
           /\ \/ /\ call.kind = "put-state" /\ call.body \in StoredTasks
                 /\ PutState(call.body, NoExtra, 0)
              \/ /\ call.kind = "apply-command"
                 /\ \E r \in Requests[mode] :
                       /\ r.op \in Enveloped /\ call.body = Command(r)
                       /\ Command(r) \in TaskCommands
                       /\ \/ ApplyCommand(Command(r))
                          \/ ReplayCommand(Command(r))
<1>1. CallIsWhole(call) /\ mode \in Modes
    BY DEF BaseInv, DwTypeOK
<1>2. /\ calls' = calls \ {call} /\ UNCHANGED <<storeVars, flight, answers>>
      /\ \/ /\ call.kind = "put-state"
            /\ PutState(call.body, NoExtra, 0)
         \/ /\ call.kind = "apply-command"
            /\ ApplyCommand(call.body) \/ ReplayCommand(call.body)
    BY DEF Deliver
<1>3. CASE call.kind = "put-state"
    <2>1. call.body \in StoredTasks
        BY <1>1, <1>3 DEF CallIsWhole
    <2>. QED
        BY <1>2, <1>3, <2>1
<1>4. CASE call.kind = "apply-command"
    <2>1. PICK r \in Requests[mode] : r.op \in Enveloped /\ call.body = Command(r)
        BY <1>1, <1>4 DEF CallIsWhole
    <2>2. Command(r) \in TaskCommands
        BY <1>1, <2>1, CommandType
    <2>. QED
        BY <1>2, <1>4, <2>1, <2>2
<1>. QED
    BY <1>2, <1>3, <1>4

LEMMA DeliverBase ==
    ASSUME BaseInv, NEW call \in calls, Deliver(call), UNCHANGED mode
    PROVE  BaseInv'
<1>1. IInv'
    <2>1. CASE call.body \in StoredTasks /\ PutState(call.body, NoExtra, 0)
        BY <2>1, StoredFacts, PutStatePreserves, NoExtraType DEF BaseInv
    <2>2. CASE \E r \in Requests[mode] : /\ Command(r) \in TaskCommands
                                         /\ ApplyCommand(Command(r))
        BY <2>2, ApplyCommandPreserves DEF BaseInv
    <2>3. CASE \E r \in Requests[mode] : /\ Command(r) \in TaskCommands
                                         /\ ReplayCommand(Command(r))
        BY <2>3, ReplayCommandPreserves DEF BaseInv
    <2>. QED
        BY <2>1, <2>2, <2>3, DeliverFacts
<1>. QED
    BY <1>1, DeliverFacts, CallStep

LEMMA DropBase ==
    ASSUME BaseInv, NEW call \in calls, Refuse(call) \/ Lose(call), UNCHANGED mode
    PROVE  BaseInv'
<1>1. /\ calls' = calls \ {call}
      /\ UNCHANGED <<objectVars, storeVars, flight, answers>>
    BY DEF Refuse, Lose
<1>. QED
    BY <1>1, ObjectUntouched, CallStep

LEMMA DwStutter ==
    ASSUME BaseInv, UNCHANGED dwVars
    PROVE  BaseInv'
<1>1. UNCHANGED <<objectVars, mode, kv, flight, calls, written, answers>>
    BY DEF dwVars, objectVars
<1>2. DwTypeOK'
    BY <1>1 DEF BaseInv, DwTypeOK, FlightIsWhole, IsAuthoritative, CallIsWhole,
                Command, DerivedKey, BuildTaskCommand
<1>. QED
    BY <1>1, <1>2, ObjectUntouched DEF BaseInv

(* The steps of the composition, by what they do.                          *)
LEMMA DwSteps ==
    ASSUME [DwNext]_dwVars
    PROVE  /\ UNCHANGED mode
           /\ \/ UNCHANGED dwVars
              \/ \E call \in calls : Deliver(call) \/ Refuse(call) \/ Lose(call)
              \/ \E c \in Clients :
                    \/ \E r \in Requests[mode] : SendCommand(c, r) \/ StartInKv(c, r)
                    \/ CommandApplied(c) \/ CommandUnanswered(c) \/ CommandReplayed(c)
                    \/ Project(c) \/ PutRecord(c) \/ ProjectionFails(c) \/ Finish(c)
                    \/ RepairFetch(c) \/ RepairLoad(c) \/ RepairPlan(c)
                    \/ ReplayRead(c) \/ ReplayPut(c)
                    \/ /\ Reset(c)
                       /\ UNCHANGED <<objectVars, storeVars, calls, answers>>
BY DEF DwNext, dwVars, Abandon, RepairDone

LEMMA NextBase == BaseInv /\ [DwNext]_dwVars => BaseInv'
<1>. SUFFICES ASSUME BaseInv, [DwNext]_dwVars PROVE BaseInv'
    OBVIOUS
<1>0. UNCHANGED mode
    BY DwSteps
<1>1. CASE UNCHANGED dwVars
    BY <1>1, DwStutter
<1>2. CASE \E call \in calls : Deliver(call)
    BY <1>0, <1>2, DeliverBase
<1>3. CASE \E call \in calls : Refuse(call) \/ Lose(call)
    BY <1>0, <1>3, DropBase
<1>4. CASE \E c \in Clients, r \in Requests[mode] : SendCommand(c, r)
    BY <1>0, <1>4, SendCommandBase
<1>5. CASE \E c \in Clients, r \in Requests[mode] : StartInKv(c, r)
    BY <1>0, <1>5, StartInKvBase
<1>6. CASE \E c \in Clients : CommandApplied(c)
    BY <1>0, <1>6, CommandAppliedBase
<1>7. CASE \E c \in Clients : CommandUnanswered(c)
    BY <1>0, <1>7, CommandUnansweredBase
<1>8. CASE \E c \in Clients : CommandReplayed(c)
    BY <1>0, <1>8, CommandReplayedBase
<1>9. CASE \E c \in Clients : Project(c)
    BY <1>0, <1>9, ProjectBase
<1>10. CASE \E c \in Clients : PutRecord(c)
    BY <1>0, <1>10, PutRecordBase
<1>11. CASE \E c \in Clients : ProjectionFails(c)
    BY <1>0, <1>11, ProjectionFailsBase
<1>12. CASE \E c \in Clients : Finish(c)
    BY <1>0, <1>12, FinishBase
<1>13. CASE \E c \in Clients : RepairFetch(c)
    BY <1>0, <1>13, RepairFetchBase
<1>14. CASE \E c \in Clients : RepairLoad(c)
    BY <1>0, <1>14, RepairLoadBase
<1>15. CASE \E c \in Clients : RepairPlan(c)
    BY <1>0, <1>15, RepairPlanBase
<1>16. CASE \E c \in Clients : ReplayRead(c)
    BY <1>0, <1>16, ReplayReadBase
<1>17. CASE \E c \in Clients : ReplayPut(c)
    BY <1>0, <1>17, ReplayPutBase
<1>18. CASE \E c \in Clients :
               Reset(c) /\ UNCHANGED <<objectVars, storeVars, calls, answers>>
    BY <1>0, <1>18, StopBase
<1>. QED
    BY <1>1, <1>2, <1>3, <1>4, <1>5, <1>6, <1>7, <1>8, <1>9, <1>10, <1>11, <1>12,
       <1>13, <1>14, <1>15, <1>16, <1>17, <1>18, DwSteps

(* The object keeps its own invariant although two modes and any number of *)
(* clients send it what they please, and everything under way is whole.    *)
THEOREM TypesOfTheComposition == DwSpec => []BaseInv
BY InitBase, NextBase, PTL DEF DwSpec

----------------------------------------------------------------------------
(* The ways in which a request becomes what it is.                         *)
BecomesProjecting(c, x) ==
    /\ CommandApplied(c) /\ flight[c].stage = "sent"
    /\ x.stage = "project" /\ x.request = flight[c].request
    /\ x.version = CurrentVersion + 1

BecomesWriting(c, x) ==
    /\ UNCHANGED <<objectVars, storeVars, calls, answers>>
    /\ x.request \in Requests[mode] /\ KvAccepts(x.request, kv)
    /\ x.stage = IF x.request.op = "continue" THEN "trail" ELSE "write"
    /\ x.next = KvResult(x.request, kv)
    /\ \/ /\ MayStart(c) /\ ~IsAuthoritative(x.request)
          /\ x.version = x.next.version
       \/ /\ flight[c].stage = "project" /\ x.request = flight[c].request
          /\ x.version = flight[c].version

BecomesWritten(c, x) ==
    /\ UNCHANGED <<objectVars, calls, answers>>
    /\ flight[c].stage = "write" /\ Put(flight[c].next) /\ x.stage = "trail"
    /\ x.request = flight[c].request /\ x.next = flight[c].next
    /\ x.version = flight[c].version

BecomesRepairing(c, x) ==
    /\ UNCHANGED <<objectVars, storeVars, calls, answers>>
    /\ MayStart(c) /\ x.stage = "repair"
    /\ \/ x.fetched /\ x.plan \in FetchedLogs /\ x.truth = CurrentVersion
       \/ x.fetched = FALSE /\ x.plan = << >> /\ x.next = kv

BecomesPlanned(c, x) ==
    /\ UNCHANGED <<objectVars, storeVars, calls, answers>>
    /\ flight[c].stage = "repair" /\ x.stage = "replay"
    /\ \E log \in Seq(Commits), record \in StoredTasks :
          /\ PlanSource(flight[c], log, record, x.truth)
          /\ x.version = AuthoritativeVersion(log, record.version)
          /\ x.plan = CommitsToApply(log, x.version, record.version)
          /\ ValidRepairPlan(x.plan, x.version, record.version)
          /\ x.replayed = Len(x.plan)

BecomesReplaying(c, x) ==
    /\ UNCHANGED <<objectVars, storeVars, calls, answers>>
    /\ flight[c].stage = "replay" /\ x.stage = "replayPut"
    /\ 1 \in DOMAIN flight[c].plan /\ flight[c].plan[1] \in Commits
    /\ kv \in StoredTasks /\ kv.version = flight[c].plan[1].before
    /\ x.next = ReplayRecord(flight[c].plan[1], kv.version)
    /\ x.plan = flight[c].plan /\ x.version = flight[c].version
    /\ x.truth = flight[c].truth /\ x.replayed = flight[c].replayed

BecomesReplayed(c, x) ==
    /\ UNCHANGED <<objectVars, calls, answers>>
    /\ flight[c].stage = "replayPut" /\ Put(flight[c].next) /\ x.stage = "replay"
    /\ x.plan = Tail(flight[c].plan) /\ flight[c].plan # << >>
    /\ x.version = flight[c].version
    /\ x.truth = flight[c].truth /\ x.replayed = flight[c].replayed

Becomes(c, x) ==
    \/ x = Idle
    \/ /\ MayStart(c) /\ x.stage = "sent" /\ IsAuthoritative(x.request)
       /\ UNCHANGED <<objectVars, storeVars, calls, answers>>
    \/ BecomesProjecting(c, x)
    \/ BecomesWriting(c, x)
    \/ BecomesWritten(c, x)
    \/ BecomesRepairing(c, x)
    \/ BecomesPlanned(c, x)
    \/ BecomesReplaying(c, x)
    \/ BecomesReplayed(c, x)

(* Requests change one at a time, and in these ways only. *)
LEMMA FlightMoves ==
    ASSUME BaseInv, [DwNext]_dwVars
    PROVE  \/ UNCHANGED flight
           \/ \E c \in Clients, x \in Flights :
                 flight' = [flight EXCEPT ![c] = x] /\ Becomes(c, x)
<1>1. CASE UNCHANGED dwVars
    BY <1>1 DEF dwVars
<1>2. CASE \E call \in calls : Deliver(call) \/ Refuse(call) \/ Lose(call)
    BY <1>2 DEF Deliver, Refuse, Lose
<1>3. CASE \E c \in Clients : Reset(c)
    BY <1>3, IdleType DEF Reset, Becomes
<1>4. CASE \E c \in Clients, r \in Requests[mode] : SendCommand(c, r)
    BY <1>4, SendCommandFacts DEF Becomes
<1>5. ASSUME NEW c \in Clients, NEW r \in Requests[mode], NEW v \in Nat,
             ReadRecord(c, r, v),
             \/ MayStart(c) /\ ~IsAuthoritative(r) /\ v = KvResult(r, kv).version
             \/ flight[c].stage = "project" /\ r = flight[c].request /\ v = flight[c].version
      PROVE  \E x \in Flights : flight' = [flight EXCEPT ![c] = x] /\ BecomesWriting(c, x)
    <2>1. PICK x \in Flights :
              /\ x.stage = IF r.op = "continue" THEN "trail" ELSE "write"
              /\ x.request = r /\ x.next = KvResult(r, kv) /\ x.version = v
              /\ flight' = [flight EXCEPT ![c] = x]
        BY <1>5, ReadRecordFacts
    <2>2. KvAccepts(r, kv) /\ UNCHANGED <<objectVars, storeVars, calls, answers>>
        BY <1>5, ReadRecordFacts
    <2>. QED
        BY <1>5, <2>1, <2>2 DEF BecomesWriting
<1>6. CASE \E c \in Clients, r \in Requests[mode] : StartInKv(c, r)
    <2>1. PICK c \in Clients, r \in Requests[mode] : StartInKv(c, r)
        BY <1>6
    <2>2. PICK v : v = KvResult(r, kv).version
        OBVIOUS
    <2>3. /\ ReadRecord(c, r, v) /\ MayStart(c) /\ ~IsAuthoritative(r) /\ v \in Nat
        BY <2>1, <2>2, StartInKvVersion DEF StartInKv
    <2>. QED
        BY <1>5, <2>2, <2>3 DEF Becomes
<1>7. CASE \E c \in Clients : Project(c)
    <2>1. PICK c \in Clients : Project(c)
        BY <1>7
    <2>2. PICK r, v : r = flight[c].request /\ v = flight[c].version
        OBVIOUS
    <2>3. ReadRecord(c, r, v) /\ flight[c].stage = "project"
        BY <2>1, <2>2 DEF Project
    <2>4. r \in Requests[mode] /\ v \in Nat
        BY <2>2, <2>3 DEF BaseInv, DwTypeOK, FlightIsWhole, Flights
    <2>. QED
        BY <1>5, <2>2, <2>3, <2>4 DEF Becomes
<1>8. CASE \E c \in Clients : CommandApplied(c)
    BY <1>8, CommandAppliedFacts DEF Becomes, BecomesProjecting
<1>9. CASE \E c \in Clients : PutRecord(c)
    BY <1>9, PutRecordFacts DEF Becomes, BecomesWritten
<1>10. CASE \E c \in Clients : RepairFetch(c)
    BY <1>10, RepairFetchFacts DEF Becomes, BecomesRepairing
<1>11. CASE \E c \in Clients : RepairLoad(c)
    BY <1>11, RepairLoadFacts DEF Becomes, BecomesRepairing
<1>12. CASE \E c \in Clients : RepairPlan(c)
    <2>1. PICK c \in Clients : RepairPlan(c)
        BY <1>12
    <2>2. PICK log \in Seq(Commits), record \in StoredTasks, truth \in Nat :
              /\ PlanSource(flight[c], log, record, truth)
              /\ Plan(c, log, record, truth)
        BY <2>1, RepairPlanFacts
    <2>3. PICK x \in Flights :
              /\ x.stage = "replay" /\ x.version = AuthoritativeVersion(log, record.version)
              /\ x.plan = CommitsToApply(log, x.version, record.version)
              /\ x.truth = truth /\ x.replayed = Len(x.plan)
              /\ flight' = [flight EXCEPT ![c] = x]
        BY <2>2, PlanStepFacts
    <2>4. /\ ValidRepairPlan(x.plan, x.version, record.version)
          /\ UNCHANGED <<objectVars, storeVars, calls, answers>>
        BY <2>2, <2>3, PlanStepFacts
    <2>5. flight[c].stage = "repair"
        BY <2>1, RepairPlanFacts
    <2>6. BecomesPlanned(c, x)
        BY <2>2, <2>3, <2>4, <2>5 DEF BecomesPlanned
    <2>. QED
        BY <2>3, <2>6 DEF Becomes
<1>13. CASE \E c \in Clients : ReplayRead(c)
    <2>1. PICK c \in Clients : ReplayRead(c)
        BY <1>13
    <2>2. PICK x \in Flights :
              /\ x.stage = "replayPut" /\ x.plan = flight[c].plan
              /\ x.version = flight[c].version /\ x.truth = flight[c].truth
              /\ x.replayed = flight[c].replayed
              /\ x.next = ReplayRecord(Head(flight[c].plan), kv.version)
              /\ flight' = [flight EXCEPT ![c] = x]
        BY <2>1, ReplayReadFacts
    <2>3. /\ Head(flight[c].plan) = flight[c].plan[1]
          /\ flight[c].stage = "replay"
          /\ 1 \in DOMAIN flight[c].plan /\ flight[c].plan[1] \in Commits
          /\ kv \in StoredTasks /\ kv.version = flight[c].plan[1].before
          /\ UNCHANGED <<objectVars, storeVars, calls, answers>>
        BY <2>1, ReplayReadFacts
    <2>. QED
        BY <2>2, <2>3 DEF Becomes, BecomesReplaying
<1>14. CASE \E c \in Clients : ReplayPut(c)
    <2>1. PICK c \in Clients : ReplayPut(c)
        BY <1>14
    <2>2. PICK x \in Flights :
              /\ x.stage = "replay" /\ x.plan = Tail(flight[c].plan)
              /\ x.version = flight[c].version /\ x.truth = flight[c].truth
              /\ x.replayed = flight[c].replayed
              /\ flight' = [flight EXCEPT ![c] = x]
        BY <2>1, ReplayPutFacts
    <2>3. /\ flight[c].stage = "replayPut" /\ Put(flight[c].next)
          /\ flight[c].plan # << >>
          /\ UNCHANGED <<objectVars, calls, answers>>
        BY <2>1, ReplayPutFacts DEF BaseInv, DwTypeOK, FlightIsWhole
    <2>. QED
        BY <2>2, <2>3 DEF Becomes, BecomesReplayed
<1>15. CASE \E c \in Clients : CommandUnanswered(c) \/ CommandReplayed(c)
                              \/ ProjectionFails(c) \/ Finish(c)
    BY <1>3, <1>15 DEF CommandUnanswered, CommandReplayed, ProjectionFails, Finish
<1>. QED
    BY <1>1, <1>2, <1>3, <1>4, <1>6, <1>7, <1>8, <1>9, <1>10, <1>11, <1>12, <1>13,
       <1>14, <1>15, DwSteps

(* Only commands touch the object: those of requests, and delivered calls. *)
LEMMA ObjectActors ==
    ASSUME [DwNext]_dwVars
    PROVE  \/ UNCHANGED objectVars
           \/ \E call \in calls : Deliver(call)
           \/ \E c \in Clients :
                 CommandApplied(c) \/ CommandUnanswered(c) \/ CommandReplayed(c)
<1>1. CASE UNCHANGED dwVars
    BY <1>1 DEF dwVars, objectVars
<1>2. CASE \E call \in calls : Refuse(call) \/ Lose(call)
    BY <1>2 DEF Refuse, Lose
<1>3. CASE \E c \in Clients :
              \/ \E r \in Requests[mode] : SendCommand(c, r) \/ StartInKv(c, r)
              \/ Project(c)
    BY <1>3 DEF SendCommand, StartInKv, Project, ReadRecord
<1>4. CASE \E c \in Clients : PutRecord(c) \/ ProjectionFails(c) \/ Finish(c)
    BY <1>4 DEF PutRecord, ProjectionFails, Finish
<1>5. CASE \E c \in Clients : RepairFetch(c) \/ RepairLoad(c) \/ RepairPlan(c)
    BY <1>5 DEF RepairFetch, RepairLoad, RepairPlan, Plan
<1>6. CASE \E c \in Clients :
              \/ ReplayRead(c) \/ ReplayPut(c)
              \/ Reset(c) /\ UNCHANGED <<objectVars, storeVars, calls, answers>>
    BY <1>6 DEF ReplayRead, ReplayPut
<1>. QED
    BY <1>1, <1>2, <1>3, <1>4, <1>5, <1>6, DwSteps

----------------------------------------------------------------------------
(* Receipts.  The log is full of commands that did what they were asked,   *)
(* and a request past its commit has one.                                  *)
Does(commit, r) ==
    /\ commit.key = DerivedKey(r)
    /\ commit.digest = SemanticDigest(r.op, r.payload)
    /\ Carries(commit, r)

Committed(r, v) ==
    \E i \in DOMAIN commits :
        /\ commits[i].key = DerivedKey(r)
        /\ commits[i].after = v
        /\ Carries(commits[i], r)

CommitsAreCommands ==
    \A i \in DOMAIN commits :
        \E r \in Requests[mode] : r.op \in Enveloped /\ Does(commits[i], r)

FlightsAreCommitted ==
    \A c \in Clients :
        flight[c].stage \in {"project", "write", "trail"}
            /\ IsAuthoritative(flight[c].request)
        => Committed(flight[c].request, flight[c].version)

ReceiptsInv == CommitsAreCommands /\ FlightsAreCommitted /\ ReceiptsNameTheirCommit

(* Two requests of one digest ask for the same, as far as receipts go      *)
(* (computeSemanticDigest).                                                *)
LEMMA DigestDecides ==
    ASSUME NEW r, NEW s, r.op \in Enveloped, s.op \in Enveloped, NEW commit,
           SemanticDigest(r.op, r.payload) = SemanticDigest(s.op, s.payload),
           Carries(commit, r)
    PROVE  Carries(commit, s)
<1>1. SemanticDigest(r.op, r.payload)[1] = r.op /\ SemanticDigest(s.op, s.payload)[1] = s.op
    BY DEF SemanticDigest, Enveloped
<1>2. r.op = s.op
    BY <1>1
<1>3. CASE r.op = "task.select_route"
    <2>1. SemanticDigest(r.op, r.payload)[2] = r.payload.route
        BY <1>3 DEF SemanticDigest
    <2>2. SemanticDigest(s.op, s.payload)[2] = s.payload.route
        BY <1>2, <1>3 DEF SemanticDigest
    <2>. QED
        BY <1>2, <1>3, <2>1, <2>2 DEF Carries
<1>4. CASE r.op = "task.transition_state"
    <2>1. /\ SemanticDigest(r.op, r.payload)[2] = r.payload.state
          /\ SemanticDigest(r.op, r.payload)[3] = r.payload.action
        BY <1>4 DEF SemanticDigest
    <2>2. /\ SemanticDigest(s.op, s.payload)[2] = s.payload.state
          /\ SemanticDigest(s.op, s.payload)[3] = s.payload.action
        BY <1>2, <1>4 DEF SemanticDigest
    <2>. QED
        BY <1>2, <1>4, <2>1, <2>2 DEF Carries
<1>5. CASE r.op = "task.append_finding"
    BY <1>2, <1>5 DEF Carries
<1>. QED
    BY <1>3, <1>4, <1>5 DEF Enveloped

(* The commit of a command carries what its request asked for              *)
(* (task-command-mutations.ts).                                            *)
LEMMA NewCommitDoes ==
    ASSUME BaseInv, NEW r \in Requests[mode], r.op \in Enveloped, NEW m \in BOOLEAN,
           CommitCommand(Command(r), m)
    PROVE  LET new == NewCommit(Command(r)) IN
           /\ new \in Commits /\ Does(new, r)
           /\ new.before = CurrentVersion /\ new.after = CurrentVersion + 1
           /\ r.expected = CurrentVersion
           /\ CurrentVersion \in Nat
           /\ commits' = Append(commits, new)
           /\ commits' \in Seq(Commits) /\ Len(commits') = Len(commits) + 1
           /\ DOMAIN commits' = DOMAIN commits \cup {Len(commits) + 1}
           /\ commits'[Len(commits) + 1] = new
           /\ \A i \in DOMAIN commits : commits'[i] = commits[i]
<1>. DEFINE command == Command(r)
            new == NewCommit(command)
<1>1. /\ command \in TaskCommands
      /\ command.key = DerivedKey(r) /\ command.expected = r.expected
      /\ command.type = r.op /\ command.payload = r.payload
      /\ command.digest = SemanticDigest(r.op, r.payload)
      /\ r.expected \in Nat
    BY CommandType, RequestFacts DEF BaseInv, DwTypeOK
<1>. HIDE DEF command
<1>2. CommitCommand(command, m)
    BY DEF command
<1>3. /\ Applicable(command) /\ CurrentVersion \in Nat
      /\ new \in Commits
      /\ commits \in Seq(Commits) /\ commits' = Append(commits, new)
    BY <1>1, <1>2, CommitFacts DEF BaseInv
<1>4. /\ new.key = command.key /\ new.digest = command.digest
      /\ new.before = CurrentVersion /\ new.after = CurrentVersion + 1
      /\ new.stateAfter = ApplyTaskCommandMutation(command)
    BY DEF NewCommit
<1>5. r.expected = CurrentVersion
    <2>1. ApplyOutcome(command) = "applied"
        BY <1>2 DEF CommitCommand
    <2>2. VersionMatches(command)
        BY <2>1 DEF ApplyOutcome
    <2>. QED
        BY <1>1, <2>2, Assumptions DEF VersionMatches
<1>6. Carries(new, r)
    <2>1. task \in Tasks
        BY <1>3 DEF Applicable, BaseInv, IInv, TypeOK
    <2>2. CASE r.op = "task.select_route"
        <3>1. new.stateAfter = [task EXCEPT !.route = r.payload.route,
                                   !.routes = Append(@, r.payload.route),
                                   !.version = CurrentVersion + 1,
                                   !.updated_at = "request"]
            BY <1>1, <1>4, <2>2 DEF ApplyTaskCommandMutation, AppendRouteSelectionLocal
        <3>2. new.stateAfter.route = r.payload.route
            BY <2>1, <3>1 DEF Tasks
        <3>. QED
            BY <2>2, <3>2 DEF Carries
    <2>3. CASE r.op = "task.transition_state"
        <3>1. new.stateAfter = [task EXCEPT !.state = r.payload.state,
                                   !.action = r.payload.action,
                                   !.version = CurrentVersion + 1,
                                   !.updated_at = "object"]
            BY <1>1, <1>4, <2>3 DEF ApplyTaskCommandMutation, TransitionStateLocal
        <3>2. /\ new.stateAfter.state = r.payload.state
              /\ new.stateAfter.action = r.payload.action
            BY <2>1, <3>1 DEF Tasks
        <3>. QED
            BY <2>3, <3>2 DEF Carries
    <2>4. CASE r.op = "task.append_finding"
        BY <2>4 DEF Carries
    <2>. QED
        BY <2>2, <2>3, <2>4 DEF Enveloped
<1>. HIDE DEF new
<1>7. /\ commits' \in Seq(Commits) /\ Len(commits') = Len(commits) + 1
      /\ DOMAIN commits' = DOMAIN commits \cup {Len(commits) + 1}
      /\ commits'[Len(commits) + 1] = new
      /\ \A i \in DOMAIN commits : commits'[i] = commits[i]
    BY <1>3, AppendFacts
<1>8. Does(new, r)
    BY <1>1, <1>4, <1>6 DEF Does
<1>. QED
    BY <1>3, <1>4, <1>5, <1>7, <1>8 DEF new, command

(* Only commands add to the log.                                           *)
LEMMA LogStep ==
    ASSUME BaseInv, [DwNext]_dwVars
    PROVE  \/ UNCHANGED commits
           \/ \E r \in Requests[mode], m \in BOOLEAN :
                 r.op \in Enveloped /\ CommitCommand(Command(r), m)
<1>1. CASE UNCHANGED objectVars
    BY <1>1 DEF objectVars, vars
<1>2. CASE \E call \in calls : Deliver(call)
    <2>1. PICK call \in calls : Deliver(call)
        BY <1>2
    <2>2. CASE PutState(call.body, NoExtra, 0)
        BY <2>2 DEF PutState
    <2>3. CASE \E r \in Requests[mode] : r.op \in Enveloped /\ ApplyCommand(Command(r))
        BY <2>3 DEF ApplyCommand
    <2>4. CASE \E r \in Requests[mode] : ReplayCommand(Command(r))
        BY <2>4 DEF ReplayCommand, coreVars
    <2>. QED
        BY <2>1, <2>2, <2>3, <2>4, DeliverFacts
<1>3. CASE \E c \in Clients : CommandApplied(c)
    BY <1>3, SentFacts DEF CommandApplied, ApplyCommand
<1>4. CASE \E c \in Clients : CommandUnanswered(c)
    BY <1>4, SentFacts DEF CommandUnanswered, ApplyCommandUnanswered
<1>5. CASE \E c \in Clients : CommandReplayed(c)
    BY <1>5 DEF CommandReplayed, ReplayCommand, coreVars
<1>. QED
    BY <1>1, <1>2, <1>3, <1>4, <1>5, ObjectActors

LEMMA LogGrows ==
    ASSUME BaseInv, [DwNext]_dwVars
    PROVE  \A i \in DOMAIN commits : i \in DOMAIN commits' /\ commits'[i] = commits[i]
<1>1. CASE UNCHANGED commits
    BY <1>1
<1>2. CASE \E r \in Requests[mode], m \in BOOLEAN :
              r.op \in Enveloped /\ CommitCommand(Command(r), m)
    BY <1>2, NewCommitDoes
<1>. QED
    BY <1>1, <1>2, LogStep

LEMMA StaysCommitted ==
    ASSUME BaseInv, [DwNext]_dwVars, NEW r, NEW v, Committed(r, v)
    PROVE  Committed(r, v)'
<1>1. PICK i \in DOMAIN commits : /\ commits[i].key = DerivedKey(r)
                                  /\ commits[i].after = v /\ Carries(commits[i], r)
    BY DEF Committed
<1>2. i \in DOMAIN commits' /\ commits'[i] = commits[i]
    BY LogGrows
<1>. HIDE DEF DerivedKey, Carries
<1>. QED
    BY <1>1, <1>2 DEF Committed

LEMMA CommitsAreCommandsStep ==
    ASSUME BaseInv, CommitsAreCommands, [DwNext]_dwVars
    PROVE  CommitsAreCommands'
<1>0. UNCHANGED mode
    BY DwSteps
<1>. HIDE DEF Does
<1>1. CASE UNCHANGED commits
    BY <1>0, <1>1 DEF CommitsAreCommands
<1>2. CASE \E r \in Requests[mode], m \in BOOLEAN :
              r.op \in Enveloped /\ CommitCommand(Command(r), m)
    <2>1. PICK r \in Requests[mode], m \in BOOLEAN :
              r.op \in Enveloped /\ CommitCommand(Command(r), m)
        BY <1>2
    <2>2. /\ DOMAIN commits' = DOMAIN commits \cup {Len(commits) + 1}
          /\ Does(commits'[Len(commits) + 1], r)
          /\ \A i \in DOMAIN commits : commits'[i] = commits[i]
        BY <2>1, NewCommitDoes
    <2>. QED
        BY <1>0, <2>1, <2>2 DEF CommitsAreCommands
<1>. QED
    BY <1>1, <1>2, LogStep

(* One request moves on: it is enough to look at that one. *)
LEMMA OneFlightCommitted ==
    ASSUME BaseInv, FlightsAreCommitted, [DwNext]_dwVars,
           NEW c \in Clients, NEW x \in Flights, flight' = [flight EXCEPT ![c] = x],
           x.stage \in {"project", "write", "trail"} /\ IsAuthoritative(x.request)
               => Committed(x.request, x.version)'
    PROVE  FlightsAreCommitted'
<1>1. UNCHANGED mode /\ flight \in [Clients -> Flights]
    BY DwSteps DEF BaseInv, DwTypeOK
<1>. HIDE DEF Committed, Flights
<1>2. ASSUME NEW d \in Clients, flight'[d].stage \in {"project", "write", "trail"},
             IsAuthoritative(flight'[d].request)
      PROVE  Committed(flight[d].request, flight[d].version)'
    <2>1. CASE d = c
        <3>1. flight'[d] = x
            BY <1>1, <2>1
        <3>. QED
            BY <1>2, <3>1 DEF Committed
    <2>2. CASE d # c
        <3>1. flight'[d] = flight[d]
            BY <1>1, <2>2
        <3>2. Committed(flight[d].request, flight[d].version)
            BY <1>2, <3>1 DEF FlightsAreCommitted
        <3>3. PICK r, v : r = flight[d].request /\ v = flight[d].version
            OBVIOUS
        <3>4. Committed(r, v)'
            BY <3>2, <3>3, StaysCommitted
        <3>. QED
            BY <3>1, <3>3, <3>4 DEF Committed
    <2>. QED
        BY <2>1, <2>2
<1>. QED
    BY <1>1, <1>2 DEF FlightsAreCommitted, IsAuthoritative

LEMMA CommitIsCommitted ==
    ASSUME BaseInv, NEW r \in Requests[mode], r.op \in Enveloped, NEW m \in BOOLEAN,
           CommitCommand(Command(r), m)
    PROVE  \A v : v = CurrentVersion + 1 => Committed(r, v)'
<1>1. /\ DOMAIN commits' = DOMAIN commits \cup {Len(commits) + 1}
      /\ commits'[Len(commits) + 1].after = CurrentVersion + 1
      /\ Does(commits'[Len(commits) + 1], r)
    BY NewCommitDoes
<1>. QED
    BY <1>1 DEF Committed, Does

LEMMA FlightsAreCommittedStep ==
    ASSUME BaseInv, FlightsAreCommitted, [DwNext]_dwVars
    PROVE  FlightsAreCommitted'
<1>0. UNCHANGED mode /\ flight \in [Clients -> Flights]
    BY DwSteps DEF BaseInv, DwTypeOK
<1>. HIDE DEF Committed, Flights
<1>1. CASE UNCHANGED flight
    <2>1. ASSUME NEW c \in Clients, flight[c].stage \in {"project", "write", "trail"},
                 IsAuthoritative(flight[c].request)
          PROVE  Committed(flight[c].request, flight[c].version)'
        <3>1. PICK r, v : r = flight[c].request /\ v = flight[c].version
            OBVIOUS
        <3>2. Committed(r, v)
            BY <2>1, <3>1 DEF FlightsAreCommitted
        <3>3. Committed(r, v)'
            BY <3>2, StaysCommitted
        <3>. QED
            BY <1>1, <3>1, <3>3 DEF Committed
    <2>. QED
        BY <1>0, <1>1, <2>1 DEF FlightsAreCommitted, IsAuthoritative
<1>2. ASSUME NEW c \in Clients, NEW x \in Flights, flight' = [flight EXCEPT ![c] = x],
             x.stage \notin {"project", "write", "trail"}
      PROVE  FlightsAreCommitted'
    BY <1>2, OneFlightCommitted
<1>3. ASSUME NEW c \in Clients, Reset(c)
      PROVE  FlightsAreCommitted'
    BY <1>2, <1>3, IdleType DEF Reset
<1>4. CASE UNCHANGED dwVars
    BY <1>1, <1>4 DEF dwVars
<1>5. CASE \E call \in calls : Deliver(call) \/ Refuse(call) \/ Lose(call)
    BY <1>1, <1>5 DEF Deliver, Refuse, Lose
<1>6. CASE \E c \in Clients, r \in Requests[mode] : SendCommand(c, r)
    BY <1>2, <1>6, SendCommandFacts
<1>7. ASSUME NEW c \in Clients, NEW r \in Requests[mode], StartInKv(c, r)
      PROVE  FlightsAreCommitted'
    <2>1. PICK v : v = KvResult(r, kv).version
        OBVIOUS
    <2>2. ReadRecord(c, r, v) /\ ~IsAuthoritative(r)
        BY <1>7, <2>1 DEF StartInKv
    <2>3. v \in Nat
        BY <1>7, <2>1, StartInKvVersion
    <2>4. PICK x \in Flights : x.request = r /\ flight' = [flight EXCEPT ![c] = x]
        BY <2>2, <2>3, ReadRecordFacts
    <2>. QED
        BY <2>2, <2>4, OneFlightCommitted
<1>8. ASSUME NEW c \in Clients, CommandApplied(c)
      PROVE  FlightsAreCommitted'
    <2>1. PICK x \in Flights : /\ x.stage = "project" /\ x.request = flight[c].request
                               /\ x.version = CurrentVersion + 1
                               /\ flight' = [flight EXCEPT ![c] = x]
        BY <1>8, CommandAppliedFacts
    <2>2. /\ x.request \in Requests[mode] /\ x.request.op \in Enveloped
          /\ CommitCommand(Command(x.request), TRUE)
        BY <1>8, <2>1, CommandAppliedFacts, SentFacts DEF ApplyCommand
    <2>3. Committed(x.request, x.version)'
        BY <2>1, <2>2, CommitIsCommitted
    <2>. QED
        BY <2>1, <2>3, OneFlightCommitted
<1>9. ASSUME NEW c \in Clients, Project(c)
      PROVE  FlightsAreCommitted'
    <2>1. PICK r, v : /\ r = flight[c].request /\ v = flight[c].version
                      /\ flight[c].stage = "project" /\ ReadRecord(c, r, v)
        BY <1>9 DEF Project
    <2>2. /\ r \in Requests[mode] /\ v \in Nat /\ IsAuthoritative(r)
        BY <2>1 DEF BaseInv, DwTypeOK, FlightIsWhole, Flights
    <2>3. PICK x \in Flights : /\ x.request = r /\ x.version = v
                               /\ flight' = [flight EXCEPT ![c] = x]
        BY <2>1, <2>2, ReadRecordFacts
    <2>4. Committed(r, v)
        BY <2>1, <2>2 DEF FlightsAreCommitted
    <2>. QED
        BY <2>3, <2>4, StaysCommitted, OneFlightCommitted
<1>10. ASSUME NEW c \in Clients, PutRecord(c)
       PROVE  FlightsAreCommitted'
    <2>1. PICK x \in Flights : /\ x.stage = "trail" /\ x.request = flight[c].request
                               /\ x.version = flight[c].version
                               /\ flight' = [flight EXCEPT ![c] = x]
        BY <1>10, PutRecordFacts
    <2>2. IsAuthoritative(x.request) => Committed(x.request, x.version)
        BY <1>10, <2>1 DEF FlightsAreCommitted, PutRecord
    <2>. QED
        BY <2>1, <2>2, StaysCommitted, OneFlightCommitted
<1>11. CASE \E c \in Clients : RepairFetch(c)
    BY <1>2, <1>11, RepairFetchFacts
<1>12. CASE \E c \in Clients : RepairLoad(c)
    BY <1>2, <1>12, RepairLoadFacts
<1>13. ASSUME NEW c \in Clients, RepairPlan(c)
       PROVE  FlightsAreCommitted'
    <2>1. PICK log \in Seq(Commits), record \in StoredTasks, truth \in Nat :
              Plan(c, log, record, truth)
        BY <1>13, RepairPlanFacts
    <2>2. PICK x \in Flights : x.stage = "replay" /\ flight' = [flight EXCEPT ![c] = x]
        BY <2>1, PlanStepFacts
    <2>. QED
        BY <1>2, <2>2
<1>14. ASSUME NEW c \in Clients, ReplayRead(c)
       PROVE  FlightsAreCommitted'
    <2>1. PICK x \in Flights : x.stage = "replayPut" /\ flight' = [flight EXCEPT ![c] = x]
        BY <1>14, ReplayReadFacts
    <2>. QED
        BY <1>2, <2>1
<1>15. ASSUME NEW c \in Clients, ReplayPut(c)
       PROVE  FlightsAreCommitted'
    <2>1. PICK x \in Flights : x.stage = "replay" /\ flight' = [flight EXCEPT ![c] = x]
        BY <1>15, ReplayPutFacts
    <2>. QED
        BY <1>2, <2>1
<1>16. CASE \E c \in Clients : CommandUnanswered(c) \/ CommandReplayed(c)
                              \/ ProjectionFails(c) \/ Finish(c)
    BY <1>3, <1>16 DEF CommandUnanswered, CommandReplayed, ProjectionFails, Finish
<1>17. CASE \E c \in Clients :
               Reset(c) /\ UNCHANGED <<objectVars, storeVars, calls, answers>>
    BY <1>3, <1>17
<1>. QED
    BY <1>4, <1>5, <1>6, <1>7, <1>8, <1>9, <1>10, <1>11, <1>12, <1>13, <1>14, <1>15,
       <1>16, <1>17, DwSteps

(* An answer is told only of a commit that is in the log.                  *)
LEMMA ReceiptsNameTheirCommitStep ==
    ASSUME BaseInv, ReceiptsInv, [DwNext]_dwVars
    PROVE  ReceiptsNameTheirCommit'
<1>0. UNCHANGED mode
    BY DwSteps
<1>. HIDE DEF Committed
<1>1. ReceiptsNameTheirCommit <=>
          (mode = "authoritative" =>
              \A a \in answers : a.request.op \in Enveloped =>
                                     Committed(a.request, a.version))
    BY DEF ReceiptsNameTheirCommit, Acknowledged, Committed
<1>2. ReceiptsNameTheirCommit' <=>
          (mode = "authoritative" =>
              \A a \in answers' : a.request.op \in Enveloped =>
                                     Committed(a.request, a.version)')
    BY <1>0 DEF ReceiptsNameTheirCommit, Acknowledged, Committed
<1>3. \A a \in answers : mode = "authoritative" /\ a.request.op \in Enveloped =>
                             Committed(a.request, a.version)'
    BY <1>1, StaysCommitted DEF ReceiptsInv
<1>4. CASE UNCHANGED answers
    BY <1>2, <1>3, <1>4
<1>5. ASSUME NEW c \in Clients, Tell(flight[c].request, flight[c].version),
             flight[c].stage \in {"project", "write", "trail"}
      PROVE  ReceiptsNameTheirCommit'
    <2>1. PICK r, v : r = flight[c].request /\ v = flight[c].version
        OBVIOUS
    <2>2. mode = "authoritative" /\ r.op \in Enveloped => Committed(r, v)'
        BY <1>5, <2>1, StaysCommitted
           DEF ReceiptsInv, FlightsAreCommitted, IsAuthoritative
    <2>3. answers' = answers \cup {[request |-> r, version |-> v]}
        BY <1>5, <2>1 DEF Tell
    <2>. QED
        BY <1>2, <1>3, <2>2, <2>3
<1>6. ASSUME NEW c \in Clients, CommandReplayed(c)
      PROVE  ReceiptsNameTheirCommit'
    <2>1. PICK r, v : r = flight[c].request /\ v = index[DerivedKey(r)].version
        OBVIOUS
    <2>2. /\ r \in Requests[mode] /\ r.op \in Enveloped
          /\ ReplayCommand(Command(r)) /\ mode \in Modes
          /\ answers' = answers \cup {[request |-> r, version |-> v]}
        BY <1>6, <2>1, SentFacts DEF CommandReplayed, Tell, BaseInv, DwTypeOK
    <2>3. /\ DerivedKey(r) \in DOMAIN index
          /\ index[DerivedKey(r)].digest = SemanticDigest(r.op, r.payload)
        <3>1. /\ Command(r).key \in DOMAIN index
              /\ index[Command(r).key].digest = Command(r).digest
            BY <2>2 DEF ReplayCommand, ApplyOutcome, Seen
        <3>. QED
            BY <2>2, <3>1, CommandType
    <2>4. PICK i \in DOMAIN commits :
              /\ commits[i].key = DerivedKey(r)
              /\ commits[i].after = v
              /\ commits[i].digest = SemanticDigest(r.op, r.payload)
        BY <2>1, <2>3, IndexFinds DEF BaseInv, IndexFindsItsCommit
    <2>5. PICK s \in Requests[mode] : s.op \in Enveloped /\ Does(commits[i], s)
        BY DEF ReceiptsInv, CommitsAreCommands
    <2>6. Carries(commits[i], r)
        BY <2>2, <2>4, <2>5, DigestDecides DEF Does
    <2>7. Committed(r, v)'
        BY <2>4, <2>6, StaysCommitted DEF Committed
    <2>. QED
        BY <1>2, <1>3, <2>2, <2>7
<1>7. CASE UNCHANGED dwVars
    BY <1>4, <1>7 DEF dwVars
<1>8. CASE \E call \in calls : Deliver(call) \/ Refuse(call) \/ Lose(call)
    BY <1>4, <1>8 DEF Deliver, Refuse, Lose
<1>9. CASE \E c \in Clients :
              \/ \E r \in Requests[mode] : SendCommand(c, r) \/ StartInKv(c, r)
              \/ CommandApplied(c) \/ CommandUnanswered(c) \/ Project(c) \/ PutRecord(c)
    BY <1>4, <1>9 DEF SendCommand, StartInKv, CommandApplied, CommandUnanswered,
                      Project, ReadRecord, PutRecord
<1>10. CASE \E c \in Clients : ProjectionFails(c) \/ Finish(c)
    BY <1>5, <1>10 DEF ProjectionFails, Finish
<1>11. CASE \E c \in Clients :
               \/ RepairFetch(c) \/ RepairLoad(c) \/ RepairPlan(c)
               \/ ReplayRead(c) \/ ReplayPut(c)
               \/ Reset(c) /\ UNCHANGED <<objectVars, storeVars, calls, answers>>
    BY <1>4, <1>11 DEF RepairFetch, RepairLoad, RepairPlan, Plan, ReplayRead, ReplayPut
<1>. QED
    BY <1>6, <1>7, <1>8, <1>9, <1>10, <1>11, DwSteps

LEMMA ReceiptsInvInductive ==
    /\ DwInit => ReceiptsInv
    /\ BaseInv /\ ReceiptsInv /\ [DwNext]_dwVars => ReceiptsInv'
<1>1. ASSUME DwInit PROVE ReceiptsInv
    <2>1. commits = << >> /\ answers = {} /\ \A c \in Clients : flight[c].stage = "idle"
        BY <1>1, IdleType DEF DwInit, Init
    <2>. QED
        BY <2>1 DEF ReceiptsInv, CommitsAreCommands, FlightsAreCommitted,
                    ReceiptsNameTheirCommit, Acknowledged
<1>2. ASSUME BaseInv, ReceiptsInv, [DwNext]_dwVars PROVE ReceiptsInv'
    BY <1>2, CommitsAreCommandsStep, FlightsAreCommittedStep,
       ReceiptsNameTheirCommitStep DEF ReceiptsInv
<1>. QED
    BY <1>1, <1>2

(* Receipts for the same version are receipts of one commit, and so of one *)
(* key: versions are never shared.                                         *)
LEMMA ReceiptsDiffer == BaseInv /\ ReceiptsNameTheirCommit => NoDuplicateResultingVersions
<1>. SUFFICES ASSUME BaseInv, ReceiptsNameTheirCommit, mode = "authoritative",
                     NEW a \in Acknowledged, NEW b \in Acknowledged,
                     a.version = b.version
              PROVE  DerivedKey(a.request) = DerivedKey(b.request)
    BY DEF NoDuplicateResultingVersions
<1>1. PICK i \in DOMAIN commits : /\ commits[i].key = DerivedKey(a.request)
                                  /\ commits[i].after = a.version
    BY DEF ReceiptsNameTheirCommit
<1>2. PICK j \in DOMAIN commits : /\ commits[j].key = DerivedKey(b.request)
                                  /\ commits[j].after = b.version
    BY DEF ReceiptsNameTheirCommit
<1>3. i = j
    BY <1>1, <1>2, CommitVersionsDiffer DEF BaseInv
<1>. QED
    BY <1>1, <1>2, <1>3

(* Authoritative mode: every receipt, a replayed one and one told after a  *)
(* failed projection included, names a commit of the log under the key of  *)
(* the request that did what it asked, and no two commands are told the    *)
(* same version.                                                           *)
THEOREM ReceiptsTrue == DwSpec => []ReceiptsAreTrue
<1>1. BaseInv /\ ReceiptsInv => ReceiptsAreTrue
    BY ReceiptsDiffer DEF ReceiptsAreTrue, ReceiptsInv
<1>. QED
    BY <1>1, ReceiptsInvInductive, TypesOfTheComposition, PTL DEF DwSpec

----------------------------------------------------------------------------
(* Shadow mode.  The object hears of a command only after the client did,  *)
(* and of the version the client was told.                                 *)
CallsFollowAnswers ==
    \A call \in calls :
        call.kind = "apply-command" =>
            \E a \in Acknowledged : /\ call.body = Command(a.request)
                                    /\ a.version = a.request.expected + 1

FlightsPromiseTheNext ==
    \A c \in Clients :
        flight[c].stage \in {"write", "trail"} /\ flight[c].request.op \in Enveloped
        => flight[c].version = flight[c].request.expected + 1

ShadowInv ==
    mode = "shadow" =>
        CommitsWereAcknowledged /\ CallsFollowAnswers /\ FlightsPromiseTheNext

LEMMA AcknowledgedGrows ==
    ASSUME [DwNext]_dwVars
    PROVE  \A a \in Acknowledged : a \in Acknowledged'
<1>1. answers \subseteq answers'
    <2>1. CASE UNCHANGED answers
        BY <2>1
    <2>2. CASE \E c \in Clients : \E r, v : Tell(r, v)
        BY <2>2 DEF Tell
    <2>3. CASE \E c \in Clients :
                  CommandReplayed(c) \/ ProjectionFails(c) \/ Finish(c)
        BY <2>2, <2>3 DEF CommandReplayed, ProjectionFails, Finish
    <2>. QED
        BY <2>1, <2>3
           DEF DwNext, dwVars, SendCommand, StartInKv, CommandApplied, CommandUnanswered,
               Project, ReadRecord, PutRecord, Abandon, RepairFetch, RepairLoad,
               RepairPlan, Plan, ReplayRead, ReplayPut, RepairDone, Deliver, Refuse, Lose
<1>. QED
    BY <1>1 DEF Acknowledged

LEMMA CommitsWereAcknowledgedStep ==
    ASSUME BaseInv, mode = "shadow", ShadowInv, [DwNext]_dwVars
    PROVE  CommitsWereAcknowledged'
<1>0. UNCHANGED mode
    BY DwSteps
<1>1. \A i \in DOMAIN commits :
          \E a \in Acknowledged' : /\ DerivedKey(a.request) = commits[i].key
                                   /\ a.version = commits[i].after
    BY AcknowledgedGrows DEF ShadowInv, CommitsWereAcknowledged
<1>2. CommitsWereAcknowledged' <=>
          \A i \in DOMAIN commits' :
              \E a \in Acknowledged' : /\ DerivedKey(a.request) = commits'[i].key
                                       /\ a.version = commits'[i].after
    BY <1>0 DEF CommitsWereAcknowledged, DerivedKey
<1>3. CASE UNCHANGED commits
    BY <1>1, <1>2, <1>3
<1>4. ASSUME NEW call \in calls, Deliver(call)
      PROVE  CommitsWereAcknowledged'
    <2>1. CASE PutState(call.body, NoExtra, 0)
        BY <1>3, <2>1 DEF PutState
    <2>2. ASSUME NEW r \in Requests[mode], call.kind = "apply-command", r.op \in Enveloped,
                 call.body = Command(r), ApplyCommand(Command(r))
          PROVE  CommitsWereAcknowledged'
        <3>1. PICK a \in Acknowledged : /\ call.body = Command(a.request)
                                        /\ a.version = a.request.expected + 1
            BY <2>2 DEF ShadowInv, CallsFollowAnswers
        <3>2. /\ a.request \in Requests[mode] /\ a.request.op \in Enveloped
              /\ CommitCommand(Command(a.request), TRUE)
            BY <2>2, <3>1 DEF Acknowledged, BaseInv, DwTypeOK, ApplyCommand
        <3>3. /\ DOMAIN commits' = DOMAIN commits \cup {Len(commits) + 1}
              /\ commits'[Len(commits) + 1].after = a.version
              /\ commits'[Len(commits) + 1].key = DerivedKey(a.request)
              /\ \A i \in DOMAIN commits : commits'[i] = commits[i]
            BY <3>1, <3>2, NewCommitDoes DEF Does
        <3>4. a \in Acknowledged'
            BY AcknowledgedGrows
        <3>. QED
            BY <1>1, <1>2, <3>3, <3>4
    <2>3. CASE \E r \in Requests[mode] : ReplayCommand(Command(r))
        BY <1>3, <2>3 DEF ReplayCommand, coreVars
    <2>. QED
        BY <1>4, <2>1, <2>2, <2>3, DeliverFacts
<1>5. CASE UNCHANGED objectVars
    BY <1>3, <1>5 DEF objectVars, vars
<1>6. \A c \in Clients : ~CommandApplied(c) /\ ~CommandUnanswered(c) /\ ~CommandReplayed(c)
    BY SentFacts DEF CommandApplied, CommandUnanswered, CommandReplayed
<1>. QED
    BY <1>4, <1>5, <1>6, ObjectActors

LEMMA CallsFollowAnswersStep ==
    ASSUME BaseInv, mode = "shadow", ShadowInv, [DwNext]_dwVars
    PROVE  CallsFollowAnswers'
<1>0. UNCHANGED mode
    BY DwSteps
<1>1. CallsFollowAnswers' <=>
          \A call \in calls' :
              call.kind = "apply-command" =>
                  \E a \in Acknowledged' : /\ call.body = Command(a.request)
                                           /\ a.version = a.request.expected + 1
    BY <1>0 DEF CallsFollowAnswers, Command, DerivedKey, BuildTaskCommand
<1>2. \A call \in calls :
          call.kind = "apply-command" =>
              \E a \in Acknowledged' : /\ call.body = Command(a.request)
                                       /\ a.version = a.request.expected + 1
    BY AcknowledgedGrows DEF ShadowInv, CallsFollowAnswers
<1>3. CASE calls' \subseteq calls
    BY <1>1, <1>2, <1>3
<1>4. ASSUME NEW c \in Clients, Finish(c)
      PROVE  CallsFollowAnswers'
    <2>1. PICK r, v, record :
              r = flight[c].request /\ v = flight[c].version /\ record = flight[c].next
        OBVIOUS
    <2>2. /\ flight[c].stage = "trail" /\ Tell(r, v)
          /\ calls' = calls \/ calls' = calls \cup Replication(r, record)
        BY <1>4, <2>1 DEF Finish
    <2>3. ASSUME NEW call \in Replication(r, record), call.kind = "apply-command"
          PROVE  r.op \in Enveloped /\ call.body = Command(r)
        BY <2>3 DEF Replication
    <2>4. r.op \in Enveloped => v = r.expected + 1
        BY <2>1, <2>2 DEF ShadowInv, FlightsPromiseTheNext
    <2>5. [request |-> r, version |-> v] \in answers'
        BY <2>2 DEF Tell
    <2>. QED
        BY <1>1, <1>2, <2>2, <2>3, <2>4, <2>5 DEF Acknowledged
<1>5. CASE \E call \in calls : Deliver(call) \/ Refuse(call) \/ Lose(call)
    BY <1>3, <1>5 DEF Deliver, Refuse, Lose
<1>. QED
    BY <1>3, <1>4, <1>5, DwSteps
       DEF dwVars, SendCommand, StartInKv, CommandApplied, CommandUnanswered,
           CommandReplayed, ProjectionFails, Project, ReadRecord, PutRecord, RepairFetch,
           RepairLoad, RepairPlan, Plan, ReplayRead, ReplayPut

(* One request moves on: it is enough to look at that one. *)
LEMMA FlightsPromiseTheNextStep ==
    ASSUME BaseInv, mode = "shadow", ShadowInv, [DwNext]_dwVars
    PROVE  FlightsPromiseTheNext'
<1>0. FlightsPromiseTheNext /\ flight \in [Clients -> Flights]
    BY DEF ShadowInv, BaseInv, DwTypeOK
<1>1. CASE UNCHANGED flight
    BY <1>0, <1>1 DEF FlightsPromiseTheNext
<1>2. ASSUME NEW c \in Clients, NEW x \in Flights,
             flight' = [flight EXCEPT ![c] = x], Becomes(c, x)
      PROVE  FlightsPromiseTheNext'
    <2>. SUFFICES x.stage \in {"write", "trail"} /\ x.request.op \in Enveloped
                      => x.version = x.request.expected + 1
        <3>. HIDE DEF Flights
        <3>. QED
            BY <1>0, <1>2 DEF FlightsPromiseTheNext
    <2>1. CASE BecomesWriting(c, x)
        <3>1. /\ x.request \in Requests[mode] /\ KvAccepts(x.request, kv)
              /\ x.next = KvResult(x.request, kv)
            BY <2>1 DEF BecomesWriting
        <3>2. flight[c].stage # "project"
            BY DEF BaseInv, DwTypeOK, FlightIsWhole, IsAuthoritative
        <3>3. x.version = x.next.version
            BY <2>1, <3>2 DEF BecomesWriting
        <3>4. /\ x.request.op \in Operations /\ x.request.payload \in Payloads
              /\ x.request.progress \in Progress /\ kv \in StoredTasks \cup {NoTask}
            BY <3>1, RequestFacts DEF BaseInv, DwTypeOK
        <3>5. x.request.op \in Enveloped =>
                  x.request.op \notin {"create", "continue"}
            BY DEF Enveloped
        <3>6. x.request.op \in Enveloped => kv.version = x.request.expected
            BY <3>1 DEF KvAccepts, Enveloped
        <3>7. x.request.op \in Enveloped => x.next.version = kv.version + 1
            BY <3>1, <3>4, <3>5, KvResultType
        <3>. QED
            BY <3>3, <3>6, <3>7
    <2>2. CASE BecomesWritten(c, x)
        BY <1>0, <2>2 DEF BecomesWritten, FlightsPromiseTheNext
    <2>3. CASE x.stage \notin {"write", "trail"}
        BY <2>3
    <2>. QED
        BY <1>2, <2>1, <2>2, <2>3, IdleType
           DEF Becomes, BecomesProjecting, BecomesRepairing, BecomesPlanned,
               BecomesReplaying, BecomesReplayed
<1>. QED
    BY <1>1, <1>2, FlightMoves

LEMMA ShadowInvInductive ==
    /\ DwInit => ShadowInv
    /\ BaseInv /\ ShadowInv /\ [DwNext]_dwVars => ShadowInv'
<1>1. ASSUME DwInit PROVE ShadowInv
    <2>1. commits = << >> /\ calls = {} /\ \A c \in Clients : flight[c].stage = "idle"
        BY <1>1, IdleType DEF DwInit, Init
    <2>. QED
        BY <2>1 DEF ShadowInv, CommitsWereAcknowledged, CallsFollowAnswers,
                    FlightsPromiseTheNext
<1>2. ASSUME BaseInv, ShadowInv, [DwNext]_dwVars PROVE ShadowInv'
    BY <1>2, DwSteps, CommitsWereAcknowledgedStep, CallsFollowAnswersStep,
       FlightsPromiseTheNextStep DEF ShadowInv
<1>. QED
    BY <1>1, <1>2

(* Shadow mode: every commit of the object's log stands for a mutation a   *)
(* client was told had been done, at the version the client was told,      *)
(* however many requests overlap and whatever happens to the calls.        *)
THEOREM CommitsAcknowledged == DwSpec => []CommitsWereAcknowledged
<1>1. ShadowInv => CommitsWereAcknowledged
    BY DEF ShadowInv, CommitsWereAcknowledged
<1>. QED
    BY <1>1, ShadowInvInductive, TypesOfTheComposition, PTL DEF DwSpec

----------------------------------------------------------------------------
(* What both sides compute the same way.  ObjectResult is the record the   *)
(* object computes for a request from a record t.                          *)
ObjectResult(r, t) ==
    CASE r.op = "task.select_route" ->
             AppendRouteSelectionLocal(t, r.payload.route, t.version)
      [] r.op = "task.transition_state" ->
             TransitionStateLocal(t, r.payload.state, r.payload.action, t.version)
      [] OTHER ->
             AppendFindingLocal(t, r.payload.finding, t.version)

Brief(findings) ==
    [i \in DOMAIN findings |->
        <<findings[i].id, findings[i].status, findings[i].route>>]

(* Two records look the same when their fields do, the progress and the    *)
(* updated_at apart.                                                       *)
LEMMA ViewFacts ==
    ASSUME NEW t \in Tasks, NEW k \in Tasks
    PROVE  View(t) = View(k) <=>
               /\ t.version = k.version /\ t.state = k.state /\ t.action = k.action
               /\ t.route = k.route /\ t.routes = k.routes
               /\ Brief(t.findings) = Brief(k.findings)
<1>1. ASSUME NEW u \in Tasks
      PROVE  View(u) = [version |-> u.version, state |-> u.state, action |-> u.action,
                        route |-> u.route, routes |-> u.routes,
                        findings |-> Brief(u.findings)]
    BY DEF View, Brief
<1>. HIDE DEF View, Brief, Tasks
<1>2. View(t) = [version |-> t.version, state |-> t.state, action |-> t.action,
                 route |-> t.route, routes |-> t.routes, findings |-> Brief(t.findings)]
    BY <1>1
<1>3. View(k) = [version |-> k.version, state |-> k.state, action |-> k.action,
                 route |-> k.route, routes |-> k.routes, findings |-> Brief(k.findings)]
    BY <1>1
<1>. QED
    BY <1>2, <1>3

LEMMA BriefAppend ==
    ASSUME NEW s \in Seq(FindingEntries), NEW q \in Seq(FindingEntries),
           Brief(s) = Brief(q), NEW e \in FindingEntries, NEW f \in FindingEntries,
           e.id = f.id, e.status = f.status, e.route = f.route
    PROVE  Brief(Append(s, e)) = Brief(Append(q, f))
<1>1. DOMAIN Brief(s) = DOMAIN s /\ DOMAIN Brief(q) = DOMAIN q
    BY DEF Brief
<1>. HIDE DEF FindingEntries
<1>2. /\ DOMAIN s = 1..Len(s) /\ Len(s) \in Nat
      /\ DOMAIN q = 1..Len(q) /\ Len(q) \in Nat
    OBVIOUS
<1>3. Len(s) = Len(q) /\ DOMAIN s = DOMAIN q
    <2>1. DOMAIN s = DOMAIN q
        BY <1>1
    <2>2. PICK m, n : m = Len(s) /\ n = Len(q)
        OBVIOUS
    <2>3. m \in Nat /\ n \in Nat /\ 1..m = 1..n
        BY <1>2, <2>1, <2>2
    <2>4. m = n
        BY <2>3
    <2>. QED
        BY <2>1, <2>2, <2>4
<1>4. \A i \in DOMAIN s : /\ s[i].id = q[i].id /\ s[i].status = q[i].status
                          /\ s[i].route = q[i].route
    <2>1. ASSUME NEW i \in DOMAIN s
          PROVE  /\ s[i].id = q[i].id /\ s[i].status = q[i].status
                 /\ s[i].route = q[i].route
        <3>1. /\ Brief(s)[i] = <<s[i].id, s[i].status, s[i].route>>
              /\ Brief(q)[i] = <<q[i].id, q[i].status, q[i].route>>
            BY <1>3 DEF Brief
        <3>. QED
            BY <3>1
    <2>. QED
        BY <2>1
<1>5. /\ DOMAIN Append(s, e) = 1..(Len(s) + 1) /\ DOMAIN Append(q, f) = 1..(Len(s) + 1)
      /\ \A i \in 1..Len(s) : Append(s, e)[i] = s[i] /\ Append(q, f)[i] = q[i]
      /\ Append(s, e)[Len(s) + 1] = e /\ Append(q, f)[Len(s) + 1] = f
    BY <1>2, <1>3
<1>. DEFINE se == Append(s, e)
            qf == Append(q, f)
<1>. HIDE DEF se, qf
<1>6. /\ DOMAIN se = DOMAIN qf
      /\ \A i \in DOMAIN se : /\ se[i].id = qf[i].id /\ se[i].status = qf[i].status
                              /\ se[i].route = qf[i].route
    <2>1. ASSUME NEW i \in 1..(Len(s) + 1)
          PROVE  /\ se[i].id = qf[i].id /\ se[i].status = qf[i].status
                 /\ se[i].route = qf[i].route
        <3>1. CASE i \in 1..Len(s)
            BY <1>2, <1>4, <1>5, <3>1 DEF se, qf
        <3>2. CASE i = Len(s) + 1
            BY <1>5, <3>2 DEF se, qf
        <3>. QED
            BY <1>2, <3>1, <3>2
    <2>. QED
        BY <1>5, <2>1 DEF se, qf
<1>7. Brief(se) = Brief(qf)
    BY <1>6 DEF Brief
<1>. QED
    BY <1>7 DEF se, qf

(* The object and the KV store take records that look the same to records  *)
(* that look the same.  The object keeps the progress; the store keeps it  *)
(* too, but for a transition, which sets the one of the request.           *)
LEMMA SameView ==
    ASSUME NEW r, r.op \in Enveloped, r.payload \in Payloads, r.progress \in Progress,
           NEW t \in StoredTasks, NEW k \in StoredTasks, View(t) = View(k)
    PROVE  /\ View(ObjectResult(r, t)) = View(KvResult(r, k))
           /\ ObjectResult(r, t) \in StoredTasks
           /\ ObjectResult(r, t).version = t.version + 1
           /\ ObjectResult(r, t).progress = t.progress
           /\ KvResult(r, k).progress =
                  IF r.op = "task.transition_state" THEN r.progress ELSE k.progress
           /\ KvResult(r, k).updated_at = "request"
<1>. DEFINE after == ObjectResult(r, t)
            next  == KvResult(r, k)
<1>0. /\ t \in Tasks /\ k \in Tasks /\ t.version \in Nat \ {0} /\ k.version \in Nat \ {0}
      /\ r.payload.route \in Routes /\ r.payload.state \in TaskStates
      /\ r.payload.action \in NextActions /\ r.payload.finding \in Findings
    BY StoredFacts DEF Payloads
<1>1. /\ t.version = k.version /\ t.state = k.state /\ t.action = k.action
      /\ t.route = k.route /\ t.routes = k.routes
      /\ Brief(t.findings) = Brief(k.findings)
    BY <1>0, ViewFacts
<1>2. CASE r.op = "task.select_route"
    <2>1. /\ after = AppendRouteSelectionLocal(t, r.payload.route, t.version)
          /\ next = AppendRouteSelection(k, r.payload.route)
        BY <1>2 DEF ObjectResult, KvResult
    <2>2. after \in Tasks /\ after.version = t.version + 1 /\ next \in Tasks
        <3>1. /\ AppendRouteSelectionLocal(t, r.payload.route, t.version) \in Tasks
              /\ AppendRouteSelectionLocal(t, r.payload.route, t.version).version = t.version + 1
            BY <1>0, AppendRouteSelectionLocalType
        <3>2. AppendRouteSelection(k, r.payload.route) \in Tasks
            BY <1>0, AppendRouteSelectionType
        <3>. HIDE DEF Tasks, after, next
        <3>. QED
            BY <2>1, <3>1, <3>2
    <2>3. /\ after.route = r.payload.route /\ after.routes = Append(t.routes, r.payload.route)
          /\ after.state = t.state /\ after.action = t.action
          /\ after.findings = t.findings /\ after.progress = t.progress
        BY <1>0, <2>1 DEF AppendRouteSelectionLocal, Tasks
    <2>4. /\ next.route = r.payload.route /\ next.routes = Append(k.routes, r.payload.route)
          /\ next.state = k.state /\ next.action = k.action
          /\ next.findings = k.findings /\ next.progress = k.progress
          /\ next.version = k.version + 1 /\ next.updated_at = "request"
        BY <1>0, <2>1 DEF AppendRouteSelection, Tasks
    <2>. HIDE DEF after, next
    <2>5. View(after) = View(next)
        BY <1>1, <2>2, <2>3, <2>4, ViewFacts
    <2>6. after \in StoredTasks
        BY <1>0, <2>2 DEF StoredTasks
    <2>. QED
        BY <1>2, <2>2, <2>3, <2>4, <2>5, <2>6 DEF after, next
<1>3. CASE r.op = "task.transition_state"
    <2>1. /\ after = TransitionStateLocal(t, r.payload.state, r.payload.action, t.version)
          /\ next = TransitionPortableTaskState(k, r.payload.state, r.payload.action,
                                                r.progress)
        BY <1>3 DEF ObjectResult, KvResult
    <2>2. after \in Tasks /\ after.version = t.version + 1 /\ next \in Tasks
        <3>1. /\ TransitionStateLocal(t, r.payload.state, r.payload.action, t.version) \in Tasks
              /\ TransitionStateLocal(t, r.payload.state, r.payload.action, t.version).version = t.version + 1
            BY <1>0, TransitionStateLocalType
        <3>2. TransitionPortableTaskState(k, r.payload.state, r.payload.action,
                                          r.progress) \in Tasks
            BY <1>0, TransitionPortableTaskStateType
        <3>. HIDE DEF Tasks, after, next
        <3>. QED
            BY <2>1, <3>1, <3>2
    <2>3. /\ after.state = r.payload.state /\ after.action = r.payload.action
          /\ after.route = t.route /\ after.routes = t.routes
          /\ after.findings = t.findings /\ after.progress = t.progress
        BY <1>0, <2>1 DEF TransitionStateLocal, Tasks
    <2>4. /\ next.state = r.payload.state /\ next.action = r.payload.action
          /\ next.route = k.route /\ next.routes = k.routes
          /\ next.findings = k.findings /\ next.progress = r.progress
          /\ next.version = k.version + 1 /\ next.updated_at = "request"
        BY <1>0, <2>1 DEF TransitionPortableTaskState, Tasks
    <2>. HIDE DEF after, next
    <2>5. View(after) = View(next)
        BY <1>1, <2>2, <2>3, <2>4, ViewFacts
    <2>6. after \in StoredTasks
        BY <1>0, <2>2 DEF StoredTasks
    <2>. QED
        BY <1>3, <2>2, <2>3, <2>4, <2>5, <2>6 DEF after, next
<1>4. CASE r.op = "task.append_finding"
    <2>1. /\ after = AppendFindingLocal(t, r.payload.finding, t.version)
          /\ next = AppendFindingToTask(k, r.payload.finding)
        BY <1>4 DEF ObjectResult, KvResult
    <2>2. after \in Tasks /\ after.version = t.version + 1 /\ next \in Tasks
        <3>1. /\ AppendFindingLocal(t, r.payload.finding, t.version) \in Tasks
              /\ AppendFindingLocal(t, r.payload.finding, t.version).version = t.version + 1
            BY <1>0, AppendFindingLocalType
        <3>2. AppendFindingToTask(k, r.payload.finding) \in Tasks
            BY <1>0, AppendFindingToTaskType
        <3>. HIDE DEF Tasks, after, next
        <3>. QED
            BY <2>1, <3>1, <3>2
    <2>3. /\ after.state = t.state /\ after.action = t.action
          /\ after.route = t.route /\ after.routes = t.routes
          /\ after.findings = Append(t.findings, RawEntry(r.payload.finding))
          /\ after.progress = t.progress
        BY <1>0, <2>1 DEF AppendFindingLocal, Tasks
    <2>4. /\ next.state = k.state /\ next.action = k.action
          /\ next.route = k.route /\ next.routes = k.routes
          /\ next.findings = Append(k.findings, LedgerEntry(r.payload.finding))
          /\ next.progress = k.progress
          /\ next.version = k.version + 1 /\ next.updated_at = "request"
        BY <1>0, <2>1 DEF AppendFindingToTask, Tasks
    <2>. HIDE DEF after, next
    <2>7. Brief(after.findings) = Brief(next.findings)
        <3>1. t.findings \in Seq(FindingEntries) /\ k.findings \in Seq(FindingEntries)
            BY <1>0 DEF Tasks
        <3>2. LET e == RawEntry(r.payload.finding)
                  f == LedgerEntry(r.payload.finding)
              IN  /\ e \in FindingEntries /\ f \in FindingEntries
                  /\ e.id = f.id /\ e.status = f.status /\ e.route = f.route
            BY <1>0, LedgerEntryType DEF RawEntry, LedgerEntry
        <3>. QED
            BY <1>1, <2>3, <2>4, <3>1, <3>2, BriefAppend
    <2>5. View(after) = View(next)
        <3>1. /\ after.version = next.version /\ after.state = next.state
              /\ after.action = next.action /\ after.route = next.route
              /\ after.routes = next.routes
            BY <1>1, <2>2, <2>3, <2>4
        <3>. HIDE DEF Tasks, View, Brief
        <3>. QED
            BY <2>2, <2>7, <3>1, ViewFacts
    <2>6. after \in StoredTasks
        BY <1>0, <2>2 DEF StoredTasks
    <2>. QED
        BY <1>4, <2>2, <2>3, <2>4, <2>5, <2>6 DEF after, next
<1>. QED
    BY <1>2, <1>3, <1>4 DEF Enveloped

----------------------------------------------------------------------------
(* Authoritative mode.  What the projection shows holds while the clients  *)
(* use the three migrated commands only, apart from the creation; while    *)
(* the creations of the task, if it is asked for more than once, ask for   *)
(* the same; and, for the comparison of whole records, while transitions   *)
(* leave the progress alone, which the object does not keep.               *)
CommandsOnly ==
    \A r \in Requests["authoritative"] : r.op \in Enveloped \cup {"create"}

OneNewborn ==
    \A r, s \in Requests["authoritative"] :
        r.op = "create" /\ s.op = "create" => KvResult(r, NoTask) = KvResult(s, NoTask)

Newborn ==
    KvResult(CHOOSE r \in Requests["authoritative"] : r.op = "create", NoTask)

ProgressLeftAlone ==
    \A r \in Requests["authoritative"] :
        r.op = "task.transition_state" => r.progress = Newborn.progress

(* Nothing but commands moves a born object, so versions number the log.   *)
LogIsNumbered ==
    /\ \A i \in DOMAIN commits : commits[i].before = i /\ commits[i].after = i + 1
    /\ version # NoVersion => version = Len(commits) + 1

(* The object is born from a creation, and after KV.                       *)
CallsAreCreations ==
    /\ \A call \in calls :
          /\ call.kind = "put-state"
          /\ \E r \in Requests[mode] :
                r.op = "create" /\ call.body = KvResult(r, NoTask)
    /\ version # NoVersion \/ calls # {} => kv # NoTask

(* A creation about to be replicated is in KV; and a repair aims at least  *)
(* at where the object was when its log was read.                          *)
FlightIsNumbered(f) ==
    /\ f.stage \in {"write", "trail"} /\ f.request.op = "create" =>
          f.next = KvResult(f.request, NoTask)
    /\ f.stage = "trail" => kv # NoTask
    /\ f.stage = "repair" /\ f.fetched /\ f.plan # << >> =>
          f.plan[Len(f.plan)].after = f.truth
    /\ f.stage \in {"replay", "replayPut"} /\ f.replayed > 0 => f.version >= f.truth

NumberInv ==
    mode = "authoritative" =>
        /\ LogIsNumbered
        /\ CallsAreCreations
        /\ \A c \in Clients : FlightIsNumbered(flight[c])

(* The record the task had at a version, by the log.                       *)
Past(v) == IF v = 1 THEN Newborn ELSE commits[v - 1].stateAfter

Historic(w) ==
    /\ w.version \in 1..(Len(commits) + 1)
    /\ Past(w.version) \in StoredTasks
    /\ View(w) = View(Past(w.version))
    /\ ProgressLeftAlone => w.progress = Newborn.progress
    /\ w.updated_at \in {"request", Past(w.version).updated_at}

LogIsHistory ==
    /\ \A i \in DOMAIN commits :
          /\ commits[i].stateAfter \in StoredTasks
          /\ commits[i].stateAfter.version = i + 1
          /\ commits[i].stateAfter.progress = Newborn.progress
    /\ version # NoVersion => task = Past(version) /\ task \in StoredTasks

(* What a request is about to write is a record of the task's past.        *)
FlightIsHistoric(f) ==
    /\ f.stage = "project" =>
          LET e == f.request.expected IN
          /\ e \in DOMAIN commits /\ Past(e) \in StoredTasks
          /\ commits[e].stateAfter = ObjectResult(f.request, Past(e))
          /\ f.version = e + 1
    /\ f.stage \in {"write", "replayPut"} => Historic(f.next)
    /\ f.stage \in {"repair", "replay", "replayPut"} =>
          \A k \in DOMAIN f.plan : \E i \in DOMAIN commits : f.plan[k] = commits[i]

HistoryInv ==
    mode = "authoritative" =>
        /\ LogIsHistory
        /\ kv # NoTask => Historic(kv)
        /\ \A c \in Clients : FlightIsHistoric(flight[c])

----------------------------------------------------------------------------
(* The steps again, by what they change.                                   *)

(* A replicated record is taken over as it is. *)
PutsState(call) ==
    /\ call.kind = "put-state" /\ call.body \in StoredTasks
    /\ PutStateAccepted(call.body)
    /\ task' = call.body /\ version' = call.body.version
    /\ calls' = calls \ {call}
    /\ UNCHANGED <<commits, flight, kv, written, answers>>

LEMMA PutIsTakenOver ==
    ASSUME NEW call \in calls, Deliver(call), call.kind = "put-state",
           call.body \in StoredTasks,
           PutState(call.body, NoExtra, 0)
    PROVE  PutsState(call)
<1>1. PutVersion(call.body) = call.body.version
    BY StoredFacts, Assumptions DEF PutVersion
<1>. QED
    BY <1>1 DEF PutState, PutsState, Deliver, storeVars

LEMMA ObjectMoves ==
    ASSUME BaseInv, [DwNext]_dwVars
    PROVE  \/ UNCHANGED <<task, version, commits>>
           \/ \E r \in Requests[mode], m \in BOOLEAN :
                 r.op \in Enveloped /\ CommitCommand(Command(r), m)
           \/ \E call \in calls : PutsState(call)
<1>1. CASE UNCHANGED objectVars
    BY <1>1 DEF objectVars, vars
<1>3. CASE \E call \in calls : Deliver(call)
    <2>1. PICK call \in calls : Deliver(call)
        BY <1>3
    <2>2. CASE call.kind = "put-state" /\ call.body \in StoredTasks /\ PutState(call.body, NoExtra, 0)
        BY <2>1, <2>2, PutIsTakenOver
    <2>3. CASE \E r \in Requests[mode] : r.op \in Enveloped /\ ApplyCommand(Command(r))
        BY <2>3 DEF ApplyCommand
    <2>4. CASE \E r \in Requests[mode] : ReplayCommand(Command(r))
        BY <2>4 DEF ReplayCommand, coreVars
    <2>. QED
        BY <2>1, <2>2, <2>3, <2>4, DeliverFacts
<1>4. CASE \E c \in Clients : CommandApplied(c)
    BY <1>4, SentFacts DEF CommandApplied, ApplyCommand
<1>5. CASE \E c \in Clients : CommandUnanswered(c)
    BY <1>5, SentFacts DEF CommandUnanswered, ApplyCommandUnanswered
<1>6. CASE \E c \in Clients : CommandReplayed(c)
    BY <1>6 DEF CommandReplayed, ReplayCommand, coreVars
<1>. QED
    BY <1>1, <1>3, <1>4, <1>5, <1>6, ObjectActors

(* Calls begin when a mutation outside the object has finished.            *)
Replicates(c) ==
    /\ flight[c].stage = "trail" /\ ~IsAuthoritative(flight[c].request)
    /\ flight[c].request \in Requests[mode] /\ flight[c].next \in StoredTasks
    /\ calls' = calls \cup Replication(flight[c].request, flight[c].next)
    /\ flight' = [flight EXCEPT ![c] = Idle]
    /\ UNCHANGED <<task, version, commits, kv, written>>

LEMMA CallsMove ==
    ASSUME BaseInv, [DwNext]_dwVars
    PROVE  calls' \subseteq calls \/ \E c \in Clients : Replicates(c)
<1>1. ASSUME NEW c \in Clients, Finish(c), calls' # calls
      PROVE  Replicates(c)
    <2>1. PICK r, record : r = flight[c].request /\ record = flight[c].next
        OBVIOUS
    <2>2. /\ flight[c].stage = "trail" /\ ~IsAuthoritative(r)
          /\ calls' = calls \cup Replication(r, record)
        BY <1>1, <2>1 DEF Finish
    <2>3. r \in Requests[mode] /\ record \in StoredTasks
        BY <2>1, <2>2 DEF BaseInv, DwTypeOK, FlightIsWhole, Flights
    <2>. QED
        BY <1>1, <2>1, <2>2, <2>3 DEF Replicates, Finish, Reset, objectVars, vars, storeVars
<1>2. CASE \E call \in calls : Deliver(call) \/ Refuse(call) \/ Lose(call)
    BY <1>2 DEF Deliver, Refuse, Lose
<1>. QED
    BY <1>1, <1>2, DwSteps
       DEF dwVars, SendCommand, StartInKv, CommandApplied, CommandUnanswered,
           CommandReplayed, ProjectionFails, Project, ReadRecord, PutRecord, RepairFetch,
           RepairLoad, RepairPlan, Plan, ReplayRead, ReplayPut

(* The record is put by a request that has computed it.                    *)
Puts(c) ==
    /\ flight[c].stage \in {"write", "replayPut"}
    /\ flight[c].next \in StoredTasks /\ Put(flight[c].next)
    /\ flight'[c].stage \in {"trail", "replay"}
    /\ UNCHANGED <<task, version, commits, calls>>

LEMMA KvMoves ==
    ASSUME BaseInv, [DwNext]_dwVars
    PROVE  UNCHANGED <<kv, written>> \/ \E c \in Clients : Puts(c)
<1>1. ASSUME NEW c \in Clients, PutRecord(c) PROVE Puts(c)
    <2>1. PICK x \in Flights : x.stage = "trail" /\ flight' = [flight EXCEPT ![c] = x]
        BY <1>1, PutRecordFacts
    <2>2. flight'[c].stage = "trail"
        BY <2>1 DEF BaseInv, DwTypeOK
    <2>. QED
        BY <1>1, <2>2, PutRecordFacts DEF Puts, objectVars, vars
<1>2. ASSUME NEW c \in Clients, ReplayPut(c) PROVE Puts(c)
    <2>1. PICK x \in Flights : x.stage = "replay" /\ flight' = [flight EXCEPT ![c] = x]
        BY <1>2, ReplayPutFacts
    <2>2. flight'[c].stage = "replay"
        BY <2>1 DEF BaseInv, DwTypeOK
    <2>. QED
        BY <1>2, <2>2, ReplayPutFacts DEF Puts, objectVars, vars
<1>. QED
    BY <1>1, <1>2, DwSteps
       DEF dwVars, storeVars, SendCommand, StartInKv, CommandApplied, CommandUnanswered,
           CommandReplayed, ProjectionFails, Finish, Project, ReadRecord, RepairFetch,
           RepairLoad, RepairPlan, Plan, ReplayRead, Deliver, Refuse, Lose

----------------------------------------------------------------------------
(* The numbers of the log. *)

(* What a command makes of the object's record.                            *)
LEMMA CommandMoves ==
    ASSUME BaseInv, NEW r \in Requests[mode], r.op \in Enveloped, NEW m \in BOOLEAN,
           CommitCommand(Command(r), m)
    PROVE  /\ task \in Tasks /\ task # NoTask /\ task.version = CurrentVersion
           /\ version # NoVersion /\ CurrentVersion = version /\ version' = version + 1
           /\ r.expected = version
           /\ task' = ObjectResult(r, task) /\ NewCommit(Command(r)).stateAfter = task'
<1>. DEFINE command == Command(r)
            new == NewCommit(command)
<1>1. command \in TaskCommands /\ command.type = r.op /\ command.payload = r.payload
    BY CommandType DEF BaseInv, DwTypeOK
<1>2. /\ Applicable(command) /\ task' = new.stateAfter /\ version' = CurrentVersion + 1
    BY <1>1, CommitFacts DEF BaseInv
<1>3. r.expected = CurrentVersion
    BY NewCommitDoes
<1>4. task \in Tasks /\ task.version = CurrentVersion /\ task # NoTask
    BY <1>2 DEF Applicable, BaseInv, IInv, TypeOK
<1>5. version # NoVersion /\ CurrentVersion = version
    BY <1>2 DEF Applicable, BaseInv, IInv, UnbornIsEmpty, CurrentVersion
<1>6. new.stateAfter = ApplyTaskCommandMutation(command)
    BY DEF NewCommit
<1>. HIDE DEF command, new
<1>7. ApplyTaskCommandMutation(command) = ObjectResult(r, task)
    BY <1>1, <1>4 DEF ApplyTaskCommandMutation, ObjectResult
<1>. HIDE DEF ObjectResult, ApplyTaskCommandMutation
<1>. QED
    BY <1>2, <1>3, <1>4, <1>5, <1>6, <1>7 DEF new, command

(* A command that is applied finds the object where the log ends, and      *)
(* leaves it one further.                                                  *)
LEMMA CommitWhenNumbered ==
    ASSUME BaseInv, LogIsNumbered, NEW r \in Requests[mode], r.op \in Enveloped,
           NEW m \in BOOLEAN, CommitCommand(Command(r), m)
    PROVE  LET n == Len(commits) IN
           /\ n \in Nat /\ DOMAIN commits = 1..n /\ DOMAIN commits' = 1..(n + 1)
           /\ Len(commits') = n + 1
           /\ \A i \in 1..n : commits'[i] = commits[i]
           /\ version # NoVersion /\ version = n + 1 /\ CurrentVersion = n + 1
           /\ version' = n + 2 /\ version' # NoVersion /\ r.expected = n + 1
           /\ task \in Tasks /\ task.version = n + 1
           /\ task' = ObjectResult(r, task)
           /\ commits'[n + 1].stateAfter = task'
           /\ commits'[n + 1].before = n + 1 /\ commits'[n + 1].after = n + 2
<1>. DEFINE n == Len(commits)
            new == NewCommit(Command(r))
<1>1. n \in Nat /\ DOMAIN commits = 1..n
    <2>1. commits \in Seq(Commits)
        BY DEF BaseInv, IInv, TypeOK
    <2>. HIDE DEF Commits
    <2>. QED
        BY <2>1
<1>2. /\ task \in Tasks /\ task.version = CurrentVersion
      /\ version # NoVersion /\ CurrentVersion = version /\ version' = version + 1
      /\ r.expected = version
      /\ task' = ObjectResult(r, task) /\ new.stateAfter = task'
    BY CommandMoves
<1>3. /\ new.before = CurrentVersion /\ new.after = CurrentVersion + 1
      /\ Len(commits') = n + 1 /\ DOMAIN commits' = DOMAIN commits \cup {n + 1}
      /\ commits'[n + 1] = new
      /\ \A i \in DOMAIN commits : commits'[i] = commits[i]
    BY NewCommitDoes
<1>4. version = n + 1
    BY <1>2 DEF LogIsNumbered
<1>. HIDE DEF new, n, ObjectResult
<1>5. n + 2 # NoVersion
    BY <1>1, Assumptions
<1>6. DOMAIN commits' = 1..(n + 1) /\ n + 1 + 1 = n + 2
    BY <1>1, <1>3
<1>. QED
    BY <1>1, <1>2, <1>3, <1>4, <1>5, <1>6 DEF n

(* A creation that is replicated: what it needs and what it brings.        *)
LEMMA Birth ==
    ASSUME BaseInv, mode = "authoritative", LogIsNumbered, CallsAreCreations,
           NEW call \in calls, PutsState(call)
    PROVE  /\ version = NoVersion /\ commits = << >> /\ Len(commits) = 0
           /\ version' = 1 /\ task'.version = 1 /\ task' \in StoredTasks
           /\ \E r \in Requests[mode] : r.op = "create" /\ task' = KvResult(r, NoTask)
<1>1. PICK r \in Requests[mode] : r.op = "create" /\ call.body = KvResult(r, NoTask)
    BY DEF CallsAreCreations
<1>2. call.body.version = 1
    BY <1>1 DEF KvResult, CreatePortableTask
<1>3. version = NoVersion
    <2>1. version # NoVersion => 1 = version + 1
        BY <1>2, Assumptions DEF PutsState, PutStateAccepted
    <2>2. version # NoVersion => version = Len(commits) + 1 /\ Len(commits) \in Nat
        <3>1. commits \in Seq(Commits)
            BY DEF BaseInv, IInv, TypeOK
        <3>. HIDE DEF Commits
        <3>. QED
            BY <3>1 DEF LogIsNumbered
    <2>. QED
        BY <2>1, <2>2
<1>4. commits = << >>
    BY <1>3 DEF BaseInv, IInv, UnbornIsEmpty
<1>. QED
    BY <1>1, <1>2, <1>3, <1>4 DEF PutsState

LEMMA LogIsNumberedStep ==
    ASSUME BaseInv, mode = "authoritative", NumberInv, [DwNext]_dwVars
    PROVE  LogIsNumbered'
<1>0. LogIsNumbered /\ CallsAreCreations
    BY DEF NumberInv
<1>1. CASE UNCHANGED <<task, version, commits>>
    BY <1>0, <1>1 DEF LogIsNumbered
<1>2. CASE \E r \in Requests[mode], m \in BOOLEAN :
              r.op \in Enveloped /\ CommitCommand(Command(r), m)
    <2>1. PICK n : n = Len(commits)
        OBVIOUS
    <2>2. /\ n \in Nat /\ DOMAIN commits = 1..n /\ DOMAIN commits' = 1..(n + 1)
          /\ Len(commits') = n + 1 /\ version' = n + 2
          /\ \A i \in 1..n : commits'[i] = commits[i]
          /\ commits'[n + 1].before = n + 1 /\ commits'[n + 1].after = n + 2
        BY <1>0, <1>2, <2>1, CommitWhenNumbered
    <2>3. ASSUME NEW i \in 1..(n + 1)
          PROVE  commits'[i].before = i /\ commits'[i].after = i + 1
        <3>1. CASE i \in 1..n
            BY <1>0, <2>2, <3>1 DEF LogIsNumbered
        <3>2. CASE i = n + 1
            BY <2>2, <3>2
        <3>. QED
            BY <2>2, <3>1, <3>2
    <2>. QED
        BY <2>2, <2>3 DEF LogIsNumbered
<1>3. CASE \E call \in calls : PutsState(call)
    <2>1. commits = << >> /\ Len(commits) = 0 /\ version' = 1 /\ commits' = commits
        BY <1>0, <1>3, Birth DEF PutsState
    <2>. QED
        BY <2>1 DEF LogIsNumbered
<1>. QED
    BY <1>1, <1>2, <1>3, ObjectMoves

LEMMA CallsAreCreationsStep ==
    ASSUME CommandsOnly, BaseInv, mode = "authoritative", NumberInv, [DwNext]_dwVars
    PROVE  CallsAreCreations'
<1>0. UNCHANGED mode /\ LogIsNumbered /\ CallsAreCreations
    BY DwSteps DEF NumberInv
<1>. DEFINE Creates(call) ==
         /\ call.kind = "put-state"
         /\ \E r \in Requests[mode] : r.op = "create" /\ call.body = KvResult(r, NoTask)
<1>1. \A call \in calls' : Creates(call)
    <2>1. CASE calls' \subseteq calls
        BY <1>0, <2>1 DEF CallsAreCreations
    <2>2. ASSUME NEW c \in Clients, Replicates(c)
          PROVE  \A call \in calls' : Creates(call)
        <3>1. PICK r, record : r = flight[c].request /\ record = flight[c].next
            OBVIOUS
        <3>2. r \in Requests[mode] /\ r.op = "create"
            BY <2>2, <3>1 DEF Replicates, IsAuthoritative, CommandsOnly
        <3>3. record = KvResult(r, NoTask)
            BY <2>2, <3>1, <3>2 DEF Replicates, NumberInv, FlightIsNumbered
        <3>4. Replication(r, record) = {[kind |-> "put-state", body |-> record]}
            BY <3>2 DEF Replication, Enveloped
        <3>5. calls' = calls \cup {[kind |-> "put-state", body |-> record]}
            BY <2>2, <3>1, <3>4 DEF Replicates
        <3>6. Creates([kind |-> "put-state", body |-> record])
            BY <3>2, <3>3
        <3>. HIDE DEF Creates
        <3>7. \A call \in calls : Creates(call)
            BY <1>0 DEF CallsAreCreations, Creates
        <3>. QED
            BY <3>5, <3>6, <3>7
    <2>. QED
        BY <2>1, <2>2, CallsMove
<1>2. kv # NoTask => kv' # NoTask
    BY KvMoves, StoredFacts DEF Puts, Put
<1>3. version' # NoVersion => kv' # NoTask
    <2>1. CASE UNCHANGED <<task, version, commits>>
        BY <1>0, <1>2, <2>1 DEF CallsAreCreations
    <2>2. CASE version # NoVersion
        BY <1>0, <1>2, <2>2 DEF CallsAreCreations
    <2>3. CASE \E call \in calls : PutsState(call)
        BY <1>0, <1>2, <2>3 DEF CallsAreCreations
    <2>. QED
        BY <1>0, <2>1, <2>2, <2>3, CommitWhenNumbered, ObjectMoves
<1>4. calls' # {} => kv' # NoTask
    <2>1. CASE calls' \subseteq calls
        BY <1>0, <1>2, <2>1 DEF CallsAreCreations
    <2>2. CASE \E c \in Clients : Replicates(c)
        BY <1>2, <2>2 DEF Replicates, NumberInv, FlightIsNumbered
    <2>. QED
        BY <2>1, <2>2, CallsMove
<1>. QED
    BY <1>0, <1>1, <1>3, <1>4 DEF CallsAreCreations

(* A plan made from an empty log is empty, and one made from the log aims  *)
(* at the version the log ends with.                                       *)
LEMMA PlanAim ==
    ASSUME NEW log \in Seq(Commits), NEW record \in StoredTasks, NEW target,
           target = AuthoritativeVersion(log, record.version),
           NEW plan, plan = CommitsToApply(log, target, record.version), Len(plan) > 0
    PROVE  log # << >> /\ target = log[Len(log)].after
<1>1. /\ plan \in Seq(Commits)
      /\ \A k \in DOMAIN plan : \E i \in DOMAIN log : plan[k] = log[i]
    BY PlanTakesFromTheLog
<1>2. 1 \in DOMAIN plan
    <2>. HIDE DEF Commits
    <2>. QED
        BY <1>1
<1>3. log # << >>
    BY <1>1, <1>2
<1>. QED
    BY <1>3 DEF AuthoritativeVersion, Last

(* The log a repair reads ends where the object is.                        *)
LEMMA LogEndsAtTheVersion ==
    ASSUME BaseInv, LogIsNumbered, NEW log \in FetchedLogs, log # << >>
    PROVE  log = commits /\ log[Len(log)].after = CurrentVersion
<1>1. log = commits
    BY DEF FetchedLogs
<1>2. commits \in Seq(Commits) /\ commits # << >>
    BY <1>1 DEF BaseInv, IInv, TypeOK
<1>3. Len(commits) \in DOMAIN commits
    <2>. HIDE DEF Commits
    <2>. QED
        BY <1>2
<1>4. version # NoVersion
    BY <1>2 DEF BaseInv, IInv, UnbornIsEmpty
<1>. QED
    BY <1>1, <1>3, <1>4 DEF LogIsNumbered, CurrentVersion

LEMMA NumberedFlightStays ==
    ASSUME NEW f, FlightIsNumbered(f), kv # NoTask => kv' # NoTask
    PROVE  FlightIsNumbered(f)'
BY DEF FlightIsNumbered

LEMMA FlightIsNumberedMoves ==
    ASSUME CommandsOnly, BaseInv, mode = "authoritative", NumberInv, [DwNext]_dwVars,
           NEW c \in Clients, NEW x \in Flights, Becomes(c, x),
           flight' = [flight EXCEPT ![c] = x]
    PROVE  FlightIsNumbered(x)'
<1>0. /\ LogIsNumbered /\ FlightIsNumbered(flight[c]) /\ FlightIsWhole(flight[c])
      /\ flight[c] \in Flights
    BY DEF NumberInv, BaseInv, DwTypeOK
<1>1. CASE x.stage \in {"idle", "sent", "project"}
    BY <1>1 DEF FlightIsNumbered
<1>2. CASE BecomesWriting(c, x)
    <2>1. /\ x.request \in Requests[mode] /\ x.request.op # "continue"
          /\ KvAccepts(x.request, kv) /\ x.next = KvResult(x.request, kv)
        BY <1>2 DEF BecomesWriting, CommandsOnly, Enveloped
    <2>2. x.stage = "write"
        BY <1>2, <2>1 DEF BecomesWriting
    <2>3. x.request.op = "create" => x.next = KvResult(x.request, NoTask)
        BY <2>1 DEF KvAccepts
    <2>. HIDE DEF KvResult
    <2>. QED
        BY <2>2, <2>3 DEF FlightIsNumbered
<1>3. CASE BecomesWritten(c, x)
    <2>1. x.stage = "trail" /\ kv' = x.next /\ x.next # NoTask
        BY <1>0, <1>3 DEF BecomesWritten, Put, FlightIsWhole
    <2>2. x.request.op = "create" => x.next = KvResult(x.request, NoTask)
        BY <1>0, <1>3 DEF BecomesWritten, FlightIsNumbered
    <2>. HIDE DEF KvResult
    <2>. QED
        BY <2>1, <2>2 DEF FlightIsNumbered
<1>4. CASE BecomesRepairing(c, x)
    <2>1. x.stage = "repair" /\ (x.fetched /\ x.plan # << >> =>
                                     x.plan[Len(x.plan)].after = x.truth)
        BY <1>0, <1>4, LogEndsAtTheVersion DEF BecomesRepairing
    <2>. QED
        BY <2>1 DEF FlightIsNumbered
<1>5. CASE BecomesPlanned(c, x)
    <2>1. PICK log \in Seq(Commits), record \in StoredTasks :
              /\ PlanSource(flight[c], log, record, x.truth)
              /\ x.version = AuthoritativeVersion(log, record.version)
              /\ x.plan = CommitsToApply(log, x.version, record.version)
        BY <1>5 DEF BecomesPlanned
    <2>2. x.stage = "replay" /\ x.replayed = Len(x.plan) /\ flight[c].stage = "repair"
        BY <1>5 DEF BecomesPlanned
    <2>3. ASSUME x.replayed > 0
          PROVE  x.version >= x.truth
        <3>1. log # << >> /\ x.version = log[Len(log)].after
            BY <2>1, <2>2, <2>3, PlanAim
        <3>2. x.version = x.truth
            <4>1. CASE flight[c].fetched
                BY <1>0, <2>1, <2>2, <3>1, <4>1 DEF PlanSource, FlightIsNumbered
            <4>2. CASE ~flight[c].fetched
                BY <1>0, <2>1, <3>1, <4>2, LogEndsAtTheVersion DEF PlanSource
            <4>. QED
                BY <4>1, <4>2
        <3>3. x.truth \in Nat
            BY DEF Flights
        <3>. QED
            BY <3>2, <3>3
    <2>. QED
        BY <2>2, <2>3 DEF FlightIsNumbered
<1>6. CASE BecomesReplaying(c, x)
    BY <1>0, <1>6 DEF BecomesReplaying, FlightIsNumbered
<1>7. CASE BecomesReplayed(c, x)
    BY <1>0, <1>7 DEF BecomesReplayed, FlightIsNumbered
<1>8. CASE BecomesProjecting(c, x)
    BY <1>1, <1>8 DEF BecomesProjecting
<1>. QED
    BY <1>1, <1>2, <1>3, <1>4, <1>5, <1>6, <1>7, <1>8, IdleType DEF Becomes

LEMMA NumberInvInductive ==
    ASSUME CommandsOnly
    PROVE  /\ DwInit => NumberInv
           /\ BaseInv /\ NumberInv /\ [DwNext]_dwVars => NumberInv'
<1>1. ASSUME DwInit PROVE NumberInv
    <2>1. /\ commits = << >> /\ calls = {} /\ version = NoVersion
          /\ \A c \in Clients : flight[c].stage = "idle"
        BY <1>1, IdleType DEF DwInit, Init
    <2>. QED
        BY <2>1 DEF NumberInv, LogIsNumbered, CallsAreCreations, FlightIsNumbered
<1>2. ASSUME BaseInv, NumberInv, [DwNext]_dwVars, mode = "authoritative"
      PROVE  \A d \in Clients : FlightIsNumbered(flight[d])'
    <2>1. kv # NoTask => kv' # NoTask
        BY <1>2, KvMoves, StoredFacts DEF Puts, Put
    <2>2. CASE UNCHANGED flight
        <3>1. \A d \in Clients : FlightIsNumbered(flight[d])
            BY <1>2 DEF NumberInv
        <3>. QED
            BY <2>1, <2>2, <3>1 DEF FlightIsNumbered
    <2>3. ASSUME NEW c \in Clients, NEW x \in Flights, Becomes(c, x),
                 flight' = [flight EXCEPT ![c] = x], NEW d \in Clients
          PROVE  FlightIsNumbered(flight[d])'
        <3>1. CASE d = c
            <4>1. flight'[d] = x
                BY <1>2, <2>3, <3>1 DEF BaseInv, DwTypeOK
            <4>2. FlightIsNumbered(x)'
                BY <1>2, <2>3, FlightIsNumberedMoves
            <4>. QED
                BY <4>1, <4>2 DEF FlightIsNumbered
        <3>2. CASE d # c
            <4>1. flight'[d] = flight[d] /\ FlightIsNumbered(flight[d])
                BY <1>2, <2>3, <3>2 DEF BaseInv, DwTypeOK, NumberInv
            <4>. QED
                BY <2>1, <4>1 DEF FlightIsNumbered
        <3>. QED
            BY <3>1, <3>2
    <2>. QED
        BY <1>2, <2>2, <2>3, FlightMoves
<1>3. ASSUME BaseInv, NumberInv, [DwNext]_dwVars PROVE NumberInv'
    <2>1. UNCHANGED mode
        BY <1>3, DwSteps
    <2>. QED
        BY <1>2, <1>3, <2>1, LogIsNumberedStep, CallsAreCreationsStep DEF NumberInv
<1>. QED
    BY <1>1, <1>3

(* Authoritative mode, as long as the clients use the migrated commands: a *)
(* repair that has replayed commits and reports success has brought KV at  *)
(* least to where the object was when its log was read, whatever wrote to  *)
(* KV or to the object in between.                                         *)
THEOREM RepairsCatchUp == CommandsOnly => (DwSpec => []RepairCatchesUp)
<1>1. BaseInv /\ NumberInv => RepairCatchesUp
    <2>. SUFFICES ASSUME BaseInv, NumberInv, NEW c \in Clients, mode = "authoritative",
                         ReportsRepaired(c), flight[c].replayed > 0
                  PROVE  kv.version >= flight[c].truth
        BY DEF RepairCatchesUp
    <2>1. flight[c].stage = "replay" /\ ~(flight[c].version > kv.version)
        BY DEF ReportsRepaired, IsLagging
    <2>2. flight[c].version >= flight[c].truth
        BY <2>1 DEF NumberInv, FlightIsNumbered
    <2>3. flight[c].version \in Nat /\ flight[c].truth \in Nat
        BY DEF BaseInv, DwTypeOK, Flights
    <2>4. kv.version \in Nat
        BY <2>1, StoredFacts DEF BaseInv, DwTypeOK, FlightIsWhole
    <2>. QED
        BY <2>1, <2>2, <2>3, <2>4
<1>2. ASSUME CommandsOnly PROVE DwSpec => []RepairCatchesUp
    BY <1>1, <1>2, NumberInvInductive, TypesOfTheComposition, PTL DEF DwSpec
<1>. QED
    BY <1>2

----------------------------------------------------------------------------
(* What the projection shows. *)

(* Every creation makes the same record, the one the object is born with.  *)
LEMMA TheNewborn ==
    ASSUME OneNewborn, BaseInv, mode = "authoritative",
           NEW r \in Requests[mode], r.op = "create"
    PROVE  /\ KvResult(r, NoTask) = Newborn /\ Newborn \in StoredTasks
           /\ Newborn.version = 1
<1>1. KvAccepts(r, NoTask)
    BY DEF KvAccepts
<1>2. KvResult(r, NoTask) \in StoredTasks /\ KvResult(r, NoTask).version = 1
    BY <1>1, RequestFacts, KvResultType DEF BaseInv, DwTypeOK
<1>. HIDE DEF KvResult
<1>3. KvResult(r, NoTask) = Newborn
    BY DEF OneNewborn, Newborn
<1>. QED
    BY <1>2, <1>3

LEMMA NewbornIsHistoric ==
    ASSUME BaseInv, Newborn \in StoredTasks, Newborn.version = 1
    PROVE  Historic(Newborn)
<1>1. Len(commits) \in Nat
    <2>1. commits \in Seq(Commits)
        BY DEF BaseInv, IInv, TypeOK
    <2>. HIDE DEF Commits
    <2>. QED
        BY <2>1
<1>2. Past(1) = Newborn
    BY DEF Past
<1>. HIDE DEF Newborn, View, StoredTasks, Past
<1>. QED
    BY <1>1, <1>2 DEF Historic

(* The log is only added to, and so the past stays as it was.              *)
LEMMA PastStays ==
    ASSUME BaseInv, [DwNext]_dwVars, NEW v \in 1..(Len(commits) + 1)
    PROVE  Past(v)' = Past(v) /\ v \in 1..(Len(commits') + 1)
<1>1. commits \in Seq(Commits) /\ commits' \in Seq(Commits)
    BY NextBase DEF BaseInv, IInv, TypeOK
<1>2. /\ Len(commits) \in Nat /\ DOMAIN commits = 1..Len(commits)
      /\ Len(commits') \in Nat /\ DOMAIN commits' = 1..Len(commits')
    <2>. HIDE DEF Commits
    <2>. QED
        BY <1>1
<1>3. \A i \in 1..Len(commits) : i \in 1..Len(commits') /\ commits'[i] = commits[i]
    BY <1>2, LogGrows
<1>4. Len(commits') >= Len(commits)
    BY <1>2, <1>3
<1>. HIDE DEF Newborn
<1>5. CASE v = 1
    BY <1>2, <1>5 DEF Past
<1>6. CASE v # 1
    <2>1. v - 1 \in 1..Len(commits)
        BY <1>2, <1>6
    <2>2. commits'[v - 1] = commits[v - 1]
        BY <1>3, <2>1
    <2>. QED
        BY <1>2, <1>4, <1>6, <2>2 DEF Past
<1>. QED
    BY <1>5, <1>6

LEMMA HistoricStays ==
    ASSUME BaseInv, [DwNext]_dwVars, NEW w, Historic(w)
    PROVE  Historic(w)'
<1>1. PICK v : v = w.version
    OBVIOUS
<1>2. v \in 1..(Len(commits) + 1)
    BY <1>1 DEF Historic
<1>3. Past(v)' = Past(v) /\ v \in 1..(Len(commits') + 1)
    BY <1>2, PastStays
<1>. HIDE DEF Past, View, StoredTasks, Newborn, ProgressLeftAlone
<1>4. ProgressLeftAlone' = ProgressLeftAlone /\ Newborn' = Newborn
    BY DEF ProgressLeftAlone, Newborn
<1>. QED
    BY <1>1, <1>3, <1>4 DEF Historic

(* The object's own record is the last of its past; and a command takes it *)
(* to the next.                                                            *)
LEMMA LogIsHistoryStep ==
    ASSUME OneNewborn, BaseInv, mode = "authoritative", NumberInv, HistoryInv,
           [DwNext]_dwVars
    PROVE  LogIsHistory'
<1>0. LogIsHistory /\ LogIsNumbered /\ CallsAreCreations
    BY DEF HistoryInv, NumberInv
<1>. HIDE DEF StoredTasks, Newborn, KvResult, ObjectResult
<1>00. Newborn' = Newborn
    BY DEF Newborn
<1>1. CASE UNCHANGED <<task, version, commits>>
    BY <1>0, <1>00, <1>1 DEF LogIsHistory, Past
<1>2. ASSUME NEW r \in Requests[mode], NEW m \in BOOLEAN, r.op \in Enveloped,
             CommitCommand(Command(r), m)
      PROVE  LogIsHistory'
    <2>1. PICK n : n = Len(commits)
        OBVIOUS
    <2>2. /\ n \in Nat /\ DOMAIN commits = 1..n /\ DOMAIN commits' = 1..(n + 1)
          /\ \A i \in 1..n : commits'[i] = commits[i]
          /\ version # NoVersion /\ version = n + 1 /\ version' = n + 2
          /\ task.version = n + 1 /\ task' = ObjectResult(r, task)
          /\ commits'[n + 1].stateAfter = task'
        BY <1>0, <1>2, <2>1, CommitWhenNumbered
    <2>3. task \in StoredTasks /\ task = Past(version)
        BY <1>0, <2>2 DEF LogIsHistory
    <2>4. task.progress = Newborn.progress
        <3>1. CASE n = 0
            BY <2>2, <2>3, <3>1 DEF Past
        <3>2. CASE n # 0
            <4>1. n \in DOMAIN commits /\ task = commits[n].stateAfter
                BY <2>2, <2>3, <3>2 DEF Past
            <4>. QED
                BY <1>0, <4>1 DEF LogIsHistory
        <3>. QED
            BY <3>1, <3>2
    <2>5. /\ r.payload \in Payloads /\ r.progress \in Progress
        BY RequestFacts DEF BaseInv, DwTypeOK
    <2>6. /\ ObjectResult(r, task) \in StoredTasks
          /\ ObjectResult(r, task).version = task.version + 1
          /\ ObjectResult(r, task).progress = task.progress
        <3>1. PICK t : t = task
            OBVIOUS
        <3>2. /\ ObjectResult(r, t) \in StoredTasks
              /\ ObjectResult(r, t).version = t.version + 1
              /\ ObjectResult(r, t).progress = t.progress
            BY <1>2, <2>3, <2>5, <3>1, SameView
        <3>. QED
            BY <3>1, <3>2
    <2>7. /\ task' \in StoredTasks /\ task'.version = n + 2
          /\ task'.progress = Newborn.progress
        BY <2>2, <2>4, <2>6
    <2>8. ASSUME NEW i \in 1..(n + 1)
          PROVE  /\ commits'[i].stateAfter \in StoredTasks
                 /\ commits'[i].stateAfter.version = i + 1
                 /\ commits'[i].stateAfter.progress = Newborn.progress
        <3>1. CASE i \in 1..n
            BY <1>0, <2>2, <3>1 DEF LogIsHistory
        <3>2. CASE i = n + 1
            BY <2>2, <2>7, <3>2
        <3>. QED
            BY <2>2, <3>1, <3>2
    <2>9. task' = Past(version)'
        BY <2>2 DEF Past
    <2>. QED
        BY <1>00, <2>2, <2>7, <2>8, <2>9 DEF LogIsHistory
<1>3. CASE \E call \in calls : PutsState(call)
    <2>1. /\ commits' = commits /\ version' = 1 /\ task' \in StoredTasks
          /\ commits = << >>
          /\ \E r \in Requests[mode] : r.op = "create" /\ task' = KvResult(r, NoTask)
        BY <1>0, <1>3, Birth DEF PutsState
    <2>2. task' = Newborn
        BY <2>1, TheNewborn
    <2>. QED
        BY <1>0, <1>00, <2>1, <2>2 DEF LogIsHistory, Past
<1>. QED
    BY <1>1, <1>2, <1>3, ObjectMoves

LEMMA HistoricFlightStays ==
    ASSUME BaseInv, [DwNext]_dwVars, NEW f, FlightIsHistoric(f)
    PROVE  FlightIsHistoric(f)'
<1>1. \A i \in DOMAIN commits : i \in DOMAIN commits' /\ commits'[i] = commits[i]
    BY LogGrows
<1>2. DOMAIN commits = 1..Len(commits) /\ Len(commits) \in Nat
    <2>1. commits \in Seq(Commits)
        BY DEF BaseInv, IInv, TypeOK
    <2>. HIDE DEF Commits
    <2>. QED
        BY <2>1
<1>. HIDE DEF Past, StoredTasks, ObjectResult, Historic
<1>3. ASSUME f.stage = "project", NEW e, e = f.request.expected
      PROVE  /\ e \in DOMAIN commits' /\ Past(e)' \in StoredTasks
             /\ commits'[e].stateAfter = ObjectResult(f.request, Past(e)')
             /\ f.version = e + 1
    <2>1. /\ e \in DOMAIN commits /\ Past(e) \in StoredTasks
          /\ commits[e].stateAfter = ObjectResult(f.request, Past(e))
          /\ f.version = e + 1
        BY <1>3 DEF FlightIsHistoric
    <2>2. e \in 1..(Len(commits) + 1)
        BY <1>2, <2>1
    <2>3. Past(e)' = Past(e)
        BY <2>2, PastStays
    <2>. QED
        BY <1>1, <2>1, <2>3
<1>4. ASSUME f.stage \in {"write", "replayPut"}
      PROVE  Historic(f.next)'
    <2>1. PICK w : w = f.next
        OBVIOUS
    <2>2. Historic(w)
        BY <1>4, <2>1 DEF FlightIsHistoric
    <2>3. Historic(w)'
        BY <2>2, HistoricStays
    <2>. QED
        BY <2>1, <2>3 DEF Historic
<1>5. ASSUME f.stage \in {"repair", "replay", "replayPut"}, NEW k \in DOMAIN f.plan
      PROVE  \E i \in DOMAIN commits' : f.plan[k] = commits'[i]
    BY <1>1, <1>5 DEF FlightIsHistoric
<1>6. PICK e : e = f.request.expected
    OBVIOUS
<1>7. f.stage = "project" =>
          /\ e \in DOMAIN commits' /\ Past(e)' \in StoredTasks
          /\ commits'[e].stateAfter = ObjectResult(f.request, Past(e)')
          /\ f.version = e + 1
    BY <1>3, <1>6
<1>8. (Past(f.request.expected) = Past(e))'
    BY <1>6 DEF Past
<1>. QED
    BY <1>4, <1>5, <1>6, <1>7, <1>8 DEF FlightIsHistoric

(* The projection of a command on a record of the past is the record after *)
(* it (the write of the projection, dual-write-task-store.ts).             *)
LEMMA ProjectionIsHistoric ==
    ASSUME BaseInv, mode = "authoritative", NumberInv, kv # NoTask, Historic(kv),
           NEW r \in Requests[mode], r.op \in Enveloped, KvAccepts(r, kv),
           r.expected \in DOMAIN commits, Past(r.expected) \in StoredTasks,
           commits[r.expected].stateAfter = ObjectResult(r, Past(r.expected))
    PROVE  Historic(KvResult(r, kv))
<1>. DEFINE e == r.expected
            t == Past(e)
            next == KvResult(r, kv)
<1>1. /\ r.payload \in Payloads /\ r.progress \in Progress /\ r.op \in Operations
      /\ kv \in StoredTasks
    BY RequestFacts DEF BaseInv, DwTypeOK
<1>2. kv.version = e
    BY DEF KvAccepts, Enveloped
<1>3. next \in StoredTasks /\ next.version = e + 1
    BY <1>1, <1>2, KvResultType DEF Enveloped
<1>4. View(t) = View(kv)
    BY <1>2 DEF Historic
<1>5. /\ View(ObjectResult(r, t)) = View(next)
      /\ ObjectResult(r, t) \in StoredTasks
      /\ next.progress = IF r.op = "task.transition_state" THEN r.progress ELSE kv.progress
      /\ next.updated_at = "request"
    <2>1. PICK u, k : u = t /\ k = kv
        OBVIOUS
    <2>2. /\ View(ObjectResult(r, u)) = View(KvResult(r, k))
          /\ ObjectResult(r, u) \in StoredTasks
          /\ KvResult(r, k).progress =
                 IF r.op = "task.transition_state" THEN r.progress ELSE k.progress
          /\ KvResult(r, k).updated_at = "request"
        <3>1. u \in StoredTasks /\ k \in StoredTasks /\ View(u) = View(k)
            BY <1>1, <1>4, <2>1
        <3>. QED
            BY <1>1, <3>1, SameView
    <2>. QED
        BY <2>1, <2>2
<1>6. ProgressLeftAlone => next.progress = Newborn.progress
    BY <1>5 DEF Historic, ProgressLeftAlone
<1>7. /\ DOMAIN commits = 1..Len(commits) /\ Len(commits) \in Nat
    <2>1. commits \in Seq(Commits)
        BY DEF BaseInv, IInv, TypeOK
    <2>. HIDE DEF Commits
    <2>. QED
        BY <2>1
<1>8. e + 1 \in 1..(Len(commits) + 1) /\ e + 1 # 1 /\ e + 1 - 1 = e
    BY <1>7
<1>9. Past(e + 1) = ObjectResult(r, t)
    <2>1. commits[e].stateAfter = ObjectResult(r, t)
        OBVIOUS
    <2>2. PICK v : v = e + 1
        OBVIOUS
    <2>3. v # 1 /\ v - 1 = e
        BY <1>8, <2>2
    <2>. HIDE DEF e, t, Newborn
    <2>4. Past(v) = commits[e].stateAfter
        BY <2>3 DEF Past
    <2>. QED
        BY <2>1, <2>2, <2>4
<1>. HIDE DEF e, t, next, View, Newborn, ProgressLeftAlone, StoredTasks
<1>10. Past(next.version) = ObjectResult(r, t)
    BY <1>3, <1>9
<1>11. Historic(next)
    BY <1>3, <1>5, <1>6, <1>8, <1>10 DEF Historic
<1>. QED
    BY <1>11 DEF next

(* The record a replay writes is the one the commit leads to.              *)
LEMMA ReplayIsHistoric ==
    ASSUME BaseInv, LogIsNumbered, LogIsHistory, NEW i \in DOMAIN commits,
           NEW v, v = commits[i].before
    PROVE  Historic(ReplayRecord(commits[i], v))
<1>1. /\ DOMAIN commits = 1..Len(commits) /\ Len(commits) \in Nat
      /\ commits[i] \in Commits
    <2>1. commits \in Seq(Commits)
        BY DEF BaseInv, IInv, TypeOK
    <2>. HIDE DEF Commits
    <2>. QED
        BY <2>1
<1>2. v = i /\ i \in Nat
    BY <1>1 DEF LogIsNumbered
<1>3. /\ commits[i].stateAfter \in StoredTasks /\ commits[i].stateAfter.version = i + 1
      /\ commits[i].stateAfter.progress = Newborn.progress
    BY DEF LogIsHistory
<1>4. ReplayRecord(commits[i], v) = commits[i].stateAfter
    <2>1. PICK commit : commit = commits[i]
        OBVIOUS
    <2>2. ReplayRecord(commit, v) = commit.stateAfter
        BY <1>1, <1>2, <1>3, <2>1, ReplayRecordType
    <2>. QED
        BY <2>1, <2>2
<1>5. Past(i + 1) = commits[i].stateAfter
    BY <1>1 DEF Past
<1>6. i + 1 \in 1..(Len(commits) + 1)
    BY <1>1
<1>. HIDE DEF View, Newborn, ProgressLeftAlone, StoredTasks, Past, ReplayRecord
<1>. QED
    BY <1>3, <1>4, <1>5, <1>6 DEF Historic

(* A log that was read holds commits of the log, a plan commits of the log *)
(* it was made from.                                                       *)
LEMMA PlanIsFromTheLog ==
    ASSUME BaseInv, NEW c \in Clients, FlightIsHistoric(flight[c]),
           NEW x, BecomesPlanned(c, x)
    PROVE  \A k \in DOMAIN x.plan : \E i \in DOMAIN commits : x.plan[k] = commits[i]
<1>1. PICK log \in Seq(Commits), record \in StoredTasks :
          /\ PlanSource(flight[c], log, record, x.truth)
          /\ x.plan = CommitsToApply(log, x.version, record.version)
    BY DEF BecomesPlanned
<1>2. \A k \in DOMAIN x.plan : \E j \in DOMAIN log : x.plan[k] = log[j]
    BY <1>1, PlanTakesFromTheLog
<1>3. \A j \in DOMAIN log : \E i \in DOMAIN commits : log[j] = commits[i]
    <2>1. CASE log = flight[c].plan
        BY <2>1 DEF FlightIsHistoric, BecomesPlanned
    <2>2. CASE log \in FetchedLogs
        BY <2>2 DEF FetchedLogs
    <2>. QED
        BY <1>1, <2>1, <2>2 DEF PlanSource
<1>. QED
    BY <1>2, <1>3

LEMMA FlightIsHistoricMoves ==
    ASSUME CommandsOnly, OneNewborn, BaseInv, mode = "authoritative", NumberInv,
           HistoryInv, [DwNext]_dwVars,
           NEW c \in Clients, NEW x \in Flights, Becomes(c, x)
    PROVE  FlightIsHistoric(x)'
<1>0. /\ LogIsNumbered /\ LogIsHistory /\ FlightIsHistoric(flight[c])
      /\ FlightIsWhole(flight[c]) /\ flight[c] \in Flights
    BY DEF NumberInv, HistoryInv, BaseInv, DwTypeOK
<1>. HIDE DEF Past, Historic, ObjectResult, KvResult, View, StoredTasks, Commits, Newborn
<1>1. CASE x.stage \in {"idle", "sent", "trail"}
    BY <1>1 DEF FlightIsHistoric
<1>2. CASE BecomesProjecting(c, x)
    <2>1. PICK r, e : r = flight[c].request /\ e = r.expected
        OBVIOUS
    <2>2. /\ CommandApplied(c) /\ x.stage = "project" /\ x.request = r
          /\ x.version = CurrentVersion + 1
        BY <1>2, <2>1 DEF BecomesProjecting
    <2>3. /\ r \in Requests[mode] /\ r.op \in Enveloped
          /\ CommitCommand(Command(r), TRUE)
        BY <2>1, <2>2, SentFacts DEF CommandApplied, ApplyCommand
    <2>4. /\ e = Len(commits) + 1 /\ CurrentVersion = e /\ version = e
          /\ version # NoVersion
          /\ DOMAIN commits' = 1..e /\ Len(commits) \in Nat
          /\ commits'[e].stateAfter = ObjectResult(r, task)
        BY <1>0, <2>1, <2>3, CommitWhenNumbered
    <2>5. task = Past(e) /\ task \in StoredTasks
        BY <1>0, <2>4 DEF LogIsHistory
    <2>6. Past(e)' = Past(e)
        <3>1. e \in 1..(Len(commits) + 1)
            BY <2>4
        <3>. QED
            BY <3>1, PastStays
    <2>7. /\ e \in DOMAIN commits' /\ Past(e)' \in StoredTasks
          /\ commits'[e].stateAfter = ObjectResult(r, Past(e)')
          /\ x.version = e + 1 /\ x.request.expected = e
        BY <2>1, <2>2, <2>4, <2>5, <2>6
    <2>8. Past(x.request.expected)' = Past(e)'
        BY <2>7 DEF Past
    <2>. QED
        BY <2>2, <2>7, <2>8 DEF FlightIsHistoric
<1>3. CASE BecomesWriting(c, x)
    <2>1. PICK r : r = x.request
        OBVIOUS
    <2>2. /\ r \in Requests[mode] /\ KvAccepts(r, kv) /\ x.next = KvResult(r, kv)
          /\ r.op \in Enveloped \cup {"create"}
        BY <1>3, <2>1 DEF BecomesWriting, CommandsOnly
    <2>3. x.stage = "write"
        BY <1>3, <2>1, <2>2 DEF BecomesWriting, Enveloped
    <2>4. Historic(x.next)
        <3>1. CASE r.op = "create"
            <4>1. kv = NoTask
                BY <2>2, <3>1 DEF KvAccepts
            <4>2. x.next = Newborn /\ Newborn \in StoredTasks /\ Newborn.version = 1
                BY <2>2, <3>1, <4>1, TheNewborn
            <4>3. Historic(Newborn)
                BY <4>2, NewbornIsHistoric
            <4>. QED
                BY <4>2, <4>3
        <3>2. CASE r.op \in Enveloped
            <4>1. flight[c].stage = "project" /\ flight[c].request = r
                BY <1>3, <2>1, <3>2 DEF BecomesWriting, IsAuthoritative
            <4>2. /\ r.expected \in DOMAIN commits /\ Past(r.expected) \in StoredTasks
                  /\ commits[r.expected].stateAfter = ObjectResult(r, Past(r.expected))
                BY <1>0, <4>1 DEF FlightIsHistoric
            <4>3. kv # NoTask
                BY <2>2, <3>2 DEF KvAccepts, Enveloped
            <4>4. Historic(kv)
                BY <4>3 DEF HistoryInv
            <4>5. Historic(KvResult(r, kv))
                BY <2>2, <3>2, <4>2, <4>3, <4>4, ProjectionIsHistoric
            <4>. QED
                BY <2>2, <4>5
        <3>. QED
            BY <2>2, <3>1, <3>2
    <2>5. PICK w : w = x.next
        OBVIOUS
    <2>6. Historic(w)'
        BY <2>4, <2>5, HistoricStays
    <2>7. Historic(x.next)'
        BY <2>5, <2>6 DEF Historic
    <2>. QED
        BY <2>3, <2>7 DEF FlightIsHistoric
<1>4. CASE BecomesWritten(c, x)
    BY <1>1, <1>4 DEF BecomesWritten
<1>5. ASSUME x.stage \in {"repair", "replay"},
             \A k \in DOMAIN x.plan : \E i \in DOMAIN commits : x.plan[k] = commits[i]
      PROVE  FlightIsHistoric(x)'
    <2>1. FlightIsHistoric(x)
        BY <1>5 DEF FlightIsHistoric
    <2>. QED
        BY <2>1, HistoricFlightStays
<1>6. CASE BecomesRepairing(c, x)
    <2>1. x.plan = commits \/ x.plan = << >>
        BY <1>6 DEF BecomesRepairing, FetchedLogs
    <2>2. \A k \in DOMAIN x.plan : \E i \in DOMAIN commits : x.plan[k] = commits[i]
        BY <2>1
    <2>. QED
        BY <1>5, <1>6, <2>2 DEF BecomesRepairing
<1>7. CASE BecomesPlanned(c, x)
    BY <1>0, <1>5, <1>7, PlanIsFromTheLog DEF BecomesPlanned
<1>8. CASE BecomesReplaying(c, x)
    <2>1. /\ x.stage = "replayPut" /\ x.plan = flight[c].plan
          /\ flight[c].stage = "replay" /\ 1 \in DOMAIN x.plan
          /\ kv.version = x.plan[1].before
          /\ x.next = ReplayRecord(x.plan[1], kv.version)
        BY <1>8 DEF BecomesReplaying
    <2>2. \A k \in DOMAIN x.plan : \E i \in DOMAIN commits : x.plan[k] = commits[i]
        BY <1>0, <2>1 DEF FlightIsHistoric
    <2>3. PICK i \in DOMAIN commits : x.plan[1] = commits[i]
        BY <2>1, <2>2
    <2>4. PICK v : v = kv.version
        OBVIOUS
    <2>5. Historic(ReplayRecord(commits[i], v))
        BY <1>0, <2>1, <2>3, <2>4, ReplayIsHistoric
    <2>6. Historic(x.next)
        BY <2>1, <2>3, <2>4, <2>5
    <2>7. FlightIsHistoric(x)
        BY <2>1, <2>2, <2>6 DEF FlightIsHistoric
    <2>. QED
        BY <2>7, HistoricFlightStays
<1>9. CASE BecomesReplayed(c, x)
    <2>1. /\ x.stage = "replay" /\ x.plan = Tail(flight[c].plan)
          /\ flight[c].plan # << >> /\ flight[c].stage = "replayPut"
        BY <1>9 DEF BecomesReplayed
    <2>2. flight[c].plan \in Seq(Commits)
        BY <1>0 DEF Flights
    <2>3. \A k \in DOMAIN x.plan : /\ k + 1 \in DOMAIN flight[c].plan
                                   /\ x.plan[k] = flight[c].plan[k + 1]
        <3>1. PICK q : q = flight[c].plan
            OBVIOUS
        <3>2. q \in Seq(Commits) /\ q # << >> /\ x.plan = Tail(q)
            BY <2>1, <2>2, <3>1
        <3>3. \A k \in DOMAIN Tail(q) : k + 1 \in DOMAIN q /\ Tail(q)[k] = q[k + 1]
            BY <3>2
        <3>. QED
            BY <3>1, <3>2, <3>3
    <2>4. \A k \in DOMAIN x.plan : \E i \in DOMAIN commits : x.plan[k] = commits[i]
        BY <1>0, <2>1, <2>3 DEF FlightIsHistoric
    <2>. QED
        BY <1>5, <2>1, <2>4
<1>. QED
    BY <1>1, <1>2, <1>3, <1>4, <1>6, <1>7, <1>8, <1>9, IdleType DEF Becomes

LEMMA HistoryInvInductive ==
    ASSUME CommandsOnly, OneNewborn
    PROVE  /\ DwInit => HistoryInv
           /\ BaseInv /\ NumberInv /\ HistoryInv /\ [DwNext]_dwVars => HistoryInv'
<1>1. ASSUME DwInit PROVE HistoryInv
    <2>1. /\ commits = << >> /\ version = NoVersion /\ kv = NoTask
          /\ \A c \in Clients : flight[c].stage = "idle"
        BY <1>1, IdleType DEF DwInit, Init
    <2>. QED
        BY <2>1 DEF HistoryInv, LogIsHistory, FlightIsHistoric
<1>2. ASSUME BaseInv, NumberInv, HistoryInv, [DwNext]_dwVars, mode = "authoritative"
      PROVE  \A d \in Clients : FlightIsHistoric(flight[d])'
    <2>0. \A d \in Clients : FlightIsHistoric(flight[d])
        BY <1>2 DEF HistoryInv
    <2>1. ASSUME NEW d \in Clients, flight'[d] = flight[d]
          PROVE  FlightIsHistoric(flight[d])'
        <3>1. PICK f : f = flight[d]
            OBVIOUS
        <3>2. FlightIsHistoric(f)
            BY <2>0, <3>1
        <3>3. FlightIsHistoric(f)'
            BY <1>2, <3>2, HistoricFlightStays
        <3>4. flight'[d] = f
            BY <2>1, <3>1
        <3>. QED
            BY <3>3, <3>4 DEF FlightIsHistoric
    <2>2. ASSUME NEW c \in Clients, NEW x \in Flights, Becomes(c, x),
                 flight' = [flight EXCEPT ![c] = x], NEW d \in Clients
          PROVE  FlightIsHistoric(flight[d])'
        <3>1. CASE d = c
            <4>1. flight'[d] = x
                BY <1>2, <2>2, <3>1 DEF BaseInv, DwTypeOK
            <4>2. FlightIsHistoric(x)'
                BY <1>2, <2>2, FlightIsHistoricMoves
            <4>. QED
                BY <4>1, <4>2 DEF FlightIsHistoric
        <3>2. CASE d # c
            <4>1. flight'[d] = flight[d]
                BY <1>2, <2>2, <3>2 DEF BaseInv, DwTypeOK
            <4>. QED
                BY <2>1, <4>1
        <3>. QED
            BY <3>1, <3>2
    <2>. QED
        BY <1>2, <2>1, <2>2, FlightMoves
<1>3. ASSUME BaseInv, NumberInv, HistoryInv, [DwNext]_dwVars, mode = "authoritative",
             kv' # NoTask
      PROVE  Historic(kv)'
    <2>1. PICK w : w = kv'
        OBVIOUS
    <2>2. Historic(w)
        <3>1. CASE UNCHANGED kv
            BY <1>3, <2>1, <3>1 DEF HistoryInv
        <3>2. CASE \E c \in Clients : Puts(c)
            BY <1>3, <2>1, <3>2 DEF Puts, Put, HistoryInv, FlightIsHistoric
        <3>. QED
            BY <1>3, <3>1, <3>2, KvMoves
    <2>3. Historic(w)'
        BY <1>3, <2>2, HistoricStays
    <2>. QED
        BY <2>1, <2>3 DEF Historic
<1>4. ASSUME BaseInv, NumberInv, HistoryInv, [DwNext]_dwVars
      PROVE  HistoryInv'
    <2>1. UNCHANGED mode
        BY <1>4, DwSteps
    <2>. QED
        BY <1>2, <1>3, <1>4, <2>1, LogIsHistoryStep DEF HistoryInv
<1>. QED
    BY <1>1, <1>4

LEMMA ShowsTheLog ==
    ASSUME BaseInv, NumberInv, HistoryInv
    PROVE  ProjectionIsAHistoricState
<1>. SUFFICES ASSUME mode = "authoritative", kv # NoTask, kv.version # 1
              PROVE  /\ version # NoVersion => kv.version <= version
                     /\ \E i \in DOMAIN commits :
                           /\ commits[i].after = kv.version
                           /\ View(commits[i].stateAfter) = View(kv)
    BY DEF ProjectionIsAHistoricState
<1>1. LogIsNumbered /\ Historic(kv)
    BY DEF NumberInv, HistoryInv
<1>2. DOMAIN commits = 1..Len(commits) /\ Len(commits) \in Nat
    <2>1. commits \in Seq(Commits)
        BY DEF BaseInv, IInv, TypeOK
    <2>. HIDE DEF Commits
    <2>. QED
        BY <2>1
<1>3. PICK v : v = kv.version
    OBVIOUS
<1>4. v \in 1..(Len(commits) + 1) /\ v # 1 /\ View(kv) = View(Past(v))
    BY <1>1, <1>3 DEF Historic
<1>5. v - 1 \in DOMAIN commits /\ Past(v) = commits[v - 1].stateAfter
    BY <1>2, <1>4 DEF Past
<1>6. commits[v - 1].after = v
    BY <1>1, <1>2, <1>4, <1>5 DEF LogIsNumbered
<1>7. version # NoVersion => v <= version
    BY <1>1, <1>2, <1>4 DEF LogIsNumbered
<1>. QED
    BY <1>3, <1>4, <1>5, <1>6, <1>7

(* The commit the reconciliation takes for the latest is the last.         *)
LEMMA LatestIsLast ==
    ASSUME BaseInv, LogIsNumbered, commits # << >>
    PROVE  LatestCommit(commits) = commits[Len(commits)] /\ Len(commits) \in DOMAIN commits
<1>1. /\ DOMAIN commits = 1..Len(commits) /\ Len(commits) \in Nat
      /\ Len(commits) \in DOMAIN commits
    <2>1. commits \in Seq(Commits)
        BY DEF BaseInv, IInv, TypeOK
    <2>. HIDE DEF Commits
    <2>. QED
        BY <2>1
<1>. DEFINE Latest(i) == \A j \in DOMAIN commits :
                            \/ commits[j].after < commits[i].after
                            \/ commits[j].after = commits[i].after /\ j <= i
<1>2. Latest(Len(commits))
    BY <1>1 DEF LogIsNumbered
<1>3. ASSUME NEW i \in DOMAIN commits, Latest(i)
      PROVE  i = Len(commits)
    BY <1>1, <1>3 DEF LogIsNumbered
<1>4. LatestCommit(commits) = commits[CHOOSE i \in DOMAIN commits : Latest(i)]
    BY DEF LatestCommit
<1>. HIDE DEF Latest
<1>. QED
    BY <1>1, <1>2, <1>3, <1>4

LEMMA BriefOfNothing ==
    ASSUME NEW s \in Seq(FindingEntries), Brief(s) = Brief(<< >>)
    PROVE  s = << >>
<1>1. DOMAIN s = {}
    <2>1. DOMAIN Brief(s) = DOMAIN s /\ DOMAIN Brief(<< >>) = DOMAIN << >>
        BY DEF Brief
    <2>. QED
        BY <2>1
<1>. HIDE DEF FindingEntries
<1>. QED
    BY <1>1

LEMMA RebuiltAgrees ==
    ASSUME ProgressLeftAlone, BaseInv, NumberInv, HistoryInv
    PROVE  RebuiltIsServed
<1>. SUFFICES ASSUME mode = "authoritative", commits # << >>,
                     LatestCommit(commits).after = kv.version, kv.findings = << >>
              PROVE  LET t == LatestCommit(commits).stateAfter IN
                     /\ [t EXCEPT !.updated_at = kv.updated_at] = kv
                     /\ t # kv <=> t.updated_at = "object" /\ kv.updated_at = "request"
    BY DEF RebuiltIsServed, Diverged
<1>1. LogIsNumbered /\ LogIsHistory /\ CallsAreCreations
    BY DEF NumberInv, HistoryInv
<1>2. /\ LatestCommit(commits) = commits[Len(commits)]
      /\ Len(commits) \in DOMAIN commits
    BY <1>1, LatestIsLast
<1>3. version # NoVersion
    BY DEF BaseInv, IInv, UnbornIsEmpty
<1>4. kv # NoTask /\ kv \in StoredTasks
    BY <1>1, <1>3 DEF CallsAreCreations, BaseInv, DwTypeOK
<1>5. Historic(kv)
    BY <1>4 DEF HistoryInv
<1>6. PICK n, t : n = Len(commits) /\ t = commits[n].stateAfter
    OBVIOUS
<1>7. n \in Nat \ {0}
    <2>1. commits \in Seq(Commits)
        BY DEF BaseInv, IInv, TypeOK
    <2>. HIDE DEF Commits
    <2>. QED
        BY <1>6, <2>1
<1>8. /\ kv.version = n + 1 /\ t \in StoredTasks /\ t.version = n + 1
      /\ t.progress = Newborn.progress
    BY <1>1, <1>2, <1>6 DEF LogIsNumbered, LogIsHistory
<1>9. Past(n + 1) = t
    BY <1>6, <1>7 DEF Past
<1>10. /\ View(kv) = View(t) /\ kv.progress = t.progress
       /\ kv.updated_at \in {"request", t.updated_at}
    <2>. HIDE DEF View, Past, Newborn, StoredTasks
    <2>. QED
        BY <1>5, <1>8, <1>9 DEF Historic
<1>11. t \in Tasks /\ kv \in Tasks
    BY <1>4, <1>8, StoredFacts
<1>12. /\ t.version = kv.version /\ t.state = kv.state /\ t.action = kv.action
       /\ t.route = kv.route /\ t.routes = kv.routes
       /\ Brief(t.findings) = Brief(kv.findings)
    BY <1>10, <1>11, ViewFacts
<1>13. t.findings \in Seq(FindingEntries)
    BY <1>11 DEF Tasks
<1>14. t.findings = kv.findings
    BY <1>12, <1>13, BriefOfNothing
<1>. HIDE DEF Newborn
<1>15. [t EXCEPT !.updated_at = kv.updated_at] = kv
    BY <1>10, <1>11, <1>12, <1>14 DEF Tasks
<1>16. t = [t EXCEPT !.updated_at = t.updated_at] /\ t.updated_at \in Clocks
    BY <1>11 DEF Tasks
<1>17. t = kv <=> t.updated_at = kv.updated_at
    BY <1>15, <1>16
<1>18. t # kv <=> t.updated_at = "object" /\ kv.updated_at = "request"
    BY <1>10, <1>16, <1>17 DEF Clocks
<1>. QED
    BY <1>2, <1>6, <1>15, <1>18

(* Authoritative mode, as long as the clients use the migrated commands,   *)
(* create the task in one way, and transitions leave the progress alone:   *)
(* in whatever order commands, projections, repairs and replications land, *)
(* and whichever of them fail, KV shows the newborn task or the state the  *)
(* log names for its version, never one the object has yet to reach; and   *)
(* where nothing lags and there is no finding, the reconciliation has      *)
(* nothing to complain about but the updated_at of a transition, and       *)
(* complains of that until a repair has copied the object's.               *)
THEOREM ProjectionTrue ==
    CommandsOnly /\ OneNewborn /\ ProgressLeftAlone => (DwSpec => []ProjectionIsTrue)
<1>1. ASSUME CommandsOnly, OneNewborn, ProgressLeftAlone
      PROVE  DwSpec => []ProjectionIsTrue
    <2>1. BaseInv /\ NumberInv /\ HistoryInv => ProjectionIsTrue
        BY <1>1, ShowsTheLog, RebuiltAgrees DEF ProjectionIsTrue
    <2>. QED
        BY <1>1, <2>1, NumberInvInductive, HistoryInvInductive, TypesOfTheComposition, PTL
           DEF DwSpec
<1>. QED
    BY <1>1

(* Without the last of these: the historic part.                           *)
THEOREM ProjectionHistoric ==
    CommandsOnly /\ OneNewborn => (DwSpec => []ProjectionIsAHistoricState)
<1>1. ASSUME CommandsOnly, OneNewborn
      PROVE  DwSpec => []ProjectionIsAHistoricState
    <2>1. BaseInv /\ NumberInv /\ HistoryInv => ProjectionIsAHistoricState
        BY ShowsTheLog
    <2>. QED
        BY <1>1, <2>1, NumberInvInductive, HistoryInvInductive, TypesOfTheComposition, PTL
           DEF DwSpec
<1>. QED
    BY <1>1

----------------------------------------------------------------------------
(* Shadow mode, one request at a time ("shadow" is not in Together).  KV   *)
(* then goes through one sequence of records, and everything that is on    *)
(* its way to the object comes from there.                                 *)

(* The records KV has held differ in their versions, and it holds the last.*)
KvIsASequence ==
    /\ kv = NoTask => written = {}
    /\ kv # NoTask => kv \in written
    /\ \A w \in written : w.version <= kv.version
    /\ \A w, u \in written : w.version = u.version => w = u

(* A request has led from one record of KV to another.                     *)
Leads(r) == \E w \in written : w.version = r.expected /\ KvResult(r, w) \in written

CallsComeFromKv ==
    \A call \in calls :
        \/ call.kind = "put-state" /\ call.body \in written
        \/ /\ call.kind = "apply-command"
           /\ \E r \in Requests[mode] :
                 r.op \in Enveloped /\ call.body = Command(r) /\ Leads(r)

ObjectFollowsKv ==
    task # NoTask =>
        /\ task \in StoredTasks /\ version = task.version
        /\ \E w \in written : View(w) = View(task)

(* A request knows what KV holds, and a repair finds nothing to replay.    *)
FlightIsAlone(f) ==
    /\ f.stage # "replayPut"
    /\ f.stage = "write" => KvAccepts(f.request, kv) /\ f.next = KvResult(f.request, kv)
    /\ f.stage = "trail" =>
          f.next \in written /\ (f.request.op \in Enveloped => Leads(f.request))
    /\ f.stage = "repair" =>
          /\ \A k \in DOMAIN f.plan : \E i \in DOMAIN commits : f.plan[k] = commits[i]
          /\ ~f.fetched => f.next = kv
    /\ f.stage = "replay" => f.plan = << >>

OneAtATime == \A c, d \in Clients : c # d => flight[c] = Idle \/ flight[d] = Idle

AloneInv ==
    mode = "shadow" =>
        /\ KvIsASequence /\ CallsComeFromKv /\ ObjectFollowsKv /\ OneAtATime
        /\ \A c \in Clients : FlightIsAlone(flight[c])

LEMMA WrittenGrows ==
    ASSUME BaseInv, [DwNext]_dwVars
    PROVE  /\ written \subseteq written' /\ (kv # NoTask => kv' # NoTask)
           /\ \A r : Leads(r) => Leads(r)'
<1>1. written \subseteq written' /\ (kv # NoTask => kv' # NoTask)
    BY KvMoves, StoredFacts DEF Puts, Put
<1>2. ASSUME NEW r, Leads(r) PROVE Leads(r)'
    <2>1. PICK w \in written : w.version = r.expected /\ KvResult(r, w) \in written
        BY <1>2 DEF Leads
    <2>. HIDE DEF KvResult
    <2>2. \E u \in written' : u.version = r.expected /\ KvResult(r, u) \in written'
        BY <1>1, <2>1
    <2>. QED
        BY <2>2 DEF Leads
<1>. QED
    BY <1>1, <1>2

(* A request that is under way is the only one.                            *)
LEMMA OthersAreIdle ==
    ASSUME "shadow" \notin Together, BaseInv, mode = "shadow", OneAtATime,
           NEW c \in Clients, NEW x, Becomes(c, x), x # Idle
    PROVE  \A d \in Clients : d # c => flight[d] = Idle
<1>1. CASE MayStart(c)
    BY <1>1 DEF MayStart
<1>2. CASE flight[c].stage # "idle"
    BY <1>2, IdleType DEF OneAtATime
<1>. QED
    BY <1>1, <1>2 DEF Becomes, BecomesProjecting, BecomesWriting, BecomesWritten,
                      BecomesRepairing, BecomesPlanned, BecomesReplaying, BecomesReplayed

LEMMA OneAtATimeStep ==
    ASSUME "shadow" \notin Together, BaseInv, mode = "shadow", OneAtATime, [DwNext]_dwVars
    PROVE  OneAtATime'
<1>1. CASE UNCHANGED flight
    BY <1>1 DEF OneAtATime, Idle
<1>2. ASSUME NEW c \in Clients, NEW x \in Flights, Becomes(c, x),
             flight' = [flight EXCEPT ![c] = x]
      PROVE  OneAtATime'
    <2>0. flight \in [Clients -> Flights] /\ Idle' = Idle
        BY DEF BaseInv, DwTypeOK, Idle
    <2>1. \A d \in Clients : d # c => flight'[d] = flight[d]
        BY <1>2, <2>0
    <2>2. flight'[c] = x
        BY <1>2, <2>0
    <2>3. x # Idle => \A d \in Clients : d # c => flight[d] = Idle
        BY <1>2, OthersAreIdle
    <2>. HIDE DEF Idle, Flights
    <2>. QED
        BY <2>0, <2>1, <2>2, <2>3 DEF OneAtATime
<1>. QED
    BY <1>1, <1>2, FlightMoves

(* A record that is put follows the one KV holds.                          *)
LEMMA PutFollows ==
    ASSUME BaseInv, mode = "shadow", AloneInv, NEW c \in Clients, Puts(c)
    PROVE  \E r \in Requests[mode], w \in StoredTasks :
               /\ flight[c].stage = "write" /\ r = flight[c].request /\ w = flight[c].next
               /\ kv' = w /\ w # NoTask /\ w.version \in Nat
               /\ written' = written \cup {w}
               /\ \/ kv = NoTask \/ w = kv
                  \/ kv.version \in Nat /\ w.version = kv.version + 1
               /\ r.op \in Enveloped => Leads(r)'
<1>1. PICK r, w : r = flight[c].request /\ w = flight[c].next
    OBVIOUS
<1>2. /\ flight[c].stage = "write" /\ kv' = w /\ written' = written \cup {w}
      /\ w \in StoredTasks
    BY <1>1 DEF Puts, Put, AloneInv, FlightIsAlone
<1>3. r \in Requests[mode]
    BY <1>1, <1>2 DEF BaseInv, DwTypeOK, FlightIsWhole
<1>4. KvAccepts(r, kv) /\ w = KvResult(r, kv)
    BY <1>1, <1>2 DEF AloneInv, FlightIsAlone
<1>5. /\ r.op \in Operations /\ r.payload \in Payloads /\ r.progress \in Progress
      /\ kv \in StoredTasks \cup {NoTask}
    BY <1>3, RequestFacts DEF BaseInv, DwTypeOK
<1>6. \/ kv = NoTask \/ w = kv
      \/ kv.version \in Nat /\ w.version = kv.version + 1
    BY <1>4, <1>5, KvResultType, StoredFacts
<1>7. ASSUME r.op \in Enveloped PROVE Leads(r)'
    <2>1. kv # NoTask /\ kv.version = r.expected
        BY <1>4, <1>7 DEF KvAccepts, Enveloped
    <2>2. kv \in written
        BY <2>1 DEF AloneInv, KvIsASequence
    <2>. HIDE DEF KvResult
    <2>3. \E u \in written' : u.version = r.expected /\ KvResult(r, u) \in written'
        BY <1>2, <1>4, <2>1, <2>2
    <2>. QED
        BY <2>3 DEF Leads
<1>. QED
    BY <1>1, <1>2, <1>3, <1>6, <1>7, StoredFacts

LEMMA KvIsASequenceStep ==
    ASSUME BaseInv, mode = "shadow", AloneInv, [DwNext]_dwVars
    PROVE  KvIsASequence'
<1>0. KvIsASequence
    BY DEF AloneInv
<1>1. CASE UNCHANGED <<kv, written>>
    BY <1>0, <1>1 DEF KvIsASequence
<1>2. ASSUME NEW c \in Clients, Puts(c)
      PROVE  KvIsASequence'
    <2>1. PICK w : /\ kv' = w /\ w # NoTask /\ w.version \in Nat
                   /\ written' = written \cup {w}
                   /\ \/ kv = NoTask \/ w = kv
                      \/ kv.version \in Nat /\ w.version = kv.version + 1
        BY <1>2, PutFollows
    <2>2. \A u \in written : u.version \in Nat
        BY StoredFacts DEF BaseInv, DwTypeOK
    <2>3. CASE kv = NoTask
        BY <1>0, <2>1, <2>3 DEF KvIsASequence
    <2>4. CASE w = kv
        BY <1>0, <2>1, <2>4 DEF KvIsASequence
    <2>5. CASE kv.version \in Nat /\ w.version = kv.version + 1
        <3>1. \A u \in written : u.version < w.version
            BY <1>0, <2>2, <2>5 DEF KvIsASequence
        <3>. QED
            BY <1>0, <2>1, <2>2, <3>1 DEF KvIsASequence
    <2>. QED
        BY <2>1, <2>3, <2>4, <2>5
<1>. QED
    BY <1>1, <1>2, KvMoves

LEMMA CallsComeFromKvStep ==
    ASSUME BaseInv, mode = "shadow", AloneInv, [DwNext]_dwVars
    PROVE  CallsComeFromKv'
<1>0. UNCHANGED mode /\ CallsComeFromKv
    BY DwSteps DEF AloneInv
<1>. HIDE DEF Command, Leads
<1>1. ASSUME NEW call \in calls
      PROVE  \/ call.kind = "put-state" /\ call.body \in written'
             \/ /\ call.kind = "apply-command"
                /\ \E r \in Requests[mode] :
                      r.op \in Enveloped /\ call.body = Command(r) /\ Leads(r)'
    BY <1>0, WrittenGrows DEF CallsComeFromKv
<1>2. CASE calls' \subseteq calls
    BY <1>0, <1>1, <1>2 DEF CallsComeFromKv, Command, DerivedKey, BuildTaskCommand
<1>3. ASSUME NEW c \in Clients, Replicates(c), NEW call \in calls'
      PROVE  \/ call.kind = "put-state" /\ call.body \in written'
             \/ /\ call.kind = "apply-command"
                /\ \E r \in Requests[mode] :
                      r.op \in Enveloped /\ call.body = Command(r) /\ Leads(r)'
    <2>1. PICK r, w : r = flight[c].request /\ w = flight[c].next
        OBVIOUS
    <2>2. /\ r \in Requests[mode] /\ w \in written
          /\ r.op \in Enveloped => Leads(r)
          /\ calls' = calls \cup Replication(r, w)
        BY <1>3, <2>1 DEF Replicates, AloneInv, FlightIsAlone
    <2>3. w \in written' /\ (r.op \in Enveloped => Leads(r)')
        BY <2>2, WrittenGrows
    <2>4. CASE call \in Replication(r, w)
        <3>1. CASE call = [kind |-> "put-state", body |-> w]
            BY <2>3, <3>1
        <3>2. CASE r.op \in Enveloped /\
                   call = [kind |-> "apply-command", body |-> Command(r)]
            BY <2>2, <2>3, <3>2
        <3>. QED
            BY <2>4, <3>1, <3>2 DEF Replication
    <2>. QED
        BY <1>1, <2>2, <2>4
<1>4. CASE \E c \in Clients : Replicates(c)
    BY <1>0, <1>3, <1>4 DEF CallsComeFromKv, Command, DerivedKey, BuildTaskCommand
<1>. QED
    BY <1>2, <1>4, CallsMove

(* In shadow mode only calls reach the object. *)
LEMMA ShadowObjectMoves ==
    ASSUME BaseInv, mode = "shadow", [DwNext]_dwVars
    PROVE  \/ UNCHANGED <<task, version, commits>>
           \/ \E call \in calls : call.kind = "apply-command" /\ CommitCommand(call.body, TRUE)
           \/ \E call \in calls : PutsState(call)
<1>1. CASE UNCHANGED objectVars
    BY <1>1 DEF objectVars, vars
<1>2. ASSUME NEW call \in calls, Deliver(call)
      PROVE  \/ UNCHANGED <<task, version, commits>>
             \/ call.kind = "apply-command" /\ CommitCommand(call.body, TRUE)
             \/ PutsState(call)
    <2>1. CASE call.kind = "put-state" /\ call.body \in StoredTasks /\ PutState(call.body, NoExtra, 0)
        BY <1>2, <2>1, PutIsTakenOver
    <2>2. CASE call.kind = "apply-command" /\ ApplyCommand(call.body)
        BY <2>2 DEF ApplyCommand
    <2>3. CASE ReplayCommand(call.body)
        BY <2>3 DEF ReplayCommand, coreVars
    <2>. QED
        BY <1>2, <2>1, <2>2, <2>3, DeliverFacts
<1>3. \A c \in Clients : ~CommandApplied(c) /\ ~CommandUnanswered(c) /\ ~CommandReplayed(c)
    BY SentFacts DEF CommandApplied, CommandUnanswered, CommandReplayed
<1>. QED
    BY <1>1, <1>2, <1>3, ObjectActors

LEMMA ObjectFollowsKvStep ==
    ASSUME BaseInv, mode = "shadow", AloneInv, [DwNext]_dwVars
    PROVE  ObjectFollowsKv'
<1>0. ObjectFollowsKv /\ CallsComeFromKv /\ KvIsASequence
    BY DEF AloneInv
<1>. HIDE DEF View, StoredTasks, KvResult, ObjectResult
<1>1. CASE UNCHANGED <<task, version, commits>>
    <2>1. \A w \in written : w \in written'
        BY WrittenGrows
    <2>2. task' = task /\ version' = version
        BY <1>1
    <2>3. ASSUME task # NoTask PROVE \E w \in written' : View(w) = View(task)
        BY <1>0, <2>1, <2>3 DEF ObjectFollowsKv
    <2>4. View(task)' = View(task)
        BY <2>2 DEF View
    <2>. QED
        BY <1>0, <2>2, <2>3, <2>4 DEF ObjectFollowsKv
<1>2. ASSUME NEW call \in calls, PutsState(call)
      PROVE  ObjectFollowsKv'
    <2>1. PICK w : w = call.body
        OBVIOUS
    <2>2. /\ task' = w /\ w \in StoredTasks /\ version' = w.version
          /\ call.kind = "put-state"
        BY <1>2, <2>1 DEF PutsState
    <2>3. w \in written
        BY <1>0, <2>1, <2>2 DEF CallsComeFromKv
    <2>4. w \in written' /\ View(task)' = View(w)
        BY <2>2, <2>3, WrittenGrows DEF View
    <2>. QED
        BY <2>2, <2>4 DEF ObjectFollowsKv
<1>3. ASSUME NEW call \in calls, call.kind = "apply-command",
             CommitCommand(call.body, TRUE)
      PROVE  ObjectFollowsKv'
    <2>1. PICK r \in Requests[mode] :
              r.op \in Enveloped /\ call.body = Command(r) /\ Leads(r)
        BY <1>0, <1>3 DEF CallsComeFromKv
    <2>2. CommitCommand(Command(r), TRUE)
        BY <1>3, <2>1
    <2>3. /\ task \in Tasks /\ task # NoTask /\ version' = version + 1
          /\ r.expected = version /\ task' = ObjectResult(r, task)
        BY <2>1, <2>2, CommandMoves
    <2>4. PICK t : t = task
        OBVIOUS
    <2>5. /\ t \in StoredTasks /\ version = t.version
          /\ \E w \in written : View(w) = View(t)
        BY <1>0, <2>3, <2>4 DEF ObjectFollowsKv
    <2>6. PICK w \in written : View(w) = View(t)
        BY <2>5
    <2>7. PICK u \in written : u.version = r.expected /\ KvResult(r, u) \in written
        BY <2>1 DEF Leads
    <2>8. w \in StoredTasks /\ w.version = t.version
        <3>1. w \in StoredTasks
            BY DEF BaseInv, DwTypeOK
        <3>. QED
            BY <2>5, <2>6, <3>1, StoredFacts, ViewFacts
    <2>9. u = w
        BY <1>0, <2>3, <2>5, <2>7, <2>8 DEF KvIsASequence
    <2>10. r.payload \in Payloads /\ r.progress \in Progress
        BY RequestFacts DEF BaseInv, DwTypeOK
    <2>11. /\ View(ObjectResult(r, t)) = View(KvResult(r, w))
           /\ ObjectResult(r, t) \in StoredTasks
           /\ ObjectResult(r, t).version = t.version + 1
        BY <2>1, <2>5, <2>6, <2>8, <2>10, SameView
    <2>12. PICK v : v = ObjectResult(r, t)
        OBVIOUS
    <2>13. /\ task' = v /\ v \in StoredTasks /\ version' = v.version
           /\ View(KvResult(r, w)) = View(v) /\ KvResult(r, w) \in written'
        BY <2>3, <2>4, <2>5, <2>7, <2>9, <2>11, <2>12, WrittenGrows
    <2>14. View(task)' = View(v)
        BY <2>13 DEF View
    <2>15. \E z \in written' : View(z) = View(v)
        BY <2>13
    <2>. QED
        BY <2>13, <2>14, <2>15 DEF ObjectFollowsKv
<1>. QED
    BY <1>1, <1>2, <1>3, ShadowObjectMoves

(* The object is nowhere ahead of KV, and so there is nothing to repair.   *)
LEMMA NothingToRepair ==
    ASSUME BaseInv, mode = "shadow", AloneInv, NEW i \in DOMAIN commits
    PROVE  /\ kv # NoTask
           /\ \A v : v = kv.version => ~(commits[i].before >= v)
<1>1. /\ commits[i].after = commits[i].before + 1 /\ commits[i].after <= CurrentVersion
      /\ version # NoVersion /\ task # NoTask
    BY DEF BaseInv, IInv, CommitsAreChained, UnbornIsEmpty
<1>2. commits[i].before \in Nat
    <2>1. commits \in Seq(Commits)
        BY DEF BaseInv, IInv, TypeOK
    <2>. HIDE DEF Commits
    <2>2. commits[i] \in Commits
        BY <2>1
    <2>3. PICK e \in Commits : e = commits[i]
        BY <2>2
    <2>4. e.before \in Nat
        BY DEF Commits
    <2>. QED
        BY <2>3, <2>4
<1>3. PICK t : t = task
    OBVIOUS
<1>4. /\ t \in StoredTasks /\ CurrentVersion = t.version
      /\ \E w \in written : View(w) = View(t)
    BY <1>1, <1>3 DEF AloneInv, ObjectFollowsKv, CurrentVersion
<1>5. PICK w \in written : View(w) = View(t)
    BY <1>4
<1>6. w \in StoredTasks /\ w.version = t.version
    <2>1. w \in StoredTasks
        BY DEF BaseInv, DwTypeOK
    <2>. HIDE DEF StoredTasks, View
    <2>. QED
        BY <1>4, <1>5, <2>1, StoredFacts, ViewFacts
<1>7. kv # NoTask /\ kv \in StoredTasks /\ w.version <= kv.version
    BY DEF AloneInv, KvIsASequence, BaseInv, DwTypeOK
<1>8. kv.version \in Nat /\ t.version \in Nat
    BY <1>4, <1>7, StoredFacts
<1>. QED
    BY <1>1, <1>2, <1>4, <1>6, <1>7, <1>8

LEMMA FlightIsAloneMoves ==
    ASSUME BaseInv, mode = "shadow", AloneInv, [DwNext]_dwVars,
           NEW c \in Clients, NEW x \in Flights, Becomes(c, x),
           flight' = [flight EXCEPT ![c] = x]
    PROVE  FlightIsAlone(x)'
<1>0. /\ FlightIsAlone(flight[c]) /\ FlightIsWhole(flight[c]) /\ flight[c] \in Flights
      /\ flight'[c] = x
    BY DEF AloneInv, BaseInv, DwTypeOK
<1>. HIDE DEF KvResult, KvAccepts, StoredTasks, Commits, Leads
<1>1. CASE x.stage \in {"idle", "sent", "project"}
    BY <1>1 DEF FlightIsAlone
<1>2. CASE BecomesWriting(c, x)
    <2>1. PICK r, w : r = x.request /\ w = x.next
        OBVIOUS
    <2>2. /\ KvAccepts(r, kv) /\ w = KvResult(r, kv) /\ UNCHANGED <<kv, written>>
          /\ x.stage = IF r.op = "continue" THEN "trail" ELSE "write"
        BY <1>2, <2>1 DEF BecomesWriting, storeVars
    <2>3. CASE r.op = "continue"
        <3>1. kv # NoTask /\ w = kv /\ r.op \notin Enveloped
            BY <2>2, <2>3 DEF KvAccepts, KvResult, Enveloped
        <3>2. w \in written'
            BY <2>2, <3>1 DEF AloneInv, KvIsASequence
        <3>. QED
            BY <2>1, <2>2, <2>3, <3>1, <3>2 DEF FlightIsAlone
    <2>4. CASE r.op # "continue"
        <3>1. x.stage = "write" /\ KvAccepts(x.request, kv') /\ x.next = KvResult(x.request, kv')
            BY <2>1, <2>2, <2>4
        <3>2. KvAccepts(x.request, kv)' = KvAccepts(x.request, kv') /\
              KvResult(x.request, kv)' = KvResult(x.request, kv')
            BY DEF KvAccepts, KvResult
        <3>. QED
            BY <3>1, <3>2 DEF FlightIsAlone
    <2>. QED
        BY <2>3, <2>4
<1>3. CASE BecomesWritten(c, x)
    <2>1. /\ flight[c].stage = "write" /\ Put(flight[c].next) /\ x.stage = "trail"
          /\ x.request = flight[c].request /\ x.next = flight[c].next
          /\ UNCHANGED <<objectVars, calls>>
        BY <1>3 DEF BecomesWritten
    <2>2. flight[c].next \in StoredTasks
        BY <1>0, <2>1 DEF FlightIsWhole, Flights
    <2>3. Puts(c)
        BY <1>0, <2>1, <2>2 DEF Puts, objectVars, vars
    <2>4. PICK r \in Requests[mode], w \in StoredTasks :
              /\ r = flight[c].request /\ w = flight[c].next
              /\ written' = written \cup {w}
              /\ r.op \in Enveloped => Leads(r)'
        BY <2>3, PutFollows
    <2>5. x.request = r /\ x.next \in written'
        BY <2>1, <2>4
    <2>6. x.request.op \in Enveloped => Leads(x.request)'
        BY <2>4, <2>5 DEF Leads
    <2>. QED
        BY <2>1, <2>5, <2>6 DEF FlightIsAlone
<1>4. CASE BecomesRepairing(c, x)
    <2>1. x.stage = "repair" /\ UNCHANGED <<kv, commits>>
        BY <1>4 DEF BecomesRepairing, storeVars, objectVars, vars
    <2>2. x.plan = commits \/ x.plan = << >>
        BY <1>4 DEF BecomesRepairing, FetchedLogs
    <2>3. ~x.fetched => x.next = kv
        BY <1>4 DEF BecomesRepairing
    <2>4. \A k \in DOMAIN x.plan : \E i \in DOMAIN commits' : x.plan[k] = commits'[i]
        BY <2>1, <2>2
    <2>. QED
        BY <2>1, <2>3, <2>4 DEF FlightIsAlone
<1>5. CASE BecomesPlanned(c, x)
    <2>1. PICK log \in Seq(Commits), record \in StoredTasks :
              /\ PlanSource(flight[c], log, record, x.truth)
              /\ x.plan = CommitsToApply(log, x.version, record.version)
        BY <1>5 DEF BecomesPlanned
    <2>2. x.stage = "replay" /\ flight[c].stage = "repair"
        BY <1>5 DEF BecomesPlanned
    <2>3. record = kv
        BY <1>0, <2>1, <2>2 DEF PlanSource, FlightIsAlone
    <2>4. \A j \in DOMAIN log : \E i \in DOMAIN commits : log[j] = commits[i]
        <3>1. CASE log = flight[c].plan
            BY <1>0, <2>2, <3>1 DEF FlightIsAlone
        <3>2. CASE log \in FetchedLogs
            BY <3>2 DEF FetchedLogs
        <3>. QED
            BY <2>1, <3>1, <3>2 DEF PlanSource
    <2>5. PICK v : v = kv.version
        OBVIOUS
    <2>6. /\ x.plan \in Seq(Commits)
          /\ \A k \in DOMAIN x.plan : \E j \in DOMAIN log : log[j].before >= v
        BY <2>1, <2>3, <2>5, PlanTakesFromTheLog
    <2>7. DOMAIN x.plan = {}
        BY <2>4, <2>5, <2>6, NothingToRepair
    <2>8. x.plan \in Seq(Commits)
        BY <2>6
    <2>9. PICK q : q = x.plan
        OBVIOUS
    <2>10. q \in Seq(Commits) /\ DOMAIN q = {}
        BY <2>7, <2>8, <2>9
    <2>11. q = << >>
        BY <2>10
    <2>. QED
        BY <2>2, <2>9, <2>11 DEF FlightIsAlone
<1>6. CASE BecomesReplaying(c, x)
    BY <1>0, <1>6 DEF BecomesReplaying, FlightIsAlone
<1>7. CASE BecomesReplayed(c, x)
    BY <1>0, <1>7 DEF BecomesReplayed, FlightIsAlone
<1>8. CASE BecomesProjecting(c, x)
    BY <1>1, <1>8 DEF BecomesProjecting
<1>. QED
    BY <1>1, <1>2, <1>3, <1>4, <1>5, <1>6, <1>7, <1>8, IdleType DEF Becomes

LEMMA AloneInvInductive ==
    ASSUME "shadow" \notin Together
    PROVE  /\ DwInit => AloneInv
           /\ BaseInv /\ AloneInv /\ [DwNext]_dwVars => AloneInv'
<1>1. ASSUME DwInit PROVE AloneInv
    <2>1. /\ kv = NoTask /\ written = {} /\ calls = {} /\ task = NoTask
          /\ flight = [c \in Clients |-> Idle] /\ \A c \in Clients : flight[c].stage = "idle"
        BY <1>1, IdleType DEF DwInit, Init
    <2>2. KvIsASequence /\ CallsComeFromKv /\ ObjectFollowsKv /\ OneAtATime
        BY <2>1 DEF KvIsASequence, CallsComeFromKv, ObjectFollowsKv, OneAtATime
    <2>. QED
        BY <2>1, <2>2 DEF AloneInv, FlightIsAlone
<1>2. ASSUME BaseInv, AloneInv, [DwNext]_dwVars, mode = "shadow"
      PROVE  \A d \in Clients : FlightIsAlone(flight[d])'
    <2>0. /\ \A d \in Clients : FlightIsAlone(flight[d])
          /\ flight \in [Clients -> Flights]
        BY <1>2 DEF AloneInv, BaseInv, DwTypeOK
    <2>1. ASSUME NEW f, FlightIsAlone(f), UNCHANGED <<kv, written>>
          PROVE  FlightIsAlone(f)'
        <3>1. /\ KvAccepts(f.request, kv)' = KvAccepts(f.request, kv)
              /\ KvResult(f.request, kv)' = KvResult(f.request, kv)
            BY <2>1 DEF KvAccepts, KvResult
        <3>2. Leads(f.request) => Leads(f.request)'
            BY <1>2, WrittenGrows
        <3>3. ASSUME NEW e, \E i \in DOMAIN commits : e = commits[i]
              PROVE  \E i \in DOMAIN commits' : e = commits'[i]
            BY <1>2, <3>3, LogGrows
        <3>. HIDE DEF KvResult, KvAccepts, Leads
        <3>. QED
            BY <2>1, <3>1, <3>2, <3>3 DEF FlightIsAlone
    <2>2. ASSUME NEW d \in Clients, flight'[d] = flight[d], UNCHANGED <<kv, written>>
          PROVE  FlightIsAlone(flight[d])'
        <3>1. PICK f : f = flight[d]
            OBVIOUS
        <3>2. FlightIsAlone(f)'
            BY <2>0, <2>1, <2>2, <3>1
        <3>3. flight'[d] = f
            BY <2>2, <3>1
        <3>. QED
            BY <3>2, <3>3 DEF FlightIsAlone
    <2>3. ASSUME NEW d \in Clients, flight[d] = Idle, flight'[d] = flight[d]
          PROVE  FlightIsAlone(flight[d])'
        BY <2>3, IdleType DEF FlightIsAlone
    <2>4. ASSUME NEW d \in Clients, flight'[d] = flight[d] PROVE FlightIsAlone(flight[d])'
        <3>1. ASSUME NEW e \in Clients, Puts(e) PROVE flight[d] = Idle
            <4>1. e # d
                BY <2>4, <3>1 DEF Puts
            <4>2. flight[e] # Idle
                BY <3>1, IdleType DEF Puts
            <4>. QED
                BY <1>2, <4>1, <4>2 DEF AloneInv, OneAtATime
        <3>. QED
            BY <1>2, <2>2, <2>3, <2>4, <3>1, KvMoves
    <2>5. ASSUME NEW c \in Clients, NEW x \in Flights, Becomes(c, x),
                 flight' = [flight EXCEPT ![c] = x], NEW d \in Clients
          PROVE  FlightIsAlone(flight[d])'
        <3>1. CASE d = c
            <4>1. flight'[d] = x
                BY <2>0, <2>5, <3>1
            <4>2. FlightIsAlone(x)'
                BY <1>2, <2>5, FlightIsAloneMoves
            <4>. QED
                BY <4>1, <4>2 DEF FlightIsAlone
        <3>2. CASE d # c
            <4>1. flight'[d] = flight[d]
                BY <2>0, <2>5, <3>2
            <4>. QED
                BY <2>4, <4>1
        <3>. QED
            BY <3>1, <3>2
    <2>. QED
        BY <1>2, <2>4, <2>5, FlightMoves
<1>3. ASSUME BaseInv, AloneInv, [DwNext]_dwVars, mode = "shadow" PROVE AloneInv'
    <2>1. OneAtATime'
        BY <1>3, OneAtATimeStep DEF AloneInv
    <2>. QED
        BY <1>2, <1>3, <2>1, KvIsASequenceStep, CallsComeFromKvStep, ObjectFollowsKvStep
           DEF AloneInv
<1>4. ASSUME BaseInv, AloneInv, [DwNext]_dwVars PROVE UNCHANGED mode
    BY <1>4, DwSteps
<1>5. ASSUME BaseInv, AloneInv, [DwNext]_dwVars PROVE AloneInv'
    BY <1>3, <1>4, <1>5 DEF AloneInv
<1>. QED
    BY <1>1, <1>5

LEMMA AloneIsHistoric ==
    ASSUME BaseInv, AloneInv
    PROVE  ObjectIsAHistoricState
<1>1. ASSUME mode = "shadow", task # NoTask
      PROVE  task.version <= kv.version /\ \E w \in written : View(w) = View(task)
    <2>. PICK t : t = task
        OBVIOUS
    <2>1. t \in StoredTasks /\ \E w \in written : View(w) = View(t)
        BY <1>1 DEF AloneInv, ObjectFollowsKv
    <2>2. PICK w \in written : View(w) = View(t)
        BY <2>1
    <2>3. w \in StoredTasks /\ w.version <= kv.version
        BY <1>1 DEF AloneInv, KvIsASequence, BaseInv, DwTypeOK
    <2>4. w.version = t.version
        <3>. HIDE DEF StoredTasks, View
        <3>. QED
            BY <2>1, <2>2, <2>3, StoredFacts, ViewFacts
    <2>. QED
        BY <2>1, <2>3, <2>4
<1>. QED
    BY <1>1 DEF ObjectIsAHistoricState

(* Shadow mode, for as long as requests do not overlap: whatever order the *)
(* replicated calls arrive in, and whichever of them are lost or refused,  *)
(* the object holds a state KV has held, and never one ahead of KV.        *)
THEOREM ObjectHistoric ==
    "shadow" \notin Together => (DwSpec => []ObjectIsAHistoricState)
<1>1. ASSUME "shadow" \notin Together PROVE DwSpec => []ObjectIsAHistoricState
    <2>1. BaseInv /\ AloneInv => ObjectIsAHistoricState
        BY AloneIsHistoric
    <2>. QED
        BY <1>1, <2>1, AloneInvInductive, TypesOfTheComposition, PTL DEF DwSpec
<1>. QED
    BY <1>1
=============================================================================
