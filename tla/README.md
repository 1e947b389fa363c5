# Verification of ai-config-os

TLA+ models, TLC runs and TLAPS proofs for the parts of ai-config-os that keep
state or decide something: the task store of the Cloudflare worker in its
layers, the HTTP interface over it, a review moved from host to host, what else
the worker stores, the way skills reach a machine, the execution planner, and
the services beside them. Line numbers are those of the repository beside this
directory; `PROJECT.json` maps every definition to them.

## The system

ai-config-os distributes skills and configuration to coding agents, and runs a
worker that remembers portable tasks: a client starts a task on one surface,
records findings, moves it to another route and continues it elsewhere.

| Part | State | Operations | Talks to |
|---|---|---|---|
| Task Durable Object (`worker/src/task-object.ts`) | record, version, commit log, idempotency index, three lists, fingerprints, meta | apply-command, put-state, append-*, set-fingerprint, reads | called by the dual-write store |
| Commands (`task-command.ts`, `task-command-mutations.ts`) | none | build, digest, derive a key, apply to a record | handlers, object |
| Dual-write store (`dual-write-task-store.ts`) | none of its own | every task mutation, in shadow or authoritative mode; repair | KV store, object |
| Projection reconciliation (`task-projection-*.ts`) | none | lag, rebuild from the log, divergence, repair plan | dual-write store |
| KV task store (`task-store-kv.mjs`, `kv-persistence.mjs`) | per task: record, events, snapshots, log; shared: index, short codes | create, update, transition, findings, upgrade, select route, continue | KV |
| In-memory store (`task-store-core.mjs`) | the same in one process | the same | worker without KV, local surfaces |
| Lifecycle, findings ledger | none | transition table, progress, provenance | all stores |
| Handoff tokens (`handoff-token-service-worker.mjs`, `task-runtime.ts`) | consumed tokens, fingerprints, in memory | issue, verify, consume | stores, handlers |
| Router, validation, handlers (`router.ts`, `validation/`, `handlers/tasks.ts`) | none | HTTP to store calls | stores |
| Route resolution and review journey (`task-route-resolver.mjs`, `review-repository-journey.mjs`) | none of its own | start and resume a review on a host | in-memory store |
| Retrospectives (`worker/src/retrospectives`) | R2 object, KV meta with a time to live, KV index | post, list, weekly cleanup | R2, KV, cron |
| Dashboard snapshots (`dashboard-state-publisher.mjs`, `handlers/dashboard.ts`) | one KV value per resource and scope | publish all, read | KV, dashboard |
| Observability (`worker/src/observability`) | R2 run, KV meta, latest pointer, index, settings | report a run, list, settings | R2, KV |
| Release and installation (`upload-skills-kv.mjs`, `handlers/artifacts.ts`, `materialise.sh`) | KV packages, deployed registry, cache and home of a machine | upload, verify, deploy; bootstrap, fetch, extract, install | KV, worker, disk |
| Session start (`adapters/bootstrap`) | its result | remote or local installation, deferred work | `materialise.sh` |
| Capability client (`capabilities-client.mjs`, `handlers/capabilities.ts`) | cached profile and skills | ask for a profile, then for skills | worker, browser cache |
| Execution policy (`resource-policy-types.mjs`, `execution-planner.mjs`, `execution-policy-compose.mjs`, `context-pack-builder.mjs`) | one execution's attempts | merge layers, plan, pack, measure, retry | provider |
| Execution selection (`execution-selection-*.mjs`, `model-path-evaluator.mjs`) | selections on a task | narrow routes, choose a pair, fall back, record | in-memory store |
| Request signatures (`shared/contracts/request-signature.mjs`) | nonces seen | sign, verify | nobody yet but tests |
| Executors (`worker/executor`, `runtime/remote-executor`, `handlers/executor.ts`) | running scripts | check a call, run a tool within a time limit | shell scripts |
| Momentum, outcomes, analytics, compiler, MCP server, user interface | files | read, rank, format | everything above |

What is hard is mostly in the stores. KV has no transactions and no
compare-and-swap: each mutation is a read, a check and several puts with an
await between any two, from any number of isolates. The Durable Object is
atomic per request but can stop between two puts, and its callers may retry,
reorder, or never hear. The dual-write store combines the two, awaiting some
calls and not others. The archive keeps three copies with two lifetimes and two
cleaners. A machine's installation is a shell script that may be killed between
any two writes, and an execution is planned anew for every retry.
`PROJECT.json` lists each hazard with its line.

What makes each part correct:

- **Object**: a command takes effect at most once per idempotency key and every
  answer to it says the same; the log only grows and its versions are a chain;
  the record is what the log says.
- **Dual-write store**: KV shows some state of the log and is never ahead of it, and the log
  rebuilds what is served, as far as it can; a receipt names a commit and nobody is given a version
  twice; a repair catches up; in shadow mode the object holds nothing KV did not hold.
- **KV store**: the lists are the history of the record and never say what did
  not happen; whoever was answered finds it recorded; one continuation per token.
- **Task API**: a request reaches its handler; an error changed nothing, or no
  more than is known; a token
  stands for one package and one contract. **Journey**: the route is the best
  the present host can do, and nothing counts as verified on a route it was not
  looked at on.
- **Worker's other stores**: a created task is listed and its code opens it;
  nothing young is deleted, nothing acknowledged is lost and nothing old is
  listed for ever; what was published is shown.
- **Distribution**: latest is always there; what a command or a session reports
  of the installation is so.
- **Execution**: a retry never loosens and caps hold; the cheapest valid pair
  is found and every fallback could serve; the record tells what was selected.
- **Services**: a nonce is not accepted again while it is remembered; an answer
  tells what ran, and there is one; indexes and pointers of runs hang together;
  a session's skills belong to its profile.

## The modules

```
TaskLifecycle            records, transitions, findings (operators)
  TaskObject             the Durable Object
    TaskObjectRefinement TaskObject implements CommandLedger
    DualWrite            KV + a TaskObject + calls under way;  MCDualWrite
  KvOperations           what each operation of the KV store writes
    (DualWrite)
    KvTaskStore          one task's KV keys, put by put
      MCTaskStores       the object, and the KV keys
  MemoryTaskStore        the store of one process, with HandoffTokens
    TaskApi              Router + validation + handlers over it
    TaskJourney          a review over it, host after host
      MCTaskApi          both, and with MCExecution the executions below
ProjectionReconcile      lag, rebuild, repair plan (operators, used by DualWrite)
TaskIndex, Retrospectives, DashboardSnapshots       MCWorkerStores
Distribution             release job, worker, materialise.sh
  BootstrapSession       a session start on top of it;  MCDistribution
ResourcePolicy, ContextPack                         (operators)
  ExecutionPolicy        the bounded replan
ExecutionSelection       the choice of a pair and its record
RequestSignature, RemoteExecution, Observability,
CapabilityClient                                    MCServices
Selections               SelectAt: the filter of the lists of ProjectionReconcile,
                         TaskIndex, Retrospectives and Observability

theorems:  Operators_proofs (least elements, SelectAt, the types of TaskLifecycle)
             < DualWrite_proofs (the object, CommandLedger, the two writes)
             < WorkerStores_proofs (index, retrospectives, dashboard)
             < Services_proofs (remote execution, signatures, client, observability)
             < MemoryStore_proofs (TaskApi and TaskJourney)
             < Execution_proofs (ExecutionPolicy and ExecutionSelection)
           KvTaskStore_proofs, Distribution_proofs (with sessions)
```

Some MC modules hold several components that share nothing. There a behaviour
is of one of them, chosen in the initial state (`part`, `surface`), while the
others stay in theirs: the states are the sum and not the product.

**TaskLifecycle.** A task is a record of version, state, next action, progress,
route, route history and findings. Both implementations of each mutation are
there, because they differ: `TransitionPortableTaskState`,
`AppendFindingToTask` and `AppendRouteSelection` are the KV store's,
`TransitionStateLocal`, `AppendFindingLocal` and `AppendRouteSelectionLocal`
the object's. A finding is an id, a provenance status and a route. Of the
timestamps one thing is kept: whether `updated_at` came with the request or from
the object's clock (`Clocks`), because a comparison of records sees it.

**TaskObject.** Variables are the keys of the object's storage. The runtime lets no other request in
while the handler waits for storage, so a request is one step, except that it may end early:
`ApplyCommandUnanswered` commits and loses the answer or the put of meta, `PutState` takes what the
body of the request carries beside the task, any number of entries for any of the three lists and
fingerprints, and the number of writes that were done. The lists are their lengths: nothing in the
object reads an entry. The only caller sends the task alone (`NoExtra`). A key is abstract and
`SafeKey` is what sanitising makes of it, so that two keys can collide. `receipts` is a history
variable: the successful answers. `SemanticDigest` keeps of a payload what the code's replacer list
keeps, which for a finding is nothing.

**CommandLedger** is the promise without the storage: a key takes effect once,
at a version of its own, and answers are effects. `TaskObjectRefinement` maps
the log to effects and receipts to answers.

**KvOperations and DualWrite.** DualWrite extends TaskObject and adds the KV
record, requests under way and unawaited calls. One request is cut where it
awaits: KV read and write, the object's answer, the projection, the receipt.
In authoritative mode the object goes first and KV is projected, in shadow mode
KV goes first and calls to the object are put in a set from which any may be
delivered or stay for ever. `mode` is the environment variable; it is chosen
once. A repair is a process of its own with its two reads and its put. KV's
record is a single value here (KvTaskStore has the rest).

**KvTaskStore.** The keys of one task and workers that each run a request put
by put. Between any two awaits another worker may run, the put may fail, or the
isolate restart. `overlapped` remembers whether requests have run beside each
other: the properties that the code can only keep without concurrency say so in
their first line, and `TrailTellsTheTruth` has no such condition.

**MemoryTaskStore, HandoffTokens, Router, TaskApi.** The in-memory store is
synchronous, so an operation is one expression; what is stored before something
that may throw is stored there too (`HalfDone`). A creation may carry any task:
the worker checks no field of it, so that its state, version and findings are
the client's (`MemoryTasks`). `VerifyToken` and `ConsumeToken` know the
time, and the replay memory forgets what has expired. `Router` is the table of
`router.ts` in its order, and `Dispatch` the loop over it. `TaskApi` is `fetch`:
authorisation, the route, which field of a payload the validator refuses, the
mutation context, and then the handler. Only two handlers leave a request under
way at an await: a command between its context and its execution (`Resolve`,
`Execute`), a continuation between its package and the remembered fingerprint
(`Continue`, `Remember`).

**TaskJourney.** The review journey over the same store: each start or resume is
a few calls in one turn of the event loop, each a step. `Score` is the
resolver's arithmetic on whole numbers, `Contract` the effective contract of a
host with the routes it may take, `ReadinessView` what a reader is offered.

**TaskIndex.** The index value in KV, each isolate's copy with its dirty flag,
and creations and updates that flush it; short codes are keys put before the
index is. **Retrospectives.** Per id: the object in R2, the meta in KV, and the
shared index; posts, lists with pruning, and the cron job, each with its local
copy of the index. Time is two steps: `Age` makes an artifact older than the
retention, and `TtlExpires` removes the meta of an old one.
**DashboardSnapshots.** Publishers compute a snapshot and post it, one resource
after the other; a post whose connection broke stays in `posts` and is handled
later or never. `stray` marks the scopes in which that has happened, or in which
two publishers ran at once.

**Distribution and BootstrapSession.** Content is named by the version it
belongs to, so that a mixture is visible. The release job, the worker's answers
and each command of `materialise.sh` are cut between any two writes, where the
command may be interrupted (`Interrupted`: the shell runs its EXIT trap, and the
run record of a bootstrap says success) or killed without one. A fetch may be
answered 304, although the worker always sends the whole answer: a cache between
them may revalidate. `use` says which commands are run and whether a copy or
the version file can fail: properties about a plain installation say which uses
they are for. BootstrapSession runs the commands as `core.mjs` does.

**ResourcePolicy, ContextPack, ExecutionPolicy.** A layer is a function from the
keys it sets, tokens come in thousands, tiers are ranks. `Plan`, `RunAttempt` and
then one of `Succeed`, `GiveUp`, `Retry` and `Exhausted` are the loop of
`runExecutionPolicyPipeline`. **ExecutionSelection.** Every dimension is its
position in the code's order table. `ResolveSelection` narrows routes, filters and
reduces models, takes the cheapest pair and builds the fallback chain;
`Integrate`, `SelectTaskRoute` and the other mutations then share a task's versions
and snapshots. The two configured stores inject no integration function, so that
their `selectRoute` records no selection; `SelectTaskRoute` is either form.

**RequestSignature, RemoteExecution, Observability, CapabilityClient.** The
verifier's clock against the clients', and a memory that forgets nonces; a call
from the worker through binding or proxy to a server that crashes and scripts
that run on; four writes per reported run, any of which may fail while another
run is reported; a client cache and a browser cache across releases.

## The runs

Components that share nothing are checked in one run: a behaviour is of one
part, the others stay in their initial state (`part`, or `surface`, in the MC modules).

All passing runs explore their whole state space. A bound disables a step that
would exceed it; a request it stops stays under way, which is what a slow
request looks like, so no state is reached that the code cannot reach.

| Run | Instance | Shows |
|---|---|---|
| `task_stores` | object: two keys sanitised alike, every kind of command, records with and without version, bodies with and without lists, 4 versions, 3 list entries; KV: two isolates, nine requests, 4 versions, 4 list entries, three requests for the same versions may overlap | the object: types, chain, at most once, agreeing receipts, record = last commit, immutable history, refinement of CommandLedger; the KV store: the lists are the history while requests do not overlap, and stay true when they do |
| `dual_write` | authoritative: two clients, seven requests, repairs; shadow: ten requests one after the other, calls delivered in any order; 4 versions | the projection is a state of the log, which rebuilds it but for `updated_at`, receipts are true, a repair catches up; the object only holds what KV held, its log only what was acknowledged |
| `task_api` | worker: every route, two requests at once, two tokens at three times, two contracts, room for one fingerprint, tasks created well or with a finding without provenance; local: all sixteen sets of host capabilities, 8 events; executions: four skill policies under two or three machine, project and route layers each, three task states, 3 or 6 attempts; 31 registries, every contradiction-free set of facts, two floors | requests reach their handler, an error changes nothing but in the one upgrade that is left half done, tokens stand for one continuation; the route fits the host, verification is never borrowed; executions: caps, packs and retries; the cheapest pair, its fallbacks and its record |
| `worker_stores` | index: three tasks, room for two, one isolate; retrospectives: three ids, room for two, three posts, one failure; dashboard: two publishers of a scope, two resources, three snapshots | the promises of the three stores, one of them liveness |
| `distribution` | three releases of two skills, the last without one of them, a broken local build; three uses; seven environments | latest is published, commands and sessions tell the truth |
| `services` | two nonces, skew 2 and drift 3; two calls with every defect under eleven settings; four reports of three runs, room for two; two sessions over two releases | one promise per service, and that every proxied call is answered |
| `dual_write_rebuild` | violation | a served record the log does not rebuild |
| `dual_write_lost_finding` | violation | a finding acknowledged and stored nowhere |
| `task_index_lost` | violation | a created task is not listed |
| `dashboard_scope_finding` | violation | a published snapshot the dashboard is told is missing |
| `bootstrap_local_finding` | violation | a successful extraction whose installation is refused |
| `nonce_window_finding` | violation | a nonce consumed twice within the tolerance of its timestamp |

Several properties are conjunctions of named parts that a reader may check one
by one: `ProjectionIsTrue`, `ReceiptsAreTrue`, `TrailIsTheHistory`,
`TokensStandForOneContinuation`, `IndexIsTrue`, `CommandsKeepTheirWord`,
`PolicyIsKept`, `SelectionIsSound`.

Why the bounds suffice. Chain, index and receipts relate two commits at a time,
and a gap between commits needs one put-state: four versions hold the creation
and two commits around a put-state, and two keys with one sanitised form are
the smallest collision. A projection that goes backward needs two requests and
a repair, one version apart, which four versions allow after creation. A lost
update and a lost append need two isolates; a third adds another loser, not
another case. A cut-off index needs one entry more than it has room for, and
one id pushed out can come back only with a third. One failure is enough to
leave any pair of copies different; a second starts from a state the first also
reaches, except in the retrospectives, where it would delay the cleanup once
more. A fingerprint is pushed out by a second token; a journey's third host
finds what two before it left, and 8 events hold a start and two resumes with a
finding between. An overtaken snapshot needs one older and one newer of the
same resource. A mixture of releases needs two, a skill that disappears the
third. Drift greater than the skew covers every order of a timestamp and a
window's ends. In the execution, ties and dominance relate two models and the
three representatives leave one out of four, hence registries of four.

`VIEW` hides counters and lists that no guard and no property of the run reads,
`SYMMETRY` permutes clients, workers or slots, in runs without liveness only.

**Fairness.** Two places assume any. In the retrospectives, weak fairness of
starting and continuing the cron job (`BeginWalk` and `Step` of `Cron`): the
trigger in `wrangler.toml` fires every week whatever happened before, and
`index.ts` hands the job to `waitUntil`, so that a run goes on unless it dies,
which `MaxFailures` limits. In the remote execution, weak fairness of the timer
of a proxied call (`TimerRuns`): `AbortSignal.timeout` fires while the worker
waits. The bound call computes its timeout and does not use it, so nothing is
promised of it. Requests, servers and publishers are never fair: nobody has to
post, list, answer or publish. The code promises no retry of a failed
projection or lost call, so there is nothing to be fair about in DualWrite.

## What the violation runs found

1. **Lost finding** (`task-command.ts:236` and `:350`). The digest is made with
   a replacer list of top-level names, which JSON.stringify applies to nested
   objects too: all findings of a task have one digest. The default key is
   derived from it, so two clients that append different findings to one version
   send the same key, and the second is answered as a replay of the first. The
   design (lines 333 and 472-474) wants a rejection.
2. **Unlisted task** (`kv-persistence.mjs:67`). The index is read once per
   isolate and written back whole.
3. **Published and missing** (`workerContractsClient.js:10`). The client takes
   its scope from a global that nothing sets, the worker reads `unknown:unknown`,
   the publisher writes under its repository and host.
4. **Extracted and refused** (`materialise.sh:496`). `install` wants a version
   file that `extract` never writes, so a session's local path fails on a
   machine that has never fetched.
5. **Rebuilt and served** (`task-command-mutations.ts:138`). The design (lines
   554 and 624) wants a rebuild from the log to match the served record. After a
   transition or a finding it does not: no handler puts `updated_at` in the
   request context, so the object stamps its own time and KV the request's, and
   the reconciliation compares every key. `RebuiltIsServed` says that, but for
   findings and progress, nothing else differs.
6. **Consumed twice** (`request-signature.mjs:81`). `shared/contracts/README.md`
   (line 56) says that a nonce is consumed once during the accepted window,
   which is five minutes around the timestamp. The store counts its five minutes
   from the consumption, so that a request first accepted at or before the time
   of its timestamp is forgotten inside its window and accepted again.
   `AcceptancesAreApart` says what is left: never within five minutes of the
   acceptance before, and only once if the timestamp lies before the first
   arrival. Only tests call the verifier.

Met while modelling, without a run:

- *Stores.* A repair that cannot reach the object reads an empty log and reports success
  (`dual-write-task-store.ts:194`). The object does not know the transition table; KV then refuses
  the projection for good (`task-command-mutations.ts:40`). The log stores a finding as it was sent,
  KV as a ledger entry, so that a rebuild differs from what is served (`:62`). Check and put of a KV
  mutation are two operations, and two requests that expect one version both win
  (`task-store-kv.mjs:369`; `docs/CONTRACT_SPEC.md:61`). In shadow mode a command that arrives after
  its replicated record is refused (`:294`), and mutations that are no commands raise the version
  without a commit. A creation whose replication is lost leaves an object that refuses every command
  (`:263`). A route upgrade sets the route in the index and not in the record
  (`task-store-kv.mjs:359`). Two isolates may hand out one short code (`task-store-kv.mjs:101`). An
  id pushed out of a full retrospectives index leaves its object in R2 for good (`storage.ts:199`).
  The comment at `task-object.ts:324` calls the version check "logged, not blocking" and the next
  lines answer 409.
- *Task API.* A task may be created in the worker's in-memory store with a finding that has no
  provenance (`validation/tasks.ts:33-41`). A degraded upgrade of it stores record and snapshot,
  then throws while it counts the reclassified findings, and answers 400 with the version raised
  (`task-store-core.mjs:259-278`); `OnlyAnUpgradeIsHalfDone` says that nothing else is left half
  done. `taskMeta` (`handlers/tasks.ts:75-97`) counts findings by a status they carry under
  `provenance`, and the readiness handler reads `ready` where the view says `is_ready`. The
  readiness of a local task never offers a stronger route, because no contract is passed to it.
- *Distribution.* A bootstrap that is interrupted reports success, because its record is emitted by
  an EXIT trap and only a failed phase changes the status (`materialise.sh:40`, `:374-378`);
  `RunRecordIsTrue` says so. `http.ts` sends registry answers as immutable, so that a browser may
  hold them across releases; CapabilityClient shows how long. The hyphen in `ui.prompt-only` and
  `shell.long-running` is refused by `validation/capabilities.ts:12`, although
  `docs/CAPABILITY_API.md:201` says to send the supported list back; the same document claims an
  ETag the client does not send. `build.yml` has no concurrency group, so that two releases may
  interleave; the model has them one at a time.
- *Dashboard.* A failed script is published as a fresh snapshot. The refresh
  action says that the runtime "will publish a fresh snapshot shortly"
  (`dashboard.ts:175`), and nothing is recorded or sent.
- *Execution.* A route's cap is ignored where the merged layers name none
  (`resource-policy-types.mjs:239`). *Observability.* The retention settings are
  stored and enforced nowhere.

## The proofs

A theorem holds for every value of the constants that satisfies the `ASSUME` of
its module: sentinels lie outside the sets they stand beside, sequences are
sequences of the elements named, bounds are numbers. TLC evaluates each on the
instance of a run. A theorem that needs more says so as a hypothesis, and the
instance of the run with the same property satisfies it. Each invariant below
was checked by TLC before it was proved, on the instance of its run.

### The object and what is built on it

`DualWrite_proofs`, the object's part, for all keys, commands, records and
bounds:

- `InductiveInvariant` and `TypeCorrect`. None of the properties is inductive
  alone: that a key has one commit depends on the index, which has to list
  every commit, and that an action id has one commit on the chain of versions,
  because keys may be sanitised alike. `IInv` joins types, `CommitsAreChained`,
  `IndexMirrorsCommits`, `ReceiptsMatchIndex`, `UnbornIsEmpty` and
  `LastCommitIsTheTask`; one lemma per action shows that it is preserved.
- `CommitsChained`, `AtMostOnce`, `AnswersAgree`, `StateMatchesLog` and
  `ReplayFindsTheCommit` follow from it. The last says that the search of the
  replay path ends at the commit of its key.
- `ImmutableHistory` and `VersionMoves` are the action properties.
- `ImplementsLedger`: Init maps to Init, a commit to Commit, a replay to
  Answer, a put-state to Advance or a stutter, the rest to a stutter.

`Operators_proofs` has the types of the mutations, and `TransitionFindingsType`:
an upgrade keeps number and order of the findings and never makes one verified.

`DualWrite_proofs`, the composition, for any number of clients and any requests:

- `TypesOfTheComposition`. A step of the composition is, for the object, a step
  of its own or nothing, so `IInv` comes over; the types of flights, calls and
  answers are added to it (`BaseInv`). All that follows rests on it.
- `ReceiptsTrue` (authoritative) without further hypothesis. `ReceiptsInv` says
  of the flights between the object's answer and the receipt what the property
  says of receipts: the commit under their key carries their command. That two
  commands are not told one version uses `SemanticDigest`: same digest, same
  key, same commit.
- `CommitsAcknowledged` (shadow): a call to the object is made only of what was
  answered (`CallsFollowAnswers`), and its version is the one it expected plus
  one (`FlightsPromiseTheNext`).
- `RepairsCatchUp` under `CommandsOnly`: the requests are the creation and the
  migrated commands, what authoritative mode was made for. Then versions number
  the log, `commits[i]` leading from i to i + 1, and a plan ends at the truth it
  was made from.
- `ProjectionTrue` under `CommandsOnly`, `OneNewborn` and `ProgressLeftAlone`.
  The log is a history, each commit made of the state the one before left; a
  flight holds a state of that history, and KV shows one. `OneNewborn` (two
  creations ask for the same) is needed: two racing creations that differ leave
  the object with one and KV with the other. `ProgressLeftAlone` is needed
  because KV keeps the progress and the object does not; `ProjectionHistoric` is
  what remains without it. The stamps are carried along: a record differs from
  the state of the log at most in `updated_at`, and where the object stamped it,
  KV has the request's stamp until a repair copies the object's.
- `ObjectHistoric` (shadow) while requests do not overlap: KV's writes are a
  sequence in which each is made of the one before, and whatever order calls
  arrive in, the object accepts those alone that fit what it holds. Where
  requests overlap two writes of one version exist and the property fails.

`KvTaskStore_proofs`, for any number of isolates, keys, requests and tokens:
`InductiveInvariant` has one part that always holds, types and
`NothingIsMadeUp` (whatever a job, list or entry carries was once written), which
gives `NoEntryIsMadeUp` for every interleaving; and one under `~overlapped`,
`Alone`: one job at the most is under way, the records written have one version
each and the stored one is the last, the snapshots rise, and the lists the job
has done hold its entry while those to come hold nothing of its version
(`JobIsAlone`). With it `ListsTellTheHistory`, `AnswersAreRecorded` and
`TokensContinueOnce` hold, through failed puts and restarts.

### The store of one process

`MemoryStore_proofs`, for any requests, tokens, contracts and slots of the Task
API and for any hosts, findings and bounds of the journey. `StoreOK` says of
the store both times that the task is a task and the events are events, none of
which but a continuation is of a version the task has not reached; every
operation either refuses or makes the one change its lemma names (`Refuses`,
`Changes`), and no handler touches the store but through one.

- `HandoffTokensStandForOneContinuation`. `ApiInv` adds that a token has one
  `continuation_created` event and that every package has the time of that
  event (`ContinuationsOK`): the store looks the token up before it adds an
  event. For the contracts it has to look at what is under way: a fingerprint
  counts from the moment its package is made, when it is held by the request
  that will remember it (`Marked`), and unless one was pushed out or overtaken
  (`loosened`) all marks of a token bear the contract of its packages
  (`ContractsOK`).
- `NothingElseIsHalfDone`: an action property from the same lemmas, with a third
  outcome of an operation besides refusal and change, that of the upgrade which
  stores and then throws.
- `TheRouteFitsTheHost`. The resolver sorts the routes by their score and takes
  the first. The scores are bounded for whatever capabilities a host has
  (`Scores`): what a route lacks always outweighs its level, so the first is
  the strongest the host can do completely. `JourneyInv` says for each stage of
  a start or resume what its calls so far have done (`JourneyFits`), that the
  number of routes taken is one more than that of the resumes announced, and
  that no announcement is of the current version before it is made, so that
  none is taken for a repetition.
- `VerificationIsEarned`: a verified finding was verified on the route it
  names, a reused one on some route, and what is verified while on the
  strongest route was so there (`FindingsOK`); the last does not hold between
  the selection of a route and the transition of the findings, when a finding
  still stands as it did on the route before.

### The execution

`Execution_proofs`. For the record:

- `TheRecordTellsTheTruth`. `RecordInv`: the snapshot of a version lists the
  selections whose events are of a version up to it and no other, the entries
  are the identities of the selections in the order of their events.

For the selection, with any registry in which ids occur once and every
dimension has one of its three grades, any choice of routes that names none
twice (`RouteChoicesAssumption`), and any floors (`FloorsAssumption`):

- `TheSelectionIsSound`. Steps change nothing of what is asked, so the
  invariant (`SelectionInv`) only says that an answer is the resolution of it.
  The rest is about the resolution, whose loops are recursive functions: for
  any number of steps a loop has a table of its values (`LoopHasATable`), and
  what is true of the table is proved of the least entry that would fail. The
  models kept while dominated ones are dropped cost no more than those that are
  not kept (`Represents`), and so do the three representatives; the pairs are
  all pairs of a route and a model, numbered by quotient and remainder; the
  selection is the first of the cheapest; the fallbacks are a selection from
  the others, so that none occurs twice.

For the policy, with any layers the budget schema allows (`LayersAssumption`),
any task state (`TaskInputsAssumption`), any output (`OutputsAssumption`), any
signals and answers, and any number of rounds:

- `RetriesTighten`. `PolicyInv` says that the latest plan has a positive
  ceiling and a tier not below the budget's minimum, that the pack was built
  for it, and that what a retry carries over tightens it. The minimum is what
  makes the last part inductive: a downshift is held at the minimum and then at
  the maximum, and without the first it could raise a tier that was below. That
  a next plan stays within the overrides is a lemma about `Overridden`, that a
  step of a ladder tightens one about `ApplyConstraintDelta`, with a case for
  each kind of step.
- `ThePolicyIsKept`. An order lists each kind of thing in one stretch
  (`Stretch`), so that after n drops the number of each kind dropped is known
  (`StretchesAreCounted`); what is left of a list adds up to no more
  (`NewerOnesSumToLess`); when everything is dropped the pack is bare, a system
  prompt and at most one message, and two cuts bring it under any ceiling
  (`TwoCutsFit`). So a pack fits unless the compaction runs out of rounds,
  which takes a task with at least `CompactionGuard` - 1 things to drop
  (`CompactedPacksFit`), in all three modes (`BuiltPacksFit`). For the caps:
  layers merge to a layer, a route's cap lowers the one they name
  (`CapsAreNarrowed`), what a meter reads is the cost of the pack and the
  output (`MeasuredOK`), and a success violates nothing.

### The worker's other stores and services

`SelectAt` (`Operators_proofs`). `SelectAt` is a recursive function over the positions of a
list, and the filters of four modules are applications of it. There is a table
of its values (`TableExists`, `SelectAtTable`), and a claim about all entries of
the table is proved by taking the least one that fails (`LeastElement`): the
step of the induction without an induction scheme. The results are that a
filtered list embeds in the list (`SelectAtEmbeds`), that a beginning selects a
beginning (`SelectAtOfBeginning`), and `SelectAtElements`, `SelectAtLeavesOne`.

`WorkerStores_proofs`:

- Task index: `CodesName` while requests do not overlap, in any number of
  isolates; `IndexTrue` in one isolate. Both hypotheses are needed: two
  overlapping creations may take one code, and the run `task_index_lost` shows
  the second isolate. The invariant of the lists relates the isolate's copy to
  KV: when no request is under way the copy is what KV holds or not there.
- Retrospectives: `YoungReadable`. Its invariant `YoungInv` says of each job,
  by its phase, that what it holds in hand is not about to delete something
  young, and that no list in a job's hand has a young id without a summary.
  `StoredStays` adds what each post has already written.
- Dashboard: `SnapshotsStayShown`: what is in KV under a resource is at least
  as new as the last successful publication of a scope whose posts were handled
  in turn, and a key belongs to one scope and resource.

`Services_proofs`:

- `AnswersAreTrue`: the stage of the proxied call decides what the server can
  have done (`CallFits`).
- `ReplaysAreApart`: an entry is kept for the skew after its use, and a
  timestamp is fresh until the skew after it, so that the acceptances of one
  nonce are apart by the skew or more, and a second one of a request dated
  before the first finds it stale (`PastIsAcceptedOnce`).
- `SessionsFit`: whatever age a cached answer has, it is the answer of one
  release (`HangsTogether`), and a session is put together from one.
- `RunsAreTold`: which of its four writes a report has done, and that the index
  is the last reports that reached it, in their order (`InFront`, `UpTo` over
  `SelectAt`), while reports take turns.

`Distribution_proofs`, one invariant for releases, commands and sessions,
because a step of a session is a step of Distribution or ends its command:

- `LatestPublished` and `CommandsTrue` for `Spec`, `LatestPublishedWithSessions`
  and `CommandsTrueWithSessions` for `SessionSpec`. What a command says as it
  ends is not inductive: it depends on the phase it went through (`PhaseInv`),
  on the payload never being behind its ETag (`FetchInv`), on the skills a
  bootstrap has extracted so far being those of the version it then writes
  (`PackageInv`), and on the marker never being ahead of latest or of the
  package under way, so that only a marker that is behind may stand beside
  skills of several versions (`HomeInv`).
- `SessionsTrue`: `SessionInv` says for each phase of a session what its report
  says so far, and that from the end of the extraction to the end of the
  installation the whole build stays in the cache.

### Model-checked only

- `OldAreForgotten` and `EveryCallIsAnswered`, because they are liveness.
- `RequestsReachTheirHandler`: the table of routes is a constant and TLC tries
  every route in it, so a proof would only repeat the comparison of about sixty
  patterns with each other. The paths have literal segments where a pattern has
  them and an id that is none of the literals elsewhere.
- The six properties of violation runs, which the code does not have.
- What the mappings between code and model leave out (below).

## Not modelled

Texts, timestamps beyond an order and the clock of `updated_at`, evidence and
envelopes are left out. Two stamps of one version are taken to differ when they
come from different clocks. Of the tasks a client may create, those are left out
with which an operation throws before it stores anything (a version that is no
number, a state that is no text, a finding that is null); the KV models start
from well-formed tasks. One KV
operation is atomic and seen by everybody at once: Cloudflare KV is eventually
consistent, so the violations found hold all the more and the safety of the KV
modules is relative to this. KvTaskStore takes a route upgrade at the level
`equal`; TaskApi and TaskJourney have the others. Corrupt JSON is never stored,
and `generated_at` is never in the future. Tasks share one prefix for short
codes, and name slugs are left out. Signatures are right or wrong. A release is
one at a time.

Left out altogether, with the reasons in `PROJECT.json`: the momentum engine
(texts from records), evaluation candidates and proposals (files of a one-user
tool), the compiler and the other batch scripts, the MCP server's dispatch and
the dashboard's tabs (formatting of what others answer), the action matrix (a
table).

## Plan

1. *Done*: the modules above, and theorems for every safety property of the
   passing runs but `RequestsReachTheirHandler`.
2. Next: MemoryTaskStore as an abstract store that KvTaskStore with one worker
   implements; evidence and envelopes of findings; the evaluation candidates.

## Running

`tlc -config TaskStores.cfg MCTaskStores` and likewise for the other runs of
`PROJECT.json`; `tlapm DualWrite_proofs.tla` and likewise for the other seven
modules named `*_proofs`. Each takes between a few seconds and about four
minutes.
