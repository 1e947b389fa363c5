------------------------- MODULE DashboardSnapshots -------------------------
(***************************************************************************)
(* What the dashboard shows of a machine: runtime/publish-dashboard-       *)
(* state.mjs and runtime/lib/dashboard-state-publisher.mjs compute one     *)
(* snapshot after the other and post each to the Worker, which keeps the   *)
(* last one of every resource and scope in KV (worker/src/handlers/        *)
(* dashboard.ts, read-models) until the dashboard asks for it.             *)
(*                                                                         *)
(* The content of a snapshot is the number of its computation and whether  *)
(* its script succeeded.  A scope is a repository and a machine.  A post   *)
(* whose connection breaks may still reach the Worker, at any later time.  *)
(***************************************************************************)
EXTENDS Naturals, FiniteSets, SequencesExt

CONSTANTS
    Publishers,    \* processes that publish
    ScopeOf,       \* ScopeOf[p]: its repo_id and machine_id
    Resources,     \* the resources in the order of publishAll
    Scripted,      \* those that a script computes
    ReadScopes,    \* the scopes readers ask for
    MaxSnapshots   \* bound on the snapshots computed

ASSUME DashboardAssumption ==
    /\ DOMAIN ScopeOf = Publishers
    /\ Resources \in Seq(ToSet(Resources))
    /\ Scripted \subseteq ToSet(Resources)
    /\ MaxSnapshots \in Nat

VARIABLES
    kvBound,      \* the Worker has its KV binding
    snapshotOf,   \* snapshotOf[<<r, s>>]: "dashboard:<resource>:<repo>:<machine>"
    posts,        \* posts the Worker has not handled yet
    publishers,   \* publishers[p]: where its publishAll is
    computed,     \* history: every snapshot computed
    stray,        \* history: scopes whose posts were not handled in turn
    screen        \* what has just been read, if anything

dashboardVars == <<kvBound, snapshotOf, posts, publishers, computed, stray, screen>>

Scopes == {ScopeOf[p] : p \in Publishers} \cup ReadScopes
NoSnapshot == [stamp |-> 0]
NoScreen == [kind |-> "none"]
NotPublishing == [stage |-> "idle", left |-> << >>, stamps |-> << >>, failures |-> 0]

DashboardInit ==
    /\ kvBound \in BOOLEAN
    /\ snapshotOf = [key \in ToSet(Resources) \X Scopes |-> NoSnapshot]
    /\ posts = {}
    /\ publishers = [p \in Publishers |-> NotPublishing]
    /\ computed = {}
    /\ stray = {}
    /\ screen = NoScreen

----------------------------------------------------------------------------
(* The publisher *)

Publishing(p) == publishers[p].stage \in {"compute", "await"}

Sharing(p) == {q \in Publishers \ {p} : ScopeOf[q] = ScopeOf[p]}

BeginPublish(p) ==
    /\ ~Publishing(p)
    /\ Resources # << >>
    /\ publishers' = [publishers EXCEPT ![p] = [NotPublishing EXCEPT
                         !.stage = "compute", !.left = Resources]]
    /\ stray' = IF \E q \in Sharing(p) : Publishing(q)
                THEN stray \cup {ScopeOf[p]} ELSE stray
    /\ UNCHANGED <<kvBound, snapshotOf, posts, computed>>

Snapshot(p, resource, success) ==
    [resource |-> resource, scope |-> ScopeOf[p], success |-> success,
     stamp |-> Cardinality(computed) + 1]

(* A script that fails is published like one that succeeds, and what the   *)
(* analytics cannot read they take to be empty.                            *)
ScriptOutcomes(resource) == IF resource \in Scripted THEN BOOLEAN ELSE {TRUE}

ComputeAndPost(p) ==
    LET resource == Head(publishers[p].left) IN
    /\ publishers[p].stage = "compute"
    /\ Cardinality(computed) < MaxSnapshots
    /\ \E success \in ScriptOutcomes(resource) :
          LET snapshot == Snapshot(p, resource, success) IN
          /\ computed' = computed \cup {snapshot}
          /\ posts' = posts \cup {[publisher |-> p, snapshot |-> snapshot]}
          /\ publishers' = [publishers EXCEPT ![p].stage = "await",
                               ![p].stamps = Append(@, snapshot.stamp)]
    /\ UNCHANGED <<kvBound, snapshotOf, stray>>

(* A mistake: an answer is a success, whatever it says. *)
ReceiptOfAnyAnswer(p, status) ==
    [publishers[p] EXCEPT
        !.left = Tail(@),
        !.failures = IF status = 0 THEN @ + 1 ELSE @,
        !.stage = IF Len(publishers[p].left) = 1 THEN "done" ELSE "compute"]

(* One failure does not stop the resources after it. *)
Receipt(p, status) ==
    [publishers[p] EXCEPT
        !.left = Tail(@),
        !.failures = IF status = 201 THEN @ ELSE @ + 1,
        !.stage = IF Len(publishers[p].left) = 1 THEN "done" ELSE "compute"]

Awaits(p, post) ==
    /\ publishers[p].stage = "await"
    /\ post.publisher = p
    /\ post.snapshot.stamp = Last(publishers[p].stamps)

(* The fetch throws; whether the Worker gets the post nobody knows.        *)
ConnectionBreaks(p) ==
    /\ publishers[p].stage = "await"
    /\ publishers' = [publishers EXCEPT ![p] = Receipt(p, 0)]
    /\ UNCHANGED <<kvBound, snapshotOf, posts, computed, stray>>

(* The publisher's process ends; its post may be under way. *)
PublisherDies(p) ==
    /\ Publishing(p)
    /\ publishers' = [publishers EXCEPT ![p] = NotPublishing]
    /\ UNCHANGED <<kvBound, snapshotOf, posts, computed, stray>>

ExitsWithSuccess(p) == publishers[p].stage = "done" /\ publishers[p].failures = 0

----------------------------------------------------------------------------
(* The Worker *)

SnapshotKey(resource, scope) == <<resource, scope>>

WriteSnapshot(snapshot) ==
    snapshotOf' = [snapshotOf EXCEPT
                      ![SnapshotKey(snapshot.resource, snapshot.scope)] = snapshot]

(* handlePublish: without KV 503, else the put, which may throw,           *)
(* with the snapshot stored or not.                                        *)
HandlePublish(post) ==
    \E stored \in {FALSE, kvBound} : \E told \in {FALSE, stored} :
        /\ IF stored THEN WriteSnapshot(post.snapshot) ELSE UNCHANGED snapshotOf
        /\ posts' = posts \ {post}
        /\ IF Awaits(post.publisher, post)
           THEN /\ publishers' = [publishers EXCEPT ![post.publisher] =
                      Receipt(post.publisher, IF told THEN 201
                                              ELSE IF kvBound THEN 500 ELSE 503)]
                /\ UNCHANGED stray
           ELSE /\ stray' = stray \cup {post.snapshot.scope}
                /\ UNCHANGED publishers
        /\ UNCHANGED <<kvBound, computed>>

PostIsLost(post) ==
    /\ ~Awaits(post.publisher, post)
    /\ posts' = posts \ {post}
    /\ UNCHANGED <<kvBound, snapshotOf, publishers, computed, stray>>

(* handleRead; the scope of a query is what the reader says it is.         *)
HandleRead(resource, scope) ==
    LET snapshot == snapshotOf[SnapshotKey(resource, scope)]
        shown    == kvBound /\ snapshot # NoSnapshot
    IN /\ screen' = [kind |-> IF shown THEN "shown" ELSE "missing",
                     resource |-> resource, scope |-> scope,
                     snapshot |-> IF shown THEN snapshot ELSE NoSnapshot,
                     published |-> \E p \in Publishers : ExitsWithSuccess(p)]
       /\ UNCHANGED <<kvBound, snapshotOf, posts, publishers, computed, stray>>

DashboardNext ==
    \/ /\ \/ \E p \in Publishers : \/ BeginPublish(p) \/ ComputeAndPost(p)
                                   \/ ConnectionBreaks(p) \/ PublisherDies(p)
          \/ \E post \in posts : HandlePublish(post) \/ PostIsLost(post)
       /\ screen' = NoScreen
    \/ \E r \in ToSet(Resources), s \in ReadScopes : HandleRead(r, s)

----------------------------------------------------------------------------

(* While the posts of a scope are handled in turn, a publisher that exits  *)
(* with success (publish-dashboard-state.mjs, 66-81) has every one of its  *)
(* snapshots in KV, and no reader of the scope is shown anything else or   *)
(* older, nor, whatever the order, anything of another scope.              *)
PublishedStaysShown ==
    /\ \A p \in Publishers :
          ExitsWithSuccess(p) /\ ScopeOf[p] \notin stray =>
              \A i \in DOMAIN Resources :
                  snapshotOf[SnapshotKey(Resources[i], ScopeOf[p])].stamp >=
                  publishers[p].stamps[i]
    /\ screen.kind = "shown" =>
          /\ screen.snapshot \in computed
          /\ screen.snapshot.resource = screen.resource
          /\ screen.snapshot.scope = screen.scope

(* "Skill Library and other snapshot tabs may show stale until publish     *)
(* succeeds." (ops/dashboard-start.sh:175): once a publisher has exited    *)
(* with success, the tabs no longer miss their snapshot.                   *)
PublishedIsShown == screen.kind = "missing" => ~screen.published
=============================================================================
