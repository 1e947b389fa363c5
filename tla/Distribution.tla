---------------------------- MODULE Distribution ----------------------------
(***************************************************************************)
(* How skills reach a machine.  A release uploads the package of a version *)
(* to KV (upload-skills-kv.mjs), checks it (verify-skills-kv-publication)  *)
(* and deploys the worker with its registry; the worker serves the package *)
(* and the registry (handlers/artifacts.ts); adapters/claude/materialise.sh *)
(* fetches, extracts into a cache and copies the cache to ~/.claude/skills. *)
(*                                                                         *)
(* Content is named by the version it belongs to: cache.skills[s] = v says *)
(* that the cached files of s are those of release v.  Releases are made   *)
(* one at a time with rising versions; a command may be interrupted or     *)
(* killed between any two writes.                                          *)
(***************************************************************************)
EXTENDS Integers, FiniteSets

CONSTANTS
    Skills,
    Content,      \* the skills of each version, a sequence of sets
    FlawOf,       \* what is wrong with the local package of a version
    Uses          \* how the machine is used: the commands of materialise.sh that
                  \* are run, and whether a copy or the version file can fail

Versions == DOMAIN Content
None == 0

ASSUME ContentAssumption ==
    \A v \in Versions : v \in Nat \ {None} /\ Content[v] \subseteq Skills /\ Content[v] # {}

VARIABLES
    use,       \* the use this behaviour is of; never changes
    kv,        \* the packages stored in MANIFEST_KV and the one under latest
    release,   \* the release job
    deployed,  \* the version of the registry bundled in the running worker
    cache,     \* ~/.ai-config-os/cache/claude-code
    home,      \* ~/.claude/skills and its .version marker
    cmd,       \* the command that is running
    ended      \* how the last command ended

vars == <<use, kv, release, deployed, cache, home, cmd, ended>>

Idle == [name |-> "none", pc |-> "idle", got |-> None, todo |-> {}, touched |-> FALSE]

NotEnded == [name |-> "none", code |-> 0, got |-> None, report |-> "none", clean |-> TRUE]

Init ==
    /\ use \in Uses
    /\ kv = [packages |-> {}, latest |-> None]
    /\ release = [version |-> None, pc |-> "done"]
    /\ deployed = 1
    /\ cache = [skills |-> [s \in Skills |-> None], version |-> None,
                json |-> None, etag |-> None]
    /\ home = [skills |-> [s \in Skills |-> None], marker |-> None]
    /\ cmd = Idle
    /\ ended = NotEnded

----------------------------------------------------------------------------
(* The release job.                                                        *)

(* buildSkillsPackage refuses a package without skills, with an empty skill *)
(* or above the KV limit: every version here is one it accepts.            *)
BuildSkillsPackage(v) ==
    /\ release.pc \in {"done", "failed"}
    /\ v \in Versions
    /\ v = release.version + 1 \/ (release.pc = "failed" /\ v = release.version)
    /\ release' = [version |-> v, pc |-> "versioned_key"]
    /\ UNCHANGED <<kv, deployed, cache, home, cmd, ended>>

(* A mistake: the latest key is uploaded first. *)
UploadVersionedKeyLast ==
    /\ release.pc = "versioned_key"
    /\ kv' = [kv EXCEPT !.latest = release.version]
    /\ release' = [release EXCEPT !.pc = "latest_key"]
    /\ UNCHANGED <<deployed, cache, home, cmd, ended>>

(* uploadToKV: the key of the version first, latest only after it.         *)
UploadVersionedKey ==
    /\ release.pc = "versioned_key"
    /\ kv' = [kv EXCEPT !.packages = @ \cup {release.version}]
    /\ release' = [release EXCEPT !.pc = "latest_key"]
    /\ UNCHANGED <<deployed, cache, home, cmd, ended>>

UploadLatestKey ==
    /\ release.pc = "latest_key"
    /\ kv' = [kv EXCEPT !.latest = release.version]
    /\ release' = [release EXCEPT !.pc = "verify"]
    /\ UNCHANGED <<deployed, cache, home, cmd, ended>>

(* assertCloudflareUploadSucceeded throws, and the job stops where it is.  *)
UploadFails ==
    /\ release.pc \in {"versioned_key", "latest_key"}
    /\ release' = [release EXCEPT !.pc = "failed"]
    /\ UNCHANGED <<kv, deployed, cache, home, cmd, ended>>

(* verifyPublication: both keys hold the expected version.                 *)
Verified(v) == v \in kv.packages /\ kv.latest = v

VerifyPublication ==
    /\ release.pc = "verify"
    /\ release' = [release EXCEPT !.pc = IF Verified(release.version) THEN "done" ELSE "failed"]
    /\ UNCHANGED <<kv, deployed, cache, home, cmd, ended>>

(* The worker is deployed on its own, with the registry of a build.        *)
DeployWorker(v) ==
    /\ v \in Versions /\ v > deployed /\ v <= release.version
    /\ deployed' = v
    /\ UNCHANGED <<kv, release, cache, home, cmd, ended>>

----------------------------------------------------------------------------
(* What the worker answers.                                                *)

(* GET /v1/client/claude-code/package: 404 while KV is unpopulated.        *)
ClientPackage == kv.latest

(* GET /v1/client/claude-code/latest: the bundled registry, its version as *)
(* the ETag.                                                               *)
ClientLatest == deployed

----------------------------------------------------------------------------
(* The commands of materialise.sh.                                         *)

Start(name) ==
    /\ cmd = Idle /\ name \in use.commands
    /\ cmd' = [Idle EXCEPT !.name = name, !.pc = name]
    /\ ended' = NotEnded
    /\ UNCHANGED <<kv, release, deployed, cache, home>>

(* The command ends: its exit status, and for a bootstrap the run record   *)
(* that the EXIT trap emits, whose status starts as success and is changed *)
(* by the first phase that ends with an error.                             *)
End(code, status, got) ==
    /\ cmd' = Idle
    /\ ended' = [name |-> cmd.name, code |-> code, got |-> got,
                 report |-> IF cmd.name = "bootstrap" THEN status ELSE "none",
                 clean |-> ~cmd.touched]

PhaseEnd(errorCode) == IF errorCode = "none" THEN "success" ELSE "failure"

(* bootstrap: phase worker_package_fetch.                                  *)
BootstrapFetches ==
    /\ cmd.pc = "bootstrap" /\ ClientPackage # None
    /\ cmd' = [cmd EXCEPT !.pc = "extracting", !.got = ClientPackage,
                          !.todo = Content[ClientPackage]]
    /\ UNCHANGED <<kv, release, deployed, cache, home, ended>>

(* AUTH_FAILED, WORKER_PACKAGE_NOT_PUBLISHED, NETWORK_ERROR, or an answer  *)
(* without a version, INVALID_PACKAGE_RESPONSE.                            *)
BootstrapFetchFails(errorCode) ==
    /\ cmd.pc = "bootstrap"
    /\ ClientPackage = None <=> errorCode = "WORKER_PACKAGE_NOT_PUBLISHED"
    /\ UNCHANGED <<kv, release, deployed, cache, home>>
    /\ End(1, PhaseEnd(errorCode), cmd.got)

(* extract-package.mjs writes skill after skill, checking as it goes; the  *)
(* local extraction copies skill after skill too.                          *)
ExtractSkill(s) ==
    /\ cmd.pc = "extracting" /\ s \in cmd.todo
    /\ cache' = [cache EXCEPT !.skills[s] = cmd.got]
    /\ cmd' = [cmd EXCEPT !.todo = @ \ {s}, !.touched = TRUE]
    /\ UNCHANGED <<kv, release, deployed, home, ended>>

(* bootstrap: a file name is refused or a write fails: EXTRACT_FAILED, and *)
(* what was written stays.  extract has checked the names before; there    *)
(* only a copy can fail.                                                   *)
ExtractFails ==
    /\ cmd.pc = "extracting" /\ (cmd.name = "bootstrap" \/ use.writesFail)
    /\ UNCHANGED <<kv, release, deployed, cache, home>>
    /\ End(1, PhaseEnd("EXTRACT_FAILED"), cmd.got)

(* bootstrap writes the version file of the cache, then installs.          *)
BootstrapExtracted ==
    /\ cmd.pc = "extracting" /\ cmd.todo = {} /\ cmd.name = "bootstrap"
    /\ cache' = [cache EXCEPT !.version = cmd.got]
    /\ cmd' = [cmd EXCEPT !.pc = "install"]
    /\ UNCHANGED <<kv, release, deployed, home, ended>>

(* Under set -e a failed write of the version file ends the script; no     *)
(* phase has recorded an error.                                            *)
VersionFileFails ==
    /\ use.writesFail
    /\ cmd.pc = "extracting" /\ cmd.todo = {} /\ cmd.name = "bootstrap"
    /\ UNCHANGED <<kv, release, deployed, cache, home>>
    /\ End(1, PhaseEnd("none"), cmd.got)

(* extract: readPackageMetadata and validatePackageContents look at the    *)
(* whole local package before materializePackage copies the first file.    *)
ValidatePackageContents(v) == FlawOf[v] = "none"

MaterializePackage(v) ==
    /\ cmd.pc = "extract" /\ v \in Versions
    /\ \/ /\ ValidatePackageContents(v)
          /\ cmd' = [cmd EXCEPT !.pc = "extracting", !.got = v, !.todo = Content[v]]
          /\ UNCHANGED <<kv, release, deployed, cache, home, ended>>
       \/ /\ ~ValidatePackageContents(v)
          /\ UNCHANGED <<kv, release, deployed, cache, home>>
          /\ End(1, "none", cmd.got)

Materialized ==
    /\ cmd.pc = "extracting" /\ cmd.todo = {} /\ cmd.name = "extract"
    /\ UNCHANGED <<kv, release, deployed, cache, home>>
    /\ End(0, "none", cmd.got)

(* cmd_install: nothing to do when the marker names the cached version.    *)
InstallIsCurrent ==
    /\ cmd.pc = "install"
    /\ cache.version # None /\ home.marker = cache.version
    /\ UNCHANGED <<kv, release, deployed, cache, home>>
    /\ End(0, "success", cmd.got)

Cached == {s \in Skills : cache.skills[s] # None}

(* die, which inside a bootstrap ends the script before its phase_end.     *)
InstallRefused ==
    /\ cmd.pc = "install"
    /\ \/ cache.version = None
       \/ (cache.version # home.marker /\ Cached = {})
    /\ UNCHANGED <<kv, release, deployed, cache, home>>
    /\ End(1, "success", cmd.got)

(* A mistake: the marker is written before the copies. *)
InstallStartsMarked ==
    /\ cmd.pc = "install"
    /\ cache.version # None /\ home.marker # cache.version /\ Cached # {}
    /\ cmd' = [cmd EXCEPT !.pc = "installing", !.todo = Cached]
    /\ home' = [home EXCEPT !.marker = cache.version]
    /\ UNCHANGED <<kv, release, deployed, cache, ended>>

InstallStarts ==
    /\ cmd.pc = "install"
    /\ cache.version # None /\ home.marker # cache.version /\ Cached # {}
    /\ cmd' = [cmd EXCEPT !.pc = "installing", !.todo = Cached]
    /\ UNCHANGED <<kv, release, deployed, cache, home, ended>>

(* rm -rf the installed skill, then cp -r the cached one.                  *)
RemoveSkill(s) ==
    /\ cmd.pc = "installing" /\ s \in cmd.todo /\ home.skills[s] # None
    /\ home' = [home EXCEPT !.skills[s] = None]
    /\ UNCHANGED <<kv, release, deployed, cache, cmd, ended>>

CopySkill(s) ==
    /\ cmd.pc = "installing" /\ s \in cmd.todo /\ home.skills[s] = None
    /\ home' = [home EXCEPT !.skills[s] = cache.skills[s]]
    /\ cmd' = [cmd EXCEPT !.todo = @ \ {s}]
    /\ UNCHANGED <<kv, release, deployed, cache, ended>>

(* A failed copy ends the install command; inside a bootstrap, where       *)
(* cmd_install is the condition of an if, set -e is off and it is skipped. *)
CopyFails(s) ==
    /\ use.writesFail
    /\ cmd.pc = "installing" /\ s \in cmd.todo /\ home.skills[s] = None
    /\ UNCHANGED <<kv, release, deployed, cache, home>>
    /\ \/ /\ cmd.name = "bootstrap"
          /\ cmd' = [cmd EXCEPT !.todo = @ \ {s}]
          /\ UNCHANGED ended
       \/ /\ cmd.name = "install"
          /\ End(1, "none", cmd.got)

InstallDone ==
    /\ cmd.pc = "installing" /\ cmd.todo = {}
    /\ home' = [home EXCEPT !.marker = cache.version]
    /\ UNCHANGED <<kv, release, deployed, cache>>
    /\ End(0, "success", cmd.got)

(* fetch: a 304 means that the ETag still names the registry, and needs a  *)
(* cached payload.  The worker itself repeats its whole answer with ETag   *)
(* and Cache-Control (versionedCachedResponse) and leaves the 304 to a     *)
(* cache on the way, which may or may not be there.                        *)
FetchNotModified ==
    /\ cmd.pc = "fetch" /\ cache.etag # None /\ cache.etag = ClientLatest
    /\ UNCHANGED <<kv, release, deployed, cache, home>>
    /\ End(IF cache.json = None THEN 1 ELSE 0, "none", ClientLatest)

(* 401 and 403 are fatal; otherwise the last cached payload is good enough. *)
FetchFails(why) ==
    /\ cmd.pc = "fetch"
    /\ UNCHANGED <<kv, release, deployed, cache, home>>
    /\ End(IF why = "auth" \/ cache.json = None THEN 1 ELSE 0, "none", None)

FetchAnswered ==
    /\ cmd.pc = "fetch"
    /\ cmd' = [cmd EXCEPT !.pc = "move_payload", !.got = ClientLatest]
    /\ UNCHANGED <<kv, release, deployed, cache, home, ended>>

(* Three renames: the payload, the version file, the ETag last.            *)
MovePayload ==
    /\ cmd.pc = "move_payload"
    /\ cache' = [cache EXCEPT !.json = cmd.got]
    /\ cmd' = [cmd EXCEPT !.pc = "move_version"]
    /\ UNCHANGED <<kv, release, deployed, home, ended>>

MoveVersion ==
    /\ cmd.pc = "move_version"
    /\ cache' = [cache EXCEPT !.version = cmd.got]
    /\ cmd' = [cmd EXCEPT !.pc = "move_etag"]
    /\ UNCHANGED <<kv, release, deployed, home, ended>>

MoveETag ==
    /\ cmd.pc = "move_etag"
    /\ cache' = [cache EXCEPT !.etag = cmd.got]
    /\ UNCHANGED <<kv, release, deployed, home>>
    /\ End(0, "none", cmd.got)

(* Ctrl-C, or the terminal is closed: the shell dies of the signal, nothing *)
(* is undone, but it runs its EXIT trap first.  No phase has failed, so the *)
(* run record of a bootstrap says success.                                 *)
Interrupt == 130

Interrupted ==
    /\ cmd # Idle
    /\ UNCHANGED <<kv, release, deployed, cache, home>>
    /\ End(Interrupt, "success", cmd.got)

(* A kill that leaves the shell no time for its trap, or before it is set. *)
Killed ==
    /\ cmd # Idle
    /\ cmd' = Idle
    /\ ended' = NotEnded
    /\ UNCHANGED <<kv, release, deployed, cache, home>>

ReleaseStep ==
    \/ \E v \in Versions : BuildSkillsPackage(v) \/ DeployWorker(v)
    \/ UploadVersionedKey \/ UploadLatestKey \/ UploadFails \/ VerifyPublication

CommandStep ==
    \/ \E name \in {"bootstrap", "fetch", "extract", "install"} : Start(name)
    \/ BootstrapFetches
    \/ \E e \in {"AUTH_FAILED", "WORKER_PACKAGE_NOT_PUBLISHED", "NETWORK_ERROR",
                  "INVALID_PACKAGE_RESPONSE"} : BootstrapFetchFails(e)
    \/ \E s \in Skills : ExtractSkill(s) \/ RemoveSkill(s) \/ CopySkill(s)
    \/ ExtractFails \/ BootstrapExtracted
    \/ \E v \in Versions : MaterializePackage(v)
    \/ Materialized \/ InstallIsCurrent \/ InstallStarts \/ InstallDone
    \/ FetchNotModified \/ FetchAnswered \/ MovePayload \/ MoveVersion \/ MoveETag
    \/ \E why \in {"auth", "network"} : FetchFails(why)
    \/ Interrupted \/ Killed
    \/ InstallRefused \/ VersionFileFails \/ \E s \in Skills : CopyFails(s)

Next == (ReleaseStep \/ CommandStep) /\ UNCHANGED use

Spec == Init /\ [][Next]_vars

----------------------------------------------------------------------------
TypeOK ==
    /\ kv \in [packages : SUBSET Versions, latest : {None} \cup Versions]
    /\ release \in [version : {None} \cup Versions,
                    pc : {"versioned_key", "latest_key", "verify", "done", "failed"}]
    /\ deployed \in Versions
    /\ cache.skills \in [Skills -> {None} \cup Versions]
    /\ home \in [skills : [Skills -> {None} \cup Versions], marker : {None} \cup Versions]
    /\ cmd.todo \subseteq Skills

(* A use without stand-alone install and without failing writes.           *)
Orderly == "install" \notin use.commands /\ ~use.writesFail

Installed(v) == \A s \in Content[v] : home.skills[s] = v

(* At any moment, also between the two uploads of a release or after one   *)
(* of them failed, the package latest stands for is stored under its own   *)
(* version (upload-skills-kv.mjs uploads the versioned key first).         *)
LatestIsPublished == kv.latest # None => kv.latest \in kv.packages

(* A fetch that reached the worker and ended with success leaves the       *)
(* payload the worker served in the cache, also when it was answered 304   *)
(* after an earlier fetch was killed (materialise.sh renames the ETag last). *)
FetchedIsCached ==
    ended.name = "fetch" /\ ended.code = 0 /\ ended.got # None => cache.json = ended.got

(* A bootstrap that ends with success leaves every skill of the package it *)
(* fetched installed, whatever earlier bootstraps, fetches and extractions *)
(* were killed half-way.                                                   *)
BootstrapInstallsWhatItFetched ==
    Orderly /\ ended.name = "bootstrap" /\ ended.code = 0 => Installed(ended.got)

(* A run record that says failure is of a bootstrap that failed, and one of *)
(* a bootstrap that succeeded says success.  One that failed says so too,  *)
(* unless the disk is full; one that was interrupted is reported as a      *)
(* success wherever it stopped, which tells the reader of the record       *)
(* nothing about what is installed (_RUN_STATUS starts as success).        *)
RunRecordIsTrue ==
    ended.name = "bootstrap" =>
        /\ ended.report = "failure" => ended.code = 1
        /\ ended.code \in {0, Interrupt} => ended.report = "success"
        /\ ended.code = 1 /\ ~use.writesFail => ended.report = "failure"

(* extract refuses a bad local package before it touches the cache         *)
(* (validatePackageContents runs over all skills first): only one that was *)
(* interrupted, or whose copies fail, leaves a part of a package behind.   *)
RefusedPackageLeavesNoTrace ==
    ended.name = "extract" /\ ended.code = 1 /\ ~use.writesFail => ended.clean

(* What a command of materialise.sh says of the cache and the home, by the *)
(* status it ends with or the record it emits, is so.                      *)
CommandsKeepTheirWord ==
    /\ FetchedIsCached
    /\ BootstrapInstallsWhatItFetched
    /\ RunRecordIsTrue
    /\ RefusedPackageLeavesNoTrace
=============================================================================
