------------------------- MODULE Distribution_proofs -------------------------
(***************************************************************************)
(* Proofs about the release job, the commands of materialise.sh and the    *)
(* sessions that run them, for any number of releases, any contents and    *)
(* any use of the machine.  A step of a session is a step of Distribution, *)
(* or ends its command, so one invariant serves both specifications.       *)
(***************************************************************************)
EXTENDS BootstrapSession, TLAPS

ReleasePhases == {"versioned_key", "latest_key", "verify", "done", "failed"}

Phases == {"idle", "bootstrap", "fetch", "extract", "install", "extracting", "installing",
           "move_payload", "move_version", "move_etag"}

Names == {"none", "bootstrap", "fetch", "extract", "install"}

Commands == [name : Names, pc : Phases, got : Nat, todo : SUBSET Skills, touched : BOOLEAN]

TypesInv ==
    /\ kv \in [packages : SUBSET Versions, latest : {None} \cup Versions]
    /\ release \in [version : Nat, pc : ReleasePhases]
    /\ deployed \in Nat
    /\ cache \in [skills : [Skills -> Nat], version : Nat, json : Nat, etag : Nat]
    /\ home \in [skills : [Skills -> Nat], marker : Nat]
    /\ cmd \in Commands

(* The release job: what is under way is a version that was built, latest  *)
(* never goes back, and is not written before the key of the version.      *)
ReleaseInv ==
    /\ release.pc \in {"versioned_key", "latest_key", "verify"} => release.version \in Versions
    /\ release.pc = "latest_key" => release.version \in kv.packages
    /\ kv.latest <= release.version
    /\ LatestIsPublished

(* Which commands pass through which phases.  Nothing is said of a command *)
(* that has ended while another one runs.                                  *)
PhaseInv ==
    /\ cmd # Idle => ended = NotEnded /\ cmd.name \in use.commands
    /\ cmd.pc = "bootstrap" => cmd.name = "bootstrap"
    /\ cmd.pc = "extract" => cmd.name = "extract" /\ ~cmd.touched
    /\ cmd.pc = "extracting" => cmd.name \in {"bootstrap", "extract"}
    /\ cmd.pc \in {"install", "installing"} => cmd.name \in {"bootstrap", "install"}
    /\ cmd.pc \in {"fetch", "move_payload", "move_version", "move_etag"} => cmd.name = "fetch"

(* The payload is never behind its ETag, nor ahead of what is deployed, so *)
(* that an ETag that still names the registry names the payload too.       *)
FetchInv ==
    /\ cache.etag <= cache.json /\ cache.json <= deployed
    /\ cmd.pc = "move_payload" => cache.json <= cmd.got /\ cmd.got <= deployed
    /\ cmd.pc \in {"move_version", "move_etag"} => cache.json = cmd.got

Bootstrapping ==
    cmd.name = "bootstrap" /\ cmd.pc \in {"extracting", "install", "installing"}

(* Of the package a bootstrap has fetched the skills it is done with are   *)
(* in the cache, at the version it then writes beside them.                *)
PackageInv ==
    Bootstrapping =>
        /\ cmd.got \in Versions /\ cmd.got <= kv.latest
        /\ \A s \in Content[cmd.got] :
              cmd.pc # "extracting" \/ s \notin cmd.todo => cache.skills[s] = cmd.got
        /\ cmd.pc \in {"install", "installing"} => cache.version = cmd.got

(* The marker in ~/.claude/skills is never ahead of latest nor of the      *)
(* package of the bootstrap that runs; only when it is behind them may the *)
(* skills be others than those of the marker.                              *)
HomeInv ==
    Orderly =>
        /\ home.marker <= kv.latest
        /\ home.marker # None /\ home.marker = kv.latest => Installed(home.marker)
        /\ Bootstrapping =>
              /\ home.marker <= cmd.got
              /\ home.marker # None /\ home.marker = cmd.got => Installed(home.marker)
              /\ cmd.pc = "installing" =>
                    /\ home.marker # cmd.got
                    /\ \A s \in Content[cmd.got] : s \notin cmd.todo => home.skills[s] = cmd.got

DistributionInv ==
    TypesInv /\ ReleaseInv /\ PhaseInv /\ FetchInv /\ PackageInv /\ HomeInv
    /\ CommandsKeepTheirWord

LEMMA VersionNumbers ==
  \A v \in Versions : v \in Nat /\ v # None /\ Content[v] \subseteq Skills /\ Content[v] # {}
BY ContentAssumption

LEMMA LatestNumber == TypesInv => kv.latest \in Nat
BY VersionNumbers DEF TypesInv, None

LEMMA IdleCommand == Idle \in Commands /\ Idle.pc = "idle" /\ Idle.name = "none"
BY DEF Idle, Commands, Names, Phases, None

(* A release moves on.  Versions only rise, which is all the machine's     *)
(* part of the invariant depends on.                                       *)
LEMMA ReleaseMoves ==
  ASSUME DistributionInv, TypesInv', ReleaseInv', UNCHANGED <<use, cache, home, cmd, ended>>,
         kv'.latest >= kv.latest, deployed' >= deployed
  PROVE  DistributionInv'
<1>1. /\ kv.latest \in Nat /\ kv'.latest \in Nat /\ deployed \in Nat /\ deployed' \in Nat
      /\ cmd.got \in Nat /\ home.marker \in Nat /\ cache.json \in Nat
  BY LatestNumber, VersionNumbers DEF DistributionInv, TypesInv, Commands, None
<1>2. PhaseInv'
  BY DEF DistributionInv, PhaseInv
<1>3. FetchInv'
  BY <1>1 DEF DistributionInv, FetchInv
<1>4. PackageInv'
  BY <1>1 DEF DistributionInv, PackageInv, Bootstrapping
<1>5. HomeInv'
  BY <1>1 DEF DistributionInv, HomeInv, Bootstrapping, Installed, Orderly
<1>6. CommandsKeepTheirWord'
  BY DEF DistributionInv, CommandsKeepTheirWord, FetchedIsCached,
       BootstrapInstallsWhatItFetched, RunRecordIsTrue, RefusedPackageLeavesNoTrace,
       Installed, Orderly
<1>7. QED
  BY <1>2, <1>3, <1>4, <1>5, <1>6 DEF DistributionInv

LEMMA ReleaseSteps ==
  ASSUME DistributionInv, ReleaseStep, UNCHANGED use
  PROVE  DistributionInv'
<1>1. kv.latest \in Nat /\ release.version \in Nat
  BY LatestNumber DEF DistributionInv, TypesInv
<1>2. ASSUME NEW v \in Versions, BuildSkillsPackage(v) PROVE DistributionInv'
  <2>1. v \in Nat /\ v >= release.version
    BY <1>1, <1>2, VersionNumbers DEF BuildSkillsPackage
  <2>2. TypesInv'
    BY <1>2, <2>1 DEF BuildSkillsPackage, DistributionInv, TypesInv, ReleasePhases
  <2>3. ReleaseInv'
    BY <1>1, <1>2, <2>1 DEF BuildSkillsPackage, DistributionInv, ReleaseInv, LatestIsPublished
  <2>4. QED
    BY <1>1, <1>2, <2>2, <2>3, ReleaseMoves DEF BuildSkillsPackage, DistributionInv, TypesInv
<1>3. ASSUME NEW v \in Versions, DeployWorker(v) PROVE DistributionInv'
  <2>1. v \in Nat /\ deployed \in Nat /\ v > deployed
    BY <1>3, VersionNumbers DEF DeployWorker, DistributionInv, TypesInv
  <2>2. TypesInv' /\ ReleaseInv'
    BY <1>3, <2>1 DEF DeployWorker, DistributionInv, TypesInv, ReleaseInv, LatestIsPublished
  <2>3. QED
    BY <1>1, <1>3, <2>1, <2>2, ReleaseMoves DEF DeployWorker
<1>4. ASSUME UploadVersionedKey PROVE DistributionInv'
  <2>1. TypesInv'
    BY <1>4 DEF UploadVersionedKey, DistributionInv, TypesInv, ReleaseInv, ReleasePhases
  <2>2. kv'.latest = kv.latest /\ kv'.packages = kv.packages \cup {release.version}
    BY <1>4 DEF UploadVersionedKey, DistributionInv, TypesInv
  <2>3. ReleaseInv'
    BY <1>4, <2>2 DEF UploadVersionedKey, DistributionInv, TypesInv, ReleaseInv,
         LatestIsPublished
  <2>4. QED
    BY <1>1, <1>4, <2>1, <2>2, <2>3, ReleaseMoves
         DEF UploadVersionedKey, DistributionInv, TypesInv
<1>5. ASSUME UploadLatestKey PROVE DistributionInv'
  <2>1. kv'.latest = release.version /\ kv'.packages = kv.packages
        /\ release'.version = release.version /\ release'.pc = "verify"
    BY <1>5 DEF UploadLatestKey, DistributionInv, TypesInv
  <2>2. TypesInv'
    BY <1>5 DEF UploadLatestKey, DistributionInv, TypesInv, ReleaseInv, ReleasePhases
  <2>3. ReleaseInv'
    BY <1>1, <1>5, <2>1 DEF UploadLatestKey, DistributionInv, ReleaseInv, LatestIsPublished
  <2>4. QED
    BY <1>1, <1>5, <2>1, <2>2, <2>3, ReleaseMoves
         DEF UploadLatestKey, DistributionInv, TypesInv, ReleaseInv
<1>6. ASSUME UploadFails \/ VerifyPublication PROVE DistributionInv'
  <2>1. /\ UNCHANGED <<kv, deployed, cache, home, cmd, ended>>
        /\ \E pc \in {"done", "failed"} : release' = [release EXCEPT !.pc = pc]
    BY <1>6 DEF UploadFails, VerifyPublication
  <2>2. TypesInv'
    BY <2>1 DEF DistributionInv, TypesInv, ReleasePhases
  <2>3. ReleaseInv'
    BY <2>1 DEF DistributionInv, TypesInv, ReleaseInv, LatestIsPublished
  <2>4. QED
    BY <1>1, <2>1, <2>2, <2>3, ReleaseMoves DEF DistributionInv, TypesInv
<1>7. QED
  BY <1>2, <1>3, <1>4, <1>5, <1>6 DEF ReleaseStep

(* A command ends, or is ended. *)
LEMMA CommandEnds ==
  ASSUME DistributionInv, UNCHANGED <<use, kv, release, deployed, cache, home>>,
         cmd' = Idle, CommandsKeepTheirWord'
  PROVE  DistributionInv'
<1>1. TypesInv' /\ ReleaseInv'
  BY IdleCommand DEF DistributionInv, TypesInv, ReleaseInv, LatestIsPublished
<1>2. PhaseInv' /\ PackageInv'
  BY IdleCommand DEF DistributionInv, PhaseInv, PackageInv, Bootstrapping
<1>3. FetchInv'
  BY IdleCommand DEF DistributionInv, FetchInv
<1>4. HomeInv'
  BY IdleCommand DEF DistributionInv, HomeInv, Bootstrapping, Orderly, Installed
<1>5. QED
  BY <1>1, <1>2, <1>3, <1>4 DEF DistributionInv

LEMMA NothingSaid ==
  ASSUME ended' = NotEnded
  PROVE  CommandsKeepTheirWord'
BY DEF NotEnded, CommandsKeepTheirWord, FetchedIsCached,
     BootstrapInstallsWhatItFetched, RunRecordIsTrue, RefusedPackageLeavesNoTrace

(* What has to hold of a command for its end to be told as it is.          *)
LEMMA EndSays ==
  ASSUME NEW code, NEW status, NEW got, End(code, status, got), UNCHANGED use,
         cmd.name = "fetch" /\ code = 0 /\ got # None => cache'.json = got,
         Orderly /\ cmd.name = "bootstrap" /\ code = 0 =>
             \A s \in Content[got] : home'.skills[s] = got,
         cmd.name = "bootstrap" => (status = "failure" => code = 1)
                                   /\ (code \in {0, Interrupt} => status = "success")
                                   /\ (code = 1 /\ ~use.writesFail => status = "failure"),
         cmd.name = "extract" /\ code = 1 /\ ~use.writesFail => ~cmd.touched
  PROVE  CommandsKeepTheirWord'
<1>1. /\ ended'.name = cmd.name /\ ended'.code = code /\ ended'.got = got
      /\ cmd.name = "bootstrap" => ended'.report = status
  BY DEF End
<1>2. ended'.clean = ~cmd.touched
  BY Zenon DEF End
<1>3. FetchedIsCached'
  BY <1>1 DEF FetchedIsCached
<1>4. BootstrapInstallsWhatItFetched'
  BY <1>1 DEF BootstrapInstallsWhatItFetched, Orderly, Installed
<1>5. RunRecordIsTrue'
  BY <1>1 DEF RunRecordIsTrue
<1>6. RefusedPackageLeavesNoTrace'
  BY <1>1, <1>2 DEF RefusedPackageLeavesNoTrace
<1>7. QED
  BY <1>3, <1>4, <1>5, <1>6 DEF CommandsKeepTheirWord

(* A command that goes on. *)
LEMMA CommandGoesOn ==
  ASSUME DistributionInv, UNCHANGED <<use, kv, release, deployed, ended>>, cmd # Idle,
         TypesInv', PhaseInv', FetchInv', PackageInv', HomeInv'
  PROVE  DistributionInv'
<1>1. ended' = NotEnded
  BY DEF DistributionInv, PhaseInv
<1>2. ReleaseInv'
  BY DEF DistributionInv, ReleaseInv, LatestIsPublished
<1>3. QED
  BY <1>1, <1>2, NothingSaid DEF DistributionInv

LEMMA StartStep ==
  ASSUME DistributionInv, UNCHANGED use, NEW name \in Names \ {"none"}, Start(name)
  PROVE  DistributionInv'
<1>1. PICK idle \in Commands : idle = Idle
  BY IdleCommand
<1>2. cmd' = [idle EXCEPT !.name = name, !.pc = name]
  BY <1>1 DEF Start
<1>3. name \in Phases
  BY DEF Names, Phases
<1>4. cmd' \in Commands /\ cmd'.name = name /\ cmd'.pc = name /\ cmd'.touched = idle.touched
  BY <1>2, <1>3 DEF Commands
<1>5. ~idle.touched
  BY <1>1 DEF Idle
<1>6. UNCHANGED <<kv, release, deployed, cache, home>> /\ ended' = NotEnded
      /\ name \in use.commands
  BY DEF Start
<1>7. TypesInv' /\ ReleaseInv'
  BY <1>4, <1>6 DEF DistributionInv, TypesInv, ReleaseInv, LatestIsPublished
<1>8. PhaseInv'
  BY <1>4, <1>5, <1>6 DEF PhaseInv, Names
<1>9. FetchInv' /\ PackageInv'
  BY <1>4, <1>6 DEF DistributionInv, FetchInv, PackageInv, Bootstrapping, Names
<1>10. HomeInv'
  BY <1>4, <1>6 DEF DistributionInv, HomeInv, Bootstrapping, Names, Orderly, Installed
<1>11. QED
  BY <1>6, <1>7, <1>8, <1>9, <1>10, NothingSaid DEF DistributionInv

LEMMA BootstrapFetchesStep ==
  ASSUME DistributionInv, UNCHANGED use, BootstrapFetches
  PROVE  DistributionInv'
<1>1. PICK v \in Versions : v = kv.latest
  BY DEF DistributionInv, TypesInv, BootstrapFetches, ClientPackage
<1>2. PICK todo \in SUBSET Skills : todo = Content[v]
  BY VersionNumbers
<1>3. v \in Nat
  BY VersionNumbers
<1>4. cmd' = [cmd EXCEPT !.pc = "extracting", !.got = v, !.todo = todo]
  BY <1>1, <1>2 DEF BootstrapFetches, ClientPackage
<1>5. /\ UNCHANGED <<kv, release, deployed, cache, home, ended>> /\ cmd.pc = "bootstrap"
      /\ cmd # Idle
  BY IdleCommand DEF BootstrapFetches
<1>6. /\ cmd' \in Commands /\ cmd'.name = cmd.name /\ cmd'.pc = "extracting"
      /\ cmd'.got = v /\ cmd'.todo = todo
  BY <1>3, <1>4 DEF DistributionInv, TypesInv, Commands, Phases
<1>7. TypesInv'
  BY <1>5, <1>6 DEF DistributionInv, TypesInv
<1>8. PhaseInv'
  BY <1>5, <1>6 DEF DistributionInv, PhaseInv
<1>9. FetchInv' /\ PackageInv'
  BY <1>1, <1>2, <1>3, <1>5, <1>6 DEF DistributionInv, FetchInv, PackageInv, Bootstrapping
<1>10. HomeInv'
  BY <1>1, <1>5, <1>6 DEF DistributionInv, HomeInv, Bootstrapping, Orderly, Installed
<1>11. QED
  BY <1>5, <1>7, <1>8, <1>9, <1>10, CommandGoesOn

LEMMA ExtractSkillStep ==
  ASSUME DistributionInv, UNCHANGED use, NEW s \in Skills, ExtractSkill(s)
  PROVE  DistributionInv'
<1>1. PICK got \in Nat, skills \in [Skills -> Nat] : got = cmd.got /\ skills = cache.skills
  BY DEF DistributionInv, TypesInv, Commands
<1>2. PICK new : new = [skills EXCEPT ![s] = got]
  OBVIOUS
<1>3. /\ new \in [Skills -> Nat] /\ new[s] = got
      /\ \A t \in Skills : t # s => new[t] = skills[t]
  BY <1>2
<1>4. PICK todo \in SUBSET Skills : todo = cmd.todo \ {s}
  BY DEF DistributionInv, TypesInv, Commands
<1>5. cache' = [cache EXCEPT !.skills = new] /\ cmd' = [cmd EXCEPT !.todo = todo, !.touched = TRUE]
  BY <1>1, <1>2, <1>4 DEF ExtractSkill, DistributionInv, TypesInv, Commands
<1>6. /\ UNCHANGED <<kv, release, deployed, home, ended>> /\ cmd.pc = "extracting"
      /\ cmd # Idle
  BY IdleCommand DEF ExtractSkill
<1>7. /\ cmd' \in Commands /\ cmd'.name = cmd.name /\ cmd'.pc = cmd.pc
      /\ cmd'.got = got /\ cmd'.todo = todo
  BY <1>1, <1>5 DEF DistributionInv, TypesInv, Commands
<1>8. /\ cache' \in [skills : [Skills -> Nat], version : Nat, json : Nat, etag : Nat]
      /\ cache'.skills = new /\ cache'.version = cache.version
      /\ cache'.json = cache.json /\ cache'.etag = cache.etag
  BY <1>3, <1>5 DEF DistributionInv, TypesInv
<1>9. TypesInv'
  BY <1>6, <1>7, <1>8 DEF DistributionInv, TypesInv
<1>10. PhaseInv'
  BY <1>6, <1>7 DEF DistributionInv, PhaseInv
<1>11. FetchInv'
  BY <1>6, <1>7, <1>8 DEF DistributionInv, FetchInv
<1>12. PackageInv'
  <2>1. SUFFICES ASSUME Bootstrapping', NEW t \in Content[got], t \notin todo
                 PROVE  new[t] = got
    BY <1>1, <1>6, <1>7, <1>8 DEF DistributionInv, PackageInv, Bootstrapping
  <2>2. got \in Versions /\ t \in Skills
    BY <1>1, <1>6, <1>7, <2>1, VersionNumbers DEF DistributionInv, PackageInv, Bootstrapping
  <2>3. CASE t = s
    BY <1>3, <2>3
  <2>4. CASE t # s
    BY <1>1, <1>3, <1>4, <1>6, <1>7, <2>1, <2>2, <2>4
         DEF DistributionInv, PackageInv, Bootstrapping
  <2>5. QED
    BY <2>3, <2>4
<1>13. HomeInv'
  BY <1>1, <1>6, <1>7 DEF DistributionInv, HomeInv, Bootstrapping, Orderly, Installed
<1>14. QED
  BY <1>6, <1>9, <1>10, <1>11, <1>12, <1>13, CommandGoesOn

LEMMA BootstrapExtractedStep ==
  ASSUME DistributionInv, UNCHANGED use, BootstrapExtracted
  PROVE  DistributionInv'
<1>1. PICK got \in Nat : got = cmd.got
  BY DEF DistributionInv, TypesInv, Commands
<1>2. /\ cache' = [cache EXCEPT !.version = got] /\ cmd' = [cmd EXCEPT !.pc = "install"]
      /\ UNCHANGED <<kv, release, deployed, home, ended>>
      /\ cmd.pc = "extracting" /\ cmd.todo = {} /\ cmd.name = "bootstrap" /\ cmd # Idle
  BY <1>1, IdleCommand DEF BootstrapExtracted
<1>3. /\ cmd' \in Commands /\ cmd'.name = cmd.name /\ cmd'.pc = "install" /\ cmd'.got = got
  BY <1>1, <1>2 DEF DistributionInv, TypesInv, Commands, Phases
<1>4. /\ cache' \in [skills : [Skills -> Nat], version : Nat, json : Nat, etag : Nat]
      /\ cache'.skills = cache.skills /\ cache'.version = got
      /\ cache'.json = cache.json /\ cache'.etag = cache.etag
  BY <1>2 DEF DistributionInv, TypesInv
<1>5. TypesInv'
  BY <1>2, <1>3, <1>4 DEF DistributionInv, TypesInv
<1>6. PhaseInv' /\ FetchInv'
  BY <1>2, <1>3, <1>4 DEF DistributionInv, PhaseInv, FetchInv
<1>7. PackageInv'
  BY <1>1, <1>2, <1>3, <1>4 DEF DistributionInv, PackageInv, Bootstrapping
<1>8. HomeInv'
  BY <1>1, <1>2, <1>3 DEF DistributionInv, HomeInv, Bootstrapping, Orderly, Installed
<1>9. QED
  BY <1>2, <1>5, <1>6, <1>7, <1>8, CommandGoesOn

LEMMA InstallStartsStep ==
  ASSUME DistributionInv, UNCHANGED use, InstallStarts
  PROVE  DistributionInv'
<1>1. PICK todo \in SUBSET Skills : todo = Cached
  BY DEF Cached
<1>2. /\ cmd' = [cmd EXCEPT !.pc = "installing", !.todo = todo]
      /\ UNCHANGED <<kv, release, deployed, cache, home, ended>>
      /\ cmd.pc = "install" /\ cmd # Idle /\ home.marker # cache.version
  BY <1>1, IdleCommand DEF InstallStarts
<1>3. /\ cmd' \in Commands /\ cmd'.name = cmd.name /\ cmd'.pc = "installing"
      /\ cmd'.got = cmd.got /\ cmd'.todo = todo
  BY <1>2 DEF DistributionInv, TypesInv, Commands, Phases
<1>4. TypesInv' /\ PhaseInv' /\ FetchInv'
  BY <1>2, <1>3 DEF DistributionInv, TypesInv, PhaseInv, FetchInv
<1>5. PackageInv'
  BY <1>2, <1>3 DEF DistributionInv, PackageInv, Bootstrapping
<1>6. HomeInv'
  <2>1. ASSUME Bootstrapping, NEW s \in Content[cmd.got] PROVE s \in todo
    <3>1. cmd.got \in Versions /\ cache.skills[s] = cmd.got
      BY <1>2, <2>1 DEF DistributionInv, PackageInv, Bootstrapping
    <3>2. s \in Skills /\ cache.skills[s] # None
      BY <3>1, VersionNumbers
    <3>3. QED
      BY <1>1, <3>2 DEF Cached
  <2>2. Bootstrapping => cache.version = cmd.got
    BY <1>2 DEF DistributionInv, PackageInv, Bootstrapping
  <2>3. Bootstrapping' => Bootstrapping
    BY <1>2, <1>3 DEF Bootstrapping
  <2>4. QED
    BY <1>2, <1>3, <2>1, <2>2, <2>3 DEF DistributionInv, HomeInv, Orderly, Installed
<1>7. QED
  BY <1>2, <1>4, <1>5, <1>6, CommandGoesOn

(* While a bootstrap installs, the marker is behind it. *)
LEMMA InstallingIsBehind ==
  ASSUME DistributionInv, cmd.pc = "installing", Orderly
  PROVE  /\ Bootstrapping /\ cmd.got \in Versions
         /\ home.marker < cmd.got /\ cmd.got <= kv.latest
         /\ home.marker \in Nat /\ cmd.got \in Nat /\ kv.latest \in Nat
<1>1. cmd # Idle
  BY IdleCommand
<1>2. cmd.name = "bootstrap"
  BY <1>1 DEF DistributionInv, PhaseInv, Orderly
<1>3. Bootstrapping
  BY <1>2 DEF Bootstrapping
<1>4. home.marker \in Nat /\ cmd.got \in Nat /\ kv.latest \in Nat
  BY LatestNumber DEF DistributionInv, TypesInv, Commands
<1>5. home.marker <= cmd.got /\ home.marker # cmd.got
  BY <1>3 DEF DistributionInv, HomeInv
<1>6. cmd.got \in Versions /\ cmd.got <= kv.latest
  BY <1>3 DEF DistributionInv, PackageInv
<1>7. QED
  BY <1>3, <1>4, <1>5, <1>6

LEMMA RemoveSkillStep ==
  ASSUME DistributionInv, UNCHANGED use, NEW s \in Skills, RemoveSkill(s)
  PROVE  DistributionInv'
<1>1. PICK skills \in [Skills -> Nat] : skills = home.skills
  BY DEF DistributionInv, TypesInv
<1>2. PICK none \in Nat : none = None
  BY DEF None
<1>3. PICK new \in [Skills -> Nat] : new = [skills EXCEPT ![s] = none]
  OBVIOUS
<1>4. /\ home' = [home EXCEPT !.skills = new]
      /\ UNCHANGED <<kv, release, deployed, cache, cmd, ended>>
      /\ cmd.pc = "installing" /\ s \in cmd.todo /\ cmd # Idle
  BY <1>1, <1>2, <1>3, IdleCommand DEF RemoveSkill, DistributionInv, TypesInv
<1>5. /\ home' \in [skills : [Skills -> Nat], marker : Nat]
      /\ home'.skills = new /\ home'.marker = home.marker
  BY <1>3, <1>4 DEF DistributionInv, TypesInv
<1>6. TypesInv' /\ PhaseInv' /\ FetchInv' /\ PackageInv'
  BY <1>4, <1>5 DEF DistributionInv, TypesInv, PhaseInv, FetchInv, PackageInv, Bootstrapping
<1>7. HomeInv'
  <2>1. SUFFICES ASSUME Orderly
                 PROVE  /\ home.marker <= kv.latest /\ home.marker # kv.latest
                        /\ home.marker <= cmd.got /\ home.marker # cmd.got
                        /\ \A t \in Content[cmd.got] : t \notin cmd.todo => new[t] = cmd.got
    BY <1>4, <1>5 DEF HomeInv, Orderly, Bootstrapping
  <2>2. /\ Bootstrapping /\ home.marker < cmd.got /\ cmd.got <= kv.latest
        /\ home.marker \in Nat /\ cmd.got \in Nat /\ kv.latest \in Nat /\ cmd.got \in Versions
    BY <1>4, <2>1, InstallingIsBehind
  <2>3. ASSUME NEW t \in Content[cmd.got], t \notin cmd.todo PROVE new[t] = cmd.got
    <3>1. t \in Skills /\ t # s /\ skills[t] = cmd.got
      BY <1>1, <1>4, <2>1, <2>2, <2>3, VersionNumbers DEF DistributionInv, HomeInv
    <3>2. QED
      BY <1>3, <3>1
  <2>4. QED
    BY <2>2, <2>3
<1>8. QED
  BY <1>4, <1>6, <1>7, CommandGoesOn

LEMMA CopySkillStep ==
  ASSUME DistributionInv, UNCHANGED use, NEW s \in Skills, CopySkill(s)
  PROVE  DistributionInv'
<1>1. PICK skills \in [Skills -> Nat], copy \in Nat : skills = home.skills /\ copy = cache.skills[s]
  BY DEF DistributionInv, TypesInv
<1>2. PICK todo \in SUBSET Skills : todo = cmd.todo \ {s}
  BY DEF DistributionInv, TypesInv, Commands
<1>3. PICK new \in [Skills -> Nat] : new = [skills EXCEPT ![s] = copy]
  OBVIOUS
<1>4. /\ home' = [home EXCEPT !.skills = new] /\ cmd' = [cmd EXCEPT !.todo = todo]
      /\ UNCHANGED <<kv, release, deployed, cache, ended>>
      /\ cmd.pc = "installing" /\ cmd # Idle
  BY <1>1, <1>2, <1>3, IdleCommand DEF CopySkill, DistributionInv, TypesInv
<1>5. /\ home' \in [skills : [Skills -> Nat], marker : Nat]
      /\ home'.skills = new /\ home'.marker = home.marker
  BY <1>3, <1>4 DEF DistributionInv, TypesInv
<1>6. /\ cmd' \in Commands /\ cmd'.name = cmd.name /\ cmd'.pc = cmd.pc /\ cmd'.got = cmd.got
      /\ cmd'.todo = todo
  BY <1>4 DEF DistributionInv, TypesInv, Commands
<1>7. TypesInv' /\ PhaseInv' /\ FetchInv'
  BY <1>4, <1>5, <1>6 DEF DistributionInv, TypesInv, PhaseInv, FetchInv
<1>8. PackageInv'
  BY <1>4, <1>6 DEF DistributionInv, PackageInv, Bootstrapping
<1>9. HomeInv'
  <2>1. SUFFICES ASSUME Orderly
                 PROVE  /\ home.marker <= kv.latest /\ home.marker # kv.latest
                        /\ home.marker <= cmd.got /\ home.marker # cmd.got
                        /\ \A t \in Content[cmd.got] : t \notin todo => new[t] = cmd.got
    BY <1>4, <1>5, <1>6 DEF HomeInv, Orderly, Bootstrapping
  <2>2. /\ Bootstrapping /\ home.marker < cmd.got /\ cmd.got <= kv.latest
        /\ home.marker \in Nat /\ cmd.got \in Nat /\ kv.latest \in Nat /\ cmd.got \in Versions
    BY <1>4, <2>1, InstallingIsBehind
  <2>3. ASSUME NEW t \in Content[cmd.got], t \notin todo PROVE new[t] = cmd.got
    <3>1. t \in Skills
      BY <2>2, VersionNumbers
    <3>2. CASE t = s
      <4>1. cache.skills[t] = cmd.got
        BY <1>4, <2>2, <2>3 DEF DistributionInv, PackageInv
      <4>2. QED
        BY <1>1, <1>3, <3>2, <4>1
    <3>3. CASE t # s
      <4>1. skills[t] = cmd.got
        BY <1>1, <1>2, <1>4, <2>1, <2>2, <2>3, <3>3 DEF DistributionInv, HomeInv
      <4>2. QED
        BY <1>3, <3>1, <3>3, <4>1
    <3>4. QED
      BY <3>2, <3>3
  <2>4. QED
    BY <2>2, <2>3
<1>10. QED
  BY <1>4, <1>7, <1>8, <1>9, CommandGoesOn

LEMMA CopyFailsStep ==
  ASSUME DistributionInv, UNCHANGED use, NEW s \in Skills, CopyFails(s)
  PROVE  DistributionInv'
<1>1. ASSUME cmd' = [cmd EXCEPT !.todo = cmd.todo \ {s}], UNCHANGED ended PROVE DistributionInv'
  <2>1. PICK todo \in SUBSET Skills : todo = cmd.todo \ {s}
    BY DEF DistributionInv, TypesInv, Commands
  <2>2. /\ cmd' = [cmd EXCEPT !.todo = todo] /\ use.writesFail
        /\ UNCHANGED <<kv, release, deployed, cache, home, ended>>
        /\ cmd.pc = "installing" /\ cmd # Idle
    BY <1>1, <2>1, IdleCommand DEF CopyFails
  <2>3. /\ cmd' \in Commands /\ cmd'.name = cmd.name /\ cmd'.pc = cmd.pc /\ cmd'.got = cmd.got
        /\ cmd'.todo = todo
    BY <2>2 DEF DistributionInv, TypesInv, Commands
  <2>4. TypesInv' /\ PhaseInv' /\ FetchInv' /\ PackageInv'
    BY <2>2, <2>3 DEF DistributionInv, TypesInv, PhaseInv, FetchInv, PackageInv, Bootstrapping
  <2>5. HomeInv'
    BY <2>2 DEF HomeInv, Orderly
  <2>6. QED
    BY <2>2, <2>4, <2>5, CommandGoesOn
<1>2. ASSUME cmd.name = "install", End(1, "none", cmd.got) PROVE DistributionInv'
  <2>1. CommandsKeepTheirWord'
    BY <1>2, EndSays
  <2>2. cmd' = Idle /\ UNCHANGED <<kv, release, deployed, cache, home>>
    BY <1>2 DEF End, CopyFails
  <2>3. QED
    BY <2>1, <2>2, CommandEnds
<1>3. QED
  BY <1>1, <1>2 DEF CopyFails

LEMMA InstallDoneStep ==
  ASSUME DistributionInv, UNCHANGED use, InstallDone
  PROVE  DistributionInv'
<1>1. PICK version \in Nat : version = cache.version
  BY DEF DistributionInv, TypesInv
<1>2. /\ home' = [home EXCEPT !.marker = version] /\ cmd' = Idle
      /\ UNCHANGED <<kv, release, deployed, cache>>
      /\ cmd.pc = "installing" /\ cmd.todo = {} /\ End(0, "success", cmd.got)
  BY <1>1 DEF InstallDone, End
<1>3. /\ home' \in [skills : [Skills -> Nat], marker : Nat]
      /\ home'.skills = home.skills /\ home'.marker = version
  BY <1>2 DEF DistributionInv, TypesInv
<1>4. Orderly => /\ cmd.name = "bootstrap" /\ version = cmd.got /\ cmd.got <= kv.latest
                 /\ \A s \in Content[cmd.got] : home.skills[s] = cmd.got
  <2>1. ASSUME Orderly PROVE Bootstrapping
    BY <1>2, <2>1, InstallingIsBehind
  <2>2. QED
    BY <1>1, <1>2, <2>1 DEF DistributionInv, HomeInv, PackageInv, Bootstrapping
<1>5. TypesInv' /\ ReleaseInv'
  BY <1>2, <1>3, IdleCommand DEF DistributionInv, TypesInv, ReleaseInv, LatestIsPublished
<1>6. PhaseInv' /\ FetchInv' /\ PackageInv'
  BY <1>2, IdleCommand DEF DistributionInv, PhaseInv, FetchInv, PackageInv, Bootstrapping
<1>7. HomeInv'
  BY <1>2, <1>3, <1>4, IdleCommand DEF HomeInv, Orderly, Installed, Bootstrapping
<1>8. CommandsKeepTheirWord'
  <2>1. cmd.name \in {"bootstrap", "install"}
    BY <1>2 DEF DistributionInv, PhaseInv
  <2>2. QED
    BY <1>2, <1>3, <1>4, <2>1, EndSays
<1>9. QED
  BY <1>5, <1>6, <1>7, <1>8 DEF DistributionInv

LEMMA FetchAnsweredStep ==
  ASSUME DistributionInv, UNCHANGED use, FetchAnswered
  PROVE  DistributionInv'
<1>1. PICK got \in Nat : got = ClientLatest
  BY DEF ClientLatest, DistributionInv, TypesInv
<1>2. /\ cmd' = [cmd EXCEPT !.pc = "move_payload", !.got = got]
      /\ UNCHANGED <<kv, release, deployed, cache, home, ended>>
      /\ cmd.pc = "fetch" /\ cmd # Idle
  BY <1>1, IdleCommand DEF FetchAnswered
<1>3. /\ cmd' \in Commands /\ cmd'.name = cmd.name /\ cmd'.pc = "move_payload"
      /\ cmd'.got = got
  BY <1>2 DEF DistributionInv, TypesInv, Commands, Phases
<1>4. TypesInv' /\ PhaseInv' /\ PackageInv'
  BY <1>2, <1>3 DEF DistributionInv, TypesInv, PhaseInv, PackageInv, Bootstrapping
<1>5. FetchInv'
  BY <1>1, <1>2, <1>3 DEF DistributionInv, TypesInv, FetchInv, ClientLatest
<1>6. HomeInv'
  BY <1>2, <1>3 DEF DistributionInv, HomeInv, Bootstrapping, Orderly, Installed
<1>7. QED
  BY <1>2, <1>4, <1>5, <1>6, CommandGoesOn

(* The first two renames. *)
LEMMA MoveSteps ==
  ASSUME DistributionInv, UNCHANGED use, MovePayload \/ MoveVersion
  PROVE  DistributionInv'
<1>1. PICK got \in Nat : got = cmd.got
  BY DEF DistributionInv, TypesInv, Commands
<1>2. PICK pc \in {"move_version", "move_etag"} :
        /\ cmd' = [cmd EXCEPT !.pc = pc]
        /\ \/ cmd.pc = "move_payload" /\ cache' = [cache EXCEPT !.json = got]
           \/ cmd.pc = "move_version" /\ cache' = [cache EXCEPT !.version = got]
        /\ UNCHANGED <<kv, release, deployed, home, ended>>
  BY <1>1 DEF MovePayload, MoveVersion
<1>3. /\ cmd' \in Commands /\ cmd'.name = cmd.name /\ cmd'.pc = pc /\ cmd'.got = got
      /\ cmd # Idle /\ cmd.pc \in {"move_payload", "move_version"}
  BY <1>1, <1>2, IdleCommand DEF DistributionInv, TypesInv, Commands, Phases
<1>4. /\ cache' \in [skills : [Skills -> Nat], version : Nat, json : Nat, etag : Nat]
      /\ cache'.skills = cache.skills /\ cache'.etag = cache.etag
      /\ cmd.pc = "move_payload" => cache'.json = got
      /\ cmd.pc = "move_version" => cache'.json = cache.json
  BY <1>1, <1>2 DEF DistributionInv, TypesInv
<1>5. TypesInv' /\ PhaseInv' /\ PackageInv'
  BY <1>2, <1>3, <1>4 DEF DistributionInv, TypesInv, PhaseInv, PackageInv, Bootstrapping
<1>6. FetchInv'
  <2>1. cache.etag \in Nat /\ cache.json \in Nat /\ deployed \in Nat
    BY DEF DistributionInv, TypesInv
  <2>2. QED
    BY <1>1, <1>2, <1>3, <1>4, <2>1 DEF DistributionInv, FetchInv
<1>7. HomeInv'
  BY <1>2, <1>3 DEF DistributionInv, HomeInv, Bootstrapping, Orderly, Installed
<1>8. QED
  BY <1>2, <1>3, <1>5, <1>6, <1>7, CommandGoesOn

LEMMA MoveETagStep ==
  ASSUME DistributionInv, UNCHANGED use, MoveETag
  PROVE  DistributionInv'
<1>1. PICK got \in Nat : got = cmd.got
  BY DEF DistributionInv, TypesInv, Commands
<1>2. /\ cache' = [cache EXCEPT !.etag = got] /\ cmd' = Idle /\ cmd.pc = "move_etag"
      /\ UNCHANGED <<kv, release, deployed, home>> /\ End(0, "none", got)
  BY <1>1 DEF MoveETag, End
<1>3. /\ cache' \in [skills : [Skills -> Nat], version : Nat, json : Nat, etag : Nat]
      /\ cache'.json = cache.json /\ cache'.etag = got /\ cache.json = got
      /\ cmd.name = "fetch"
  BY <1>1, <1>2 DEF DistributionInv, TypesInv, FetchInv, PhaseInv
<1>4. TypesInv' /\ ReleaseInv'
  BY <1>2, <1>3, IdleCommand DEF DistributionInv, TypesInv, ReleaseInv, LatestIsPublished
<1>5. PhaseInv' /\ PackageInv'
  BY <1>2, IdleCommand DEF PhaseInv, PackageInv, Bootstrapping
<1>6. FetchInv'
  BY <1>2, <1>3, IdleCommand DEF DistributionInv, FetchInv
<1>7. HomeInv'
  BY <1>2, IdleCommand DEF DistributionInv, HomeInv, Bootstrapping, Orderly, Installed
<1>8. CommandsKeepTheirWord'
  BY <1>2, <1>3, EndSays
<1>9. QED
  BY <1>4, <1>5, <1>6, <1>7, <1>8 DEF DistributionInv

LEMMA MaterializePackageStep ==
  ASSUME DistributionInv, UNCHANGED use, NEW v \in Versions, MaterializePackage(v)
  PROVE  DistributionInv'
<1>1. ASSUME cmd' = [cmd EXCEPT !.pc = "extracting", !.got = v, !.todo = Content[v]],
             UNCHANGED <<kv, release, deployed, cache, home, ended>>
      PROVE  DistributionInv'
  <2>1. PICK todo \in SUBSET Skills : todo = Content[v]
    BY VersionNumbers
  <2>2. v \in Nat
    BY VersionNumbers
  <2>3. cmd.pc = "extract" /\ cmd # Idle /\ cmd.name = "extract"
    BY IdleCommand DEF MaterializePackage, DistributionInv, PhaseInv
  <2>4. cmd' \in Commands /\ cmd'.name = cmd.name /\ cmd'.pc = "extracting"
    BY <1>1, <2>1, <2>2 DEF DistributionInv, TypesInv, Commands, Phases
  <2>5. TypesInv' /\ PhaseInv' /\ FetchInv' /\ PackageInv'
    BY <1>1, <2>3, <2>4
         DEF DistributionInv, TypesInv, PhaseInv, FetchInv, PackageInv, Bootstrapping
  <2>6. HomeInv'
    BY <1>1, <2>3, <2>4 DEF DistributionInv, HomeInv, Bootstrapping, Orderly, Installed
  <2>7. QED
    BY <1>1, <2>3, <2>5, <2>6, CommandGoesOn
<1>2. ASSUME End(1, "none", cmd.got), UNCHANGED <<kv, release, deployed, cache, home>>
      PROVE  DistributionInv'
  <2>1. cmd.pc = "extract" /\ cmd.name = "extract" /\ ~cmd.touched
    BY DEF MaterializePackage, DistributionInv, PhaseInv
  <2>2. CommandsKeepTheirWord'
    BY <1>2, <2>1, EndSays
  <2>3. QED
    BY <1>2, <2>2, CommandEnds DEF End
<1>3. QED
  BY <1>1, <1>2 DEF MaterializePackage

(* The other ends.  An installation that a bootstrap runs is not refused:  *)
(* its version and its skills are in the cache.                            *)
LEMMA EndSteps ==
  ASSUME DistributionInv, UNCHANGED use,
         \/ \E e \in {"AUTH_FAILED", "WORKER_PACKAGE_NOT_PUBLISHED", "NETWORK_ERROR",
                      "INVALID_PACKAGE_RESPONSE"} : BootstrapFetchFails(e)
         \/ ExtractFails \/ VersionFileFails \/ Materialized
         \/ InstallIsCurrent \/ InstallRefused \/ FetchNotModified
         \/ \E why \in {"auth", "network"} : FetchFails(why)
  PROVE  DistributionInv'
<1>1. UNCHANGED <<kv, release, deployed, cache, home>> /\ cmd' = Idle
  BY DEF BootstrapFetchFails, ExtractFails, VersionFileFails, Materialized,
       InstallIsCurrent, InstallRefused, FetchNotModified, FetchFails, End
<1>2. CommandsKeepTheirWord'
  <2>1. ASSUME NEW e \in {"AUTH_FAILED", "WORKER_PACKAGE_NOT_PUBLISHED", "NETWORK_ERROR",
                          "INVALID_PACKAGE_RESPONSE"}, BootstrapFetchFails(e)
        PROVE  CommandsKeepTheirWord'
    <3>1. End(1, "failure", cmd.got) /\ cmd.name = "bootstrap"
      BY <2>1 DEF BootstrapFetchFails, PhaseEnd, DistributionInv, PhaseInv
    <3>2. QED
      BY <3>1, EndSays DEF Interrupt
  <2>2. ASSUME ExtractFails PROVE CommandsKeepTheirWord'
    <3>1. /\ End(1, "failure", cmd.got) /\ cmd.name \in {"bootstrap", "extract"}
          /\ cmd.name = "extract" => use.writesFail
      BY <2>2 DEF ExtractFails, PhaseEnd, DistributionInv, PhaseInv
    <3>2. QED
      BY <3>1, EndSays DEF Interrupt
  <2>3. ASSUME VersionFileFails PROVE CommandsKeepTheirWord'
    <3>1. End(1, "success", cmd.got) /\ cmd.name = "bootstrap" /\ use.writesFail
      BY <2>3 DEF VersionFileFails, PhaseEnd
    <3>2. QED
      BY <3>1, EndSays DEF Interrupt
  <2>4. ASSUME Materialized PROVE CommandsKeepTheirWord'
    <3>1. End(0, "none", cmd.got) /\ cmd.name = "extract"
      BY <2>4 DEF Materialized
    <3>2. QED
      BY <3>1, EndSays
  <2>5. ASSUME InstallIsCurrent PROVE CommandsKeepTheirWord'
    <3>1. /\ End(0, "success", cmd.got) /\ cmd.pc = "install" /\ cmd.name \in {"bootstrap", "install"}
          /\ cache.version # None /\ home.marker = cache.version
      BY <2>5 DEF InstallIsCurrent, DistributionInv, PhaseInv
    <3>2. Orderly /\ cmd.name = "bootstrap" => \A s \in Content[cmd.got] : home.skills[s] = cmd.got
      BY <3>1 DEF DistributionInv, PackageInv, HomeInv, Bootstrapping, Installed
    <3>3. QED
      BY <1>1, <3>1, <3>2, EndSays
  <2>6. ASSUME InstallRefused PROVE CommandsKeepTheirWord'
    <3>1. /\ End(1, "success", cmd.got) /\ cmd.pc = "install" /\ cmd.name \in {"bootstrap", "install"}
          /\ cache.version = None \/ Cached = {}
      BY <2>6 DEF InstallRefused, DistributionInv, PhaseInv
    <3>2. cmd.name # "bootstrap"
      <4>1. SUFFICES ASSUME cmd.name = "bootstrap" PROVE FALSE
        OBVIOUS
      <4>2. /\ cmd.got \in Versions /\ cache.version = cmd.got
            /\ \A s \in Content[cmd.got] : cache.skills[s] = cmd.got
        BY <3>1, <4>1 DEF DistributionInv, PackageInv, Bootstrapping
      <4>3. PICK s \in Skills : cache.skills[s] = cmd.got
        BY <4>2, VersionNumbers
      <4>4. s \in Cached /\ cache.version # None
        BY <4>2, <4>3, VersionNumbers DEF Cached
      <4>5. QED
        BY <3>1, <4>4
    <3>3. QED
      BY <3>1, <3>2, EndSays
  <2>7. ASSUME FetchNotModified PROVE CommandsKeepTheirWord'
    <3>1. PICK code : code = IF cache.json = None THEN 1 ELSE 0
      OBVIOUS
    <3>2. End(code, "none", deployed) /\ cmd.name = "fetch" /\ cache.etag = deployed
      BY <2>7, <3>1 DEF FetchNotModified, ClientLatest, DistributionInv, PhaseInv
    <3>3. cache.json = deployed
      BY <3>2 DEF DistributionInv, FetchInv, TypesInv
    <3>4. QED
      BY <1>1, <3>2, <3>3, EndSays
  <2>8. ASSUME NEW why \in {"auth", "network"}, FetchFails(why) PROVE CommandsKeepTheirWord'
    <3>1. PICK code : code = IF why = "auth" \/ cache.json = None THEN 1 ELSE 0
      OBVIOUS
    <3>2. End(code, "none", None) /\ cmd.name = "fetch"
      BY <2>8, <3>1 DEF FetchFails, DistributionInv, PhaseInv
    <3>3. CommandsKeepTheirWord'
      <4>1. /\ ended'.name = "fetch" /\ ended'.got = None
        BY <3>2 DEF End
      <4>2. QED
        BY <4>1 DEF CommandsKeepTheirWord, FetchedIsCached, BootstrapInstallsWhatItFetched,
             RunRecordIsTrue, RefusedPackageLeavesNoTrace
    <3>4. QED
      BY <3>3
  <2>9. QED
    BY <2>1, <2>2, <2>3, <2>4, <2>5, <2>6, <2>7, <2>8
<1>3. QED
  BY <1>1, <1>2, CommandEnds

(* A command that is interrupted says nothing of the cache or the home. *)
LEMMA InterruptedStep ==
  ASSUME DistributionInv, UNCHANGED <<use, kv, release, deployed, cache, home>>,
         End(Interrupt, "success", cmd.got)
  PROVE  DistributionInv'
<1>1. cmd' = Idle
  BY DEF End
<1>2. CommandsKeepTheirWord'
  BY EndSays DEF Interrupt
<1>3. QED
  BY <1>1, <1>2, CommandEnds

(* A command is killed, or its end forgotten with the session it ran in.   *)
LEMMA CommandForgotten ==
  ASSUME DistributionInv, UNCHANGED <<use, kv, release, deployed, cache, home>>,
         cmd' = Idle, ended' = NotEnded
  PROVE  DistributionInv'
BY NothingSaid, CommandEnds

LEMMA CommandSteps ==
  ASSUME DistributionInv, UNCHANGED use, CommandStep
  PROVE  DistributionInv'
<1>1. ASSUME NEW name \in {"bootstrap", "fetch", "extract", "install"}, Start(name)
      PROVE  DistributionInv'
  BY <1>1, StartStep DEF Names
<1>2. ASSUME NEW s \in Skills, ExtractSkill(s) \/ RemoveSkill(s) \/ CopySkill(s) \/ CopyFails(s)
      PROVE  DistributionInv'
  BY <1>2, ExtractSkillStep, RemoveSkillStep, CopySkillStep, CopyFailsStep
<1>3. ASSUME NEW v \in Versions, MaterializePackage(v) PROVE DistributionInv'
  BY <1>3, MaterializePackageStep
<1>4. ASSUME Interrupted \/ Killed PROVE DistributionInv'
  BY <1>4, CommandForgotten, InterruptedStep DEF Interrupted, Killed
<1>5. QED
  BY <1>1, <1>2, <1>3, <1>4, BootstrapFetchesStep, BootstrapExtractedStep, InstallStartsStep,
     InstallDoneStep, FetchAnsweredStep, MoveSteps, MoveETagStep, EndSteps DEF CommandStep

LEMMA DistributionBegins == Init => DistributionInv
<1>1. SUFFICES ASSUME Init PROVE DistributionInv
  OBVIOUS
<1>2. TypesInv
  BY <1>1, IdleCommand DEF Init, TypesInv, ReleasePhases, None
<1>3. ReleaseInv /\ FetchInv
  BY <1>1, IdleCommand DEF Init, ReleaseInv, FetchInv, LatestIsPublished, None
<1>4. PhaseInv /\ PackageInv
  BY <1>1, IdleCommand DEF Init, PhaseInv, PackageInv, Bootstrapping
<1>5. HomeInv
  BY <1>1, IdleCommand DEF Init, HomeInv, Bootstrapping, None
<1>6. CommandsKeepTheirWord
  BY <1>1 DEF Init, NotEnded, CommandsKeepTheirWord, FetchedIsCached,
       BootstrapInstallsWhatItFetched, RunRecordIsTrue, RefusedPackageLeavesNoTrace
<1>7. QED
  BY <1>2, <1>3, <1>4, <1>5, <1>6 DEF DistributionInv

LEMMA NothingMoves ==
  ASSUME DistributionInv, UNCHANGED vars
  PROVE  DistributionInv'
BY DEF vars, DistributionInv, TypesInv, ReleaseInv, PhaseInv, FetchInv, PackageInv, HomeInv,
     Bootstrapping, Orderly, Installed, LatestIsPublished, CommandsKeepTheirWord,
     FetchedIsCached, BootstrapInstallsWhatItFetched, RunRecordIsTrue,
     RefusedPackageLeavesNoTrace

THEOREM DistributionSteps ==
  ASSUME DistributionInv, [Next]_vars
  PROVE  DistributionInv'
BY ReleaseSteps, CommandSteps, NothingMoves DEF Next

(* latest always names a package that is there.                            *)
THEOREM LatestPublished == Spec => []LatestIsPublished
<1>1. DistributionInv => LatestIsPublished
  BY DEF DistributionInv, ReleaseInv
<1>2. QED
  BY <1>1, DistributionBegins, DistributionSteps, PTL DEF Spec

(* What a command says as it ends, and what it leaves behind when it       *)
(* succeeds, for any sequence of releases and commands.                    *)
THEOREM CommandsTrue == Spec => []CommandsKeepTheirWord
<1>1. DistributionInv => CommandsKeepTheirWord
  BY DEF DistributionInv
<1>2. QED
  BY <1>1, DistributionBegins, DistributionSteps, PTL DEF Spec

----------------------------------------------------------------------------
(* Sessions.                                                               *)

(* What a session that has reported no failure has to report.              *)
ResultOf(installed, source, fallback) ==
    [ok |-> TRUE, installed |-> installed, source |-> source, fallback |-> fallback,
     errors |-> IF fallback THEN <<"REMOTE_BUNDLE_FAILED">> ELSE <<>>,
     deferred |-> {}, exit |-> 0]

Running(pc, installed, source, fallbacks) ==
    \E env \in Environments, fallback \in fallbacks :
        session = [pc |-> pc, env |-> env, result |-> ResultOf(installed, source, fallback)]

Built == bundle # None /\ \A s \in Content[bundle] : cache.skills[s] = bundle

(* Between sessions no command runs, and before a session's first command  *)
(* there is nothing to report.                                             *)
RestInv ==
    /\ session.pc \in {"none", "ended", "remote", "acquire", "extract", "install", "deferred"}
    /\ session.pc \in {"none", "ended"} => ~use.sessions \/ cmd = Idle
    /\ session.pc = "none" => session = NoSession
    /\ ~use.sessions => session.pc = "none"
    /\ session.pc \in {"acquire", "deferred"} => cmd = Idle

BundleInv == bundle \in {None} \cup Versions

StartInv ==
    /\ session.pc = "remote" => Running("remote", FALSE, "noop", {FALSE})
    /\ session.pc \in {"acquire", "extract", "install"} =>
          Running(session.pc, FALSE, "noop", BOOLEAN)

(* The extraction of a session is that of its bundle, and nothing touches  *)
(* the cache between its end and the end of the installation.              *)
ExtractInv ==
    session.pc = "extract" =>
        /\ bundle \in Versions
        /\ cmd # Idle => cmd.name = "extract"
        /\ cmd.pc = "extracting" =>
              cmd.got = bundle /\ \A s \in Content[bundle] \ cmd.todo : cache.skills[s] = bundle
        /\ PhaseOk("extract") => Built

InstallInv ==
    session.pc = "install" => Built /\ (cmd # Idle => cmd.name = "install")

DeferredInv ==
    session.pc = "deferred" =>
        \/ Running("deferred", TRUE, "remote", {FALSE}) /\ PhaseOk("bootstrap")
        \/ Running("deferred", TRUE, "local", BOOLEAN) /\ PhaseOk("install") /\ Built

SessionInv ==
    BundleInv /\ RestInv /\ StartInv /\ ExtractInv /\ InstallInv /\ DeferredInv
    /\ SessionResultIsTrue

(* What a command goes on to.                                              *)
LEMMA RunningCommand ==
  ASSUME DistributionInv, CommandStep, cmd # Idle
  PROVE  /\ cmd' = Idle \/ cmd'.name = cmd.name
         /\ cmd.name = "install" => cache' = cache
         /\ cmd.name = "extract" =>
               \/ \E v \in Versions : MaterializePackage(v)
               \/ \E s \in Skills : ExtractSkill(s)
               \/ Materialized \/ ExtractFails \/ Interrupted \/ Killed
<1> USE DEF DistributionInv, PhaseInv
<1>1. cmd \in Commands
  BY DEF TypesInv
<1>2. ASSUME NEW name \in {"bootstrap", "fetch", "extract", "install"}, Start(name) PROVE FALSE
  BY <1>2 DEF Start
<1>3. CASE BootstrapFetches \/ BootstrapExtracted
  BY <1>1, <1>3 DEF BootstrapFetches, BootstrapExtracted, Commands
<1>4. CASE ExtractFails \/ VersionFileFails
           \/ \E e \in {"AUTH_FAILED", "WORKER_PACKAGE_NOT_PUBLISHED", "NETWORK_ERROR",
                        "INVALID_PACKAGE_RESPONSE"} : BootstrapFetchFails(e)
  BY <1>4 DEF ExtractFails, VersionFileFails, BootstrapFetchFails, End
<1>5. ASSUME NEW s \in Skills, ExtractSkill(s)
      PROVE  cmd'.name = cmd.name /\ cmd.name # "install"
  BY <1>1, <1>5 DEF ExtractSkill, Commands
<1>6. ASSUME NEW s \in Skills, RemoveSkill(s) \/ CopySkill(s) \/ CopyFails(s)
      PROVE  /\ cmd' = Idle \/ cmd'.name = cmd.name
             /\ cache' = cache /\ cmd.name # "extract"
  BY <1>1, <1>6 DEF RemoveSkill, CopySkill, CopyFails, End, Commands
<1>7. ASSUME NEW v \in Versions, MaterializePackage(v)
      PROVE  /\ cmd' = Idle \/ cmd'.name = cmd.name
             /\ cmd.name # "install"
  BY <1>1, <1>7 DEF MaterializePackage, End, Commands
<1>8. CASE Materialized \/ Interrupted \/ Killed
  BY <1>8 DEF Materialized, Interrupted, Killed, End
<1>9. CASE InstallIsCurrent \/ InstallRefused \/ InstallStarts \/ InstallDone
  BY <1>1, <1>9 DEF InstallIsCurrent, InstallRefused, InstallStarts, InstallDone, End, Commands
<1>10. CASE FetchNotModified \/ \E why \in {"auth", "network"} : FetchFails(why)
  BY <1>10 DEF FetchNotModified, FetchFails, End
<1>11. CASE FetchAnswered \/ MovePayload \/ MoveVersion \/ MoveETag
  BY <1>1, <1>11 DEF FetchAnswered, MovePayload, MoveVersion, MoveETag, End, Commands
<1>12. QED
  BY <1>2, <1>3, <1>4, <1>5, <1>6, <1>7, <1>8, <1>9, <1>10, <1>11 DEF CommandStep

(* Nothing that a session relies on moves.                                 *)
LEMMA SessionRests ==
  ASSUME SessionInv, UNCHANGED <<use, cmd, ended, bundle, session>>, cache'.skills = cache.skills
  PROVE  SessionInv'
BY DEF SessionInv, BundleInv, RestInv, StartInv, ExtractInv, InstallInv, DeferredInv,
     SessionResultIsTrue, HasEnded, Running, ResultOf, Built, PhaseOk

(* A step of the command a session runs, or of one that runs on its own.   *)
LEMMA CommandOfASessionStep ==
  ASSUME DistributionInv, SessionInv, CommandOfASession, UNCHANGED <<use, bundle, session>>
  PROVE  SessionInv'
<1>1. /\ session.pc \in {"none", "ended", "remote", "acquire", "extract", "install", "deferred"}
      /\ session.pc \in {"remote", "extract", "install"} \/ (session.pc = "none" /\ ~use.sessions)
      /\ session.pc # "none" => use.sessions
  BY DEF SessionInv, RestInv, CommandOfASession
<1>2. BundleInv' /\ RestInv' /\ StartInv' /\ DeferredInv' /\ SessionResultIsTrue'
  BY <1>1 DEF SessionInv, BundleInv, RestInv, StartInv, DeferredInv, SessionResultIsTrue, HasEnded, Running
<1>3. ASSUME session.pc = "extract" PROVE ExtractInv'
  <2>1. /\ bundle \in Versions /\ cmd # Idle /\ cmd.name = "extract" /\ CommandStep
        /\ cmd.pc = "extracting" =>
              cmd.got = bundle /\ \A s \in Content[bundle] \ cmd.todo : cache.skills[s] = bundle
        /\ cmd.pc = "extract" => MaterializePackage(bundle)
        /\ cmd \in Commands /\ cache.skills \in [Skills -> Nat]
    BY <1>1, <1>3 DEF SessionInv, ExtractInv, CommandOfASession, DistributionInv, TypesInv
  <2>2. ASSUME NEW v \in Versions, MaterializePackage(v) PROVE ExtractInv'
    <3>1. MaterializePackage(bundle)
      BY <2>1, <2>2 DEF MaterializePackage
    <3>2. CASE cmd' = [cmd EXCEPT !.pc = "extracting", !.got = bundle, !.todo = Content[bundle]]
               /\ UNCHANGED <<kv, release, deployed, cache, home, ended>>
      <4>1. /\ cmd'.name = "extract" /\ cmd'.got = bundle /\ cmd'.todo = Content[bundle]
            /\ cmd'.pc = "extracting" /\ ended' = NotEnded
        BY <2>1, <3>2 DEF Commands, DistributionInv, PhaseInv
      <4>2. QED
        BY <1>3, <2>1, <4>1 DEF ExtractInv, PhaseOk, NotEnded
    <3>3. CASE End(1, "none", cmd.got)
      BY <1>3, <2>1, <3>3, IdleCommand DEF ExtractInv, PhaseOk, End
    <3>4. QED
      BY <3>1, <3>2, <3>3 DEF MaterializePackage
  <2>3. ASSUME NEW s \in Skills, ExtractSkill(s) PROVE ExtractInv'
    <3>1. /\ cmd.pc = "extracting" /\ s \in cmd.todo
          /\ cache'.skills = [cache.skills EXCEPT ![s] = bundle]
          /\ cmd'.todo = cmd.todo \ {s} /\ cmd'.got = bundle /\ cmd'.name = "extract"
          /\ ended' = NotEnded
      BY <2>1, <2>3 DEF ExtractSkill, Commands, DistributionInv, PhaseInv, TypesInv
    <3>2. \A x \in Content[bundle] \ cmd'.todo : cache'.skills[x] = bundle
      BY <2>1, <3>1, VersionNumbers
    <3>3. QED
      BY <1>3, <2>1, <3>1, <3>2 DEF ExtractInv, PhaseOk, NotEnded
  <2>4. ASSUME Materialized PROVE ExtractInv'
    <3>1. Built'
      BY <2>1, <2>4, VersionNumbers DEF Materialized, Built
    <3>2. QED
      BY <1>3, <2>1, <2>4, <3>1, IdleCommand DEF Materialized, End, ExtractInv
  <2>5. ASSUME Killed PROVE ExtractInv'
    BY <1>3, <2>1, <2>5, IdleCommand DEF Killed, ExtractInv, PhaseOk, NotEnded
  <2>6. ASSUME ExtractFails \/ Interrupted PROVE ExtractInv'
    <3>1. PICK code \in {1, Interrupt} : cmd' = Idle /\ ended'.code = code
      BY <2>6 DEF ExtractFails, Interrupted, End
    <3>2. code # 0
      BY <3>1 DEF Interrupt
    <3>3. QED
      BY <1>3, <2>1, <3>1, <3>2, IdleCommand DEF ExtractInv, PhaseOk
  <2>7. QED
    BY <2>1, <2>2, <2>3, <2>4, <2>5, <2>6, RunningCommand
<1>4. ASSUME session.pc = "install" PROVE InstallInv'
  BY <1>1, <1>4, RunningCommand DEF SessionInv, InstallInv, Built, CommandOfASession
<1>5. ExtractInv' /\ InstallInv'
  BY <1>3, <1>4 DEF ExtractInv, InstallInv
<1>6. QED
  BY <1>2, <1>5 DEF SessionInv

(* The session goes on while the machine rests: only the part of the       *)
(* invariant about the phase it reaches is left to show.                   *)
LEMMA SessionReaches ==
  ASSUME NEW pc \in {"acquire", "extract", "install", "deferred"},
         SessionInv, BundleInv', session'.pc = pc, use.sessions, UNCHANGED use,
         pc \in {"acquire", "deferred"} => cmd' = Idle,
         pc # "deferred" => Running(pc, FALSE, "noop", BOOLEAN)',
         ExtractInv', InstallInv', DeferredInv'
  PROVE  SessionInv'
BY DEF SessionInv, RestInv, StartInv, SessionResultIsTrue, HasEnded

(* The session has ended: what it reports is left to show.                 *)
LEMMA SessionEnds ==
  ASSUME SessionInv, BundleInv', session'.pc = "ended", use.sessions, UNCHANGED use, cmd' = Idle,
         SessionResultIsTrue'
  PROVE  SessionInv'
BY DEF SessionInv, RestInv, StartInv, ExtractInv, InstallInv, DeferredInv

Codes == {"REMOTE_BUNDLE_FAILED", "LOCAL_BUNDLE_ACQUIRE_FAILED",
          "LOCAL_MATERIALIZE_FAILED", "INSTALL_TARGET_FAILED"}

Reports == [ok : BOOLEAN, installed : BOOLEAN, source : {"noop", "remote", "local"},
            fallback : BOOLEAN, errors : Seq(Codes), deferred : {{}}, exit : {0, 1}]

(* One error more, and what the two ways of going on make of the report.   *)
LEMMA ErrorAdded ==
  ASSUME NEW fallback \in BOOLEAN, session.result = ResultOf(FALSE, "noop", fallback),
         NEW code \in Codes, NEW told, told = WithError(code)
  PROVE  /\ told \in Reports
         /\ told.ok /\ ~told.installed /\ told.source = "noop" /\ told.fallback = fallback
         /\ told.deferred = {} /\ told.exit = 0
         /\ Last(told.errors) = code
         /\ ~fallback => told.errors = <<code>>
<1>1. PICK before : before = session.result
  OBVIOUS
<1>2. PICK reported : reported = IF fallback THEN <<"REMOTE_BUNDLE_FAILED">> ELSE << >>
  OBVIOUS
<1>3. reported \in Seq(Codes)
  <2>1. PICK remote \in Codes : remote = "REMOTE_BUNDLE_FAILED"
    BY DEF Codes
  <2>2. <<remote>> \in Seq(Codes) /\ << >> \in Seq(Codes)
    OBVIOUS
  <2>3. QED
    BY <1>2, <2>1, <2>2
<1>4. /\ before \in Reports
      /\ before.ok /\ ~before.installed /\ before.source = "noop"
      /\ before.fallback = fallback /\ before.errors = reported
      /\ before.deferred = {} /\ before.exit = 0
  <2>1. before = [ok |-> TRUE, installed |-> FALSE, source |-> "noop", fallback |-> fallback,
                  errors |-> reported, deferred |-> {}, exit |-> 0]
    BY <1>1, <1>2 DEF ResultOf
  <2>2. QED
    BY <1>3, <2>1 DEF Reports
<1>5. PICK errors : errors = Append(reported, code)
  OBVIOUS
<1>6. errors \in Seq(Codes) /\ Last(errors) = code
  BY <1>3, <1>5 DEF Last
<1>7. told = [before EXCEPT !.errors = errors]
  BY <1>1, <1>4, <1>5 DEF WithError
<1>8. ~fallback => errors = <<code>>
  BY <1>2, <1>5
<1>9. QED
  BY <1>4, <1>6, <1>7, <1>8 DEF Reports

LEMMA Failed ==
  ASSUME NEW told \in Reports, NEW end, end = [told EXCEPT !.ok = FALSE, !.exit = 1]
  PROVE  /\ ~end.ok /\ end.exit = 1 /\ end.installed = told.installed
         /\ end.deferred = {} /\ end.errors = told.errors
<1>1. PICK half : half = [told EXCEPT !.ok = FALSE]
  OBVIOUS
<1>2. /\ half \in Reports /\ ~half.ok /\ half.installed = told.installed
      /\ half.errors = told.errors
  BY <1>1 DEF Reports
<1>3. end = [half EXCEPT !.exit = 1]
  BY <1>1
<1>4. QED
  BY <1>2, <1>3 DEF Reports

LEMMA FellBack ==
  ASSUME NEW told \in Reports, told.ok, ~told.installed, told.source = "noop", told.exit = 0,
         told.errors = <<"REMOTE_BUNDLE_FAILED">>
  PROVE  [told EXCEPT !.fallback = TRUE] = ResultOf(FALSE, "noop", TRUE)
<1>1. PICK report : report = [told EXCEPT !.fallback = TRUE]
  OBVIOUS
<1>2. /\ report \in Reports /\ report.ok /\ ~report.installed /\ report.source = "noop"
      /\ report.fallback /\ report.exit = 0 /\ report.deferred = {}
      /\ report.errors = <<"REMOTE_BUNDLE_FAILED">>
  BY <1>1 DEF Reports
<1>3. report = [ok |-> TRUE, installed |-> FALSE, source |-> "noop", fallback |-> TRUE,
                errors |-> <<"REMOTE_BUNDLE_FAILED">>, deferred |-> {}, exit |-> 0]
  BY <1>2 DEF Reports
<1>4. QED
  BY <1>1, <1>3 DEF ResultOf

(* Fail: exit status 1 and one error more.                                 *)
LEMMA FailSays ==
  ASSUME SessionInv, session.pc \in {"acquire", "extract", "install"},
         NEW code, Fail(code), use.sessions, cmd = Idle, UNCHANGED <<use, cmd, ended, bundle>>,
         code \in {"LOCAL_BUNDLE_ACQUIRE_FAILED", "LOCAL_MATERIALIZE_FAILED",
                   "INSTALL_TARGET_FAILED"},
         code = "LOCAL_BUNDLE_ACQUIRE_FAILED" => bundle = None,
         code = "LOCAL_MATERIALIZE_FAILED" => ~PhaseOk("extract"),
         code = "INSTALL_TARGET_FAILED" => ~PhaseOk("install")
  PROVE  SessionInv'
<1>1. PICK fallback \in BOOLEAN : session.result = ResultOf(FALSE, "noop", fallback)
  <2>1. PICK pc : pc = session.pc
    OBVIOUS
  <2>2. PICK env \in Environments, fallback \in BOOLEAN :
           session = [pc |-> pc, env |-> env, result |-> ResultOf(FALSE, "noop", fallback)]
    BY <2>1 DEF SessionInv, StartInv, Running
  <2>3. QED
    BY <2>2
<1>2. PICK told : told = WithError(code)
  OBVIOUS
<1>3. told \in Reports /\ ~told.installed /\ Last(told.errors) = code
  BY <1>1, <1>2, ErrorAdded DEF Codes
<1>4. PICK end : end = [told EXCEPT !.ok = FALSE, !.exit = 1]
  OBVIOUS
<1>5. session' = [pc |-> "ended", result |-> end]
  BY <1>2, <1>4 DEF Fail, Ended
<1>6. session'.pc = "ended" /\ session'.result = end
  BY <1>5
<1>7. /\ ~end.ok /\ end.exit = 1 /\ ~end.installed /\ end.deferred = {}
      /\ Last(end.errors) = code
  BY <1>3, <1>4, Failed
<1>8. SessionResultIsTrue'
  BY <1>6, <1>7 DEF SessionResultIsTrue, HasEnded, PhaseOk
<1>9. BundleInv'
  BY DEF SessionInv, BundleInv
<1>10. QED
  BY <1>6, <1>8, <1>9, SessionEnds

LEMMA SessionSteps ==
  ASSUME DistributionInv, SessionInv, SessionStep, UNCHANGED use
  PROVE  SessionInv'
<1>0. BundleInv'
  BY DEF SessionStep, ExecuteBootstrap, RemoteInstalled, AcquireLocalBundle, AcquireFails,
     LocalMaterialized, TargetInstalled, StartDeferredWork, SessionKilled, BundleRemoved,
     SessionInv, BundleInv
<1>1. ASSUME NEW env \in Environments, ExecuteBootstrap(env) PROVE SessionInv'
  <2>1. PICK context : context = ResolveProviderContext(env)
    OBVIOUS
  <2>2. use.sessions /\ cmd = Idle
    BY <1>1 DEF ExecuteBootstrap
  <2>3. CASE ~context.install
    <3>1. /\ session' = [pc |-> "ended", result |-> NoResult]
          /\ UNCHANGED <<cmd, ended, cache, bundle>>
      BY <1>1, <2>1, <2>3 DEF ExecuteBootstrap
    <3>2. SessionResultIsTrue'
      BY <3>1 DEF SessionResultIsTrue, HasEnded, NoResult
    <3>3. QED
      BY <1>0, <2>2, <3>1, <3>2, SessionEnds
  <2>4. CASE context.install /\ context.remote
    <3>1. session' = [pc |-> "remote", env |-> env, result |-> NoResult]
      BY <1>1, <2>1, <2>4 DEF ExecuteBootstrap
    <3>2. Running("remote", FALSE, "noop", {FALSE})'
      BY <3>1 DEF Running, NoResult, ResultOf
    <3>3. QED
      BY <1>0, <2>2, <3>1, <3>2 DEF SessionInv, RestInv, StartInv, ExtractInv, InstallInv,
         DeferredInv, SessionResultIsTrue, HasEnded
  <2>5. CASE context.install /\ ~context.remote
    <3>1. /\ session' = [pc |-> "acquire", env |-> env, result |-> NoResult]
          /\ UNCHANGED cmd
      BY <1>1, <2>1, <2>5 DEF ExecuteBootstrap
    <3>2. Running("acquire", FALSE, "noop", BOOLEAN)'
      BY <3>1 DEF Running, NoResult, ResultOf
    <3>3. ExtractInv' /\ InstallInv' /\ DeferredInv'
      BY <3>1 DEF ExtractInv, InstallInv, DeferredInv
    <3>4. QED
      BY <1>0, <2>2, <3>1, <3>2, <3>3, SessionReaches
  <2>6. QED
    BY <2>3, <2>4, <2>5
<1>2. ASSUME RemoteInstalled PROVE SessionInv'
  <2>1. PICK env \in Environments :
           session = [pc |-> "remote", env |-> env, result |-> ResultOf(FALSE, "noop", FALSE)]
    BY <1>2 DEF RemoteInstalled, InPhase, SessionInv, StartInv, Running
  <2>2. use.sessions /\ cmd = Idle /\ UNCHANGED <<cmd, ended, cache, bundle>>
    BY <1>2 DEF RemoteInstalled, InPhase, SessionInv, RestInv
  <2>3. CASE PhaseOk("bootstrap")
    <3>1. session' = [pc |-> "deferred", env |-> env, result |-> ResultOf(TRUE, "remote", FALSE)]
      BY <1>2, <2>1, <2>3 DEF RemoteInstalled, ResultOf
    <3>2. DeferredInv' /\ ExtractInv' /\ InstallInv'
      BY <2>2, <2>3, <3>1 DEF DeferredInv, ExtractInv, InstallInv, Running, PhaseOk
    <3>3. QED
      BY <1>0, <2>2, <3>1, <3>2, SessionReaches
  <2>4. CASE ~PhaseOk("bootstrap")
    <3>1. session.result = ResultOf(FALSE, "noop", FALSE)
      BY <2>1
    <3>3. PICK told : told = WithError("REMOTE_BUNDLE_FAILED")
      OBVIOUS
    <3>4. /\ told \in Reports /\ told.ok /\ ~told.installed /\ told.source = "noop"
          /\ told.exit = 0 /\ told.errors = <<"REMOTE_BUNDLE_FAILED">>
      BY <3>1, <3>3, ErrorAdded DEF Codes
    <3>5. [told EXCEPT !.fallback = TRUE] = ResultOf(FALSE, "noop", TRUE)
      BY <3>4, FellBack
    <3>6. session' = [session EXCEPT !.pc = "acquire",
                        !.result = [told EXCEPT !.fallback = TRUE]]
      BY <1>2, <2>4, <3>3 DEF RemoteInstalled
    <3>7. session' = [pc |-> "acquire", env |-> env, result |-> ResultOf(FALSE, "noop", TRUE)]
      <4>1. PICK report : report = [told EXCEPT !.fallback = TRUE]
        OBVIOUS
      <4>2. session' = [session EXCEPT !.pc = "acquire", !.result = report]
        BY <3>6, <4>1
      <4>3. session' = [pc |-> "acquire", env |-> env, result |-> report]
        BY <2>1, <4>2
      <4>4. QED
        BY <3>5, <4>1, <4>3
    <3>8. Running("acquire", FALSE, "noop", BOOLEAN)'
      BY <3>7 DEF Running
    <3>9. ExtractInv' /\ InstallInv' /\ DeferredInv'
      BY <3>7 DEF ExtractInv, InstallInv, DeferredInv
    <3>10. QED
      BY <1>0, <2>2, <3>7, <3>8, <3>9, SessionReaches
  <2>5. QED
    BY <2>3, <2>4
<1>3. ASSUME NEW v \in Versions, AcquireLocalBundle(v) PROVE SessionInv'
  <2>1. PICK env \in Environments, fallback \in BOOLEAN :
           session = [pc |-> "acquire", env |-> env, result |-> ResultOf(FALSE, "noop", fallback)]
    BY <1>3 DEF AcquireLocalBundle, InPhase, SessionInv, StartInv, Running
  <2>2. /\ use.sessions /\ Start("extract")
        /\ session' = [pc |-> "extract", env |-> env, result |-> ResultOf(FALSE, "noop", fallback)]
    BY <1>3, <2>1 DEF AcquireLocalBundle, Started, InPhase, SessionInv, RestInv
  <2>3. bundle' \in Versions
    BY <1>3 DEF AcquireLocalBundle, SessionInv, BundleInv
  <2>4. cmd'.name = "extract" /\ cmd'.pc = "extract" /\ ended'.name = "none"
    BY <2>2, IdleCommand DEF Start, Idle, NotEnded
  <2>5. ExtractInv' /\ InstallInv' /\ DeferredInv'
    BY <2>2, <2>3, <2>4 DEF ExtractInv, InstallInv, DeferredInv, PhaseOk
  <2>6. Running("extract", FALSE, "noop", BOOLEAN)'
    BY <2>2 DEF Running
  <2>7. QED
    BY <1>0, <2>2, <2>5, <2>6, SessionReaches
<1>4. ASSUME AcquireFails PROVE SessionInv'
  BY <1>4, FailSays DEF AcquireFails, InPhase, SessionInv, RestInv
<1>5. ASSUME LocalMaterialized PROVE SessionInv'
  <2>1. use.sessions /\ cmd = Idle /\ session.pc = "extract" /\ UNCHANGED bundle
    BY <1>5 DEF LocalMaterialized, InPhase, SessionInv, RestInv
  <2>2. CASE PhaseOk("extract")
    <3>1. PICK env \in Environments, fallback \in BOOLEAN :
             session = [pc |-> "extract", env |-> env,
                        result |-> ResultOf(FALSE, "noop", fallback)]
      BY <2>1 DEF SessionInv, StartInv, Running
    <3>2. /\ session' = [pc |-> "install", env |-> env,
                         result |-> ResultOf(FALSE, "noop", fallback)]
          /\ Start("install")
      BY <1>5, <2>2, <3>1 DEF LocalMaterialized, Started
    <3>3. cmd'.name = "install" /\ UNCHANGED cache
      BY <3>2 DEF Start, Idle
    <3>4. Built
      BY <2>1, <2>2 DEF SessionInv, ExtractInv
    <3>5. ExtractInv' /\ InstallInv' /\ DeferredInv'
      BY <2>1, <3>2, <3>3, <3>4 DEF ExtractInv, InstallInv, DeferredInv, Built
    <3>6. Running("install", FALSE, "noop", BOOLEAN)'
      BY <3>2 DEF Running
    <3>7. QED
      BY <1>0, <2>1, <3>2, <3>5, <3>6, SessionReaches
  <2>3. CASE ~PhaseOk("extract")
    BY <1>5, <2>1, <2>3, FailSays DEF LocalMaterialized
  <2>4. QED
    BY <2>2, <2>3
<1>6. ASSUME TargetInstalled PROVE SessionInv'
  <2>1. /\ use.sessions /\ cmd = Idle /\ session.pc = "install" /\ Built
        /\ UNCHANGED <<cmd, ended, cache, bundle>>
    BY <1>6 DEF TargetInstalled, InPhase, SessionInv, RestInv, InstallInv
  <2>2. CASE PhaseOk("install")
    <3>1. PICK env \in Environments, fallback \in BOOLEAN :
             session = [pc |-> "install", env |-> env,
                        result |-> ResultOf(FALSE, "noop", fallback)]
      BY <2>1 DEF SessionInv, StartInv, Running
    <3>2. session' = [pc |-> "deferred", env |-> env, result |-> ResultOf(TRUE, "local", fallback)]
      BY <1>6, <2>2, <3>1 DEF TargetInstalled, ResultOf
    <3>3. Running("deferred", TRUE, "local", BOOLEAN)'
      BY <3>2 DEF Running
    <3>4. ExtractInv' /\ InstallInv' /\ DeferredInv'
      BY <2>1, <2>2, <3>2, <3>3 DEF ExtractInv, InstallInv, DeferredInv, Built, PhaseOk
    <3>5. QED
      BY <1>0, <2>1, <3>2, <3>4, SessionReaches
  <2>3. CASE ~PhaseOk("install")
    BY <1>6, <2>1, <2>3, FailSays DEF TargetInstalled
  <2>4. QED
    BY <2>2, <2>3
<1>7. ASSUME StartDeferredWork PROVE SessionInv'
  <2>1. /\ use.sessions /\ cmd = Idle /\ session.pc = "deferred" /\ DeferredInv
        /\ UNCHANGED <<cmd, ended, cache, bundle>>
    BY <1>7 DEF StartDeferredWork, InPhase, SessionInv, RestInv
  <2>2. PICK jobs : session' = [pc |-> "ended",
                                result |-> [session.result EXCEPT !.deferred = jobs]]
    BY <1>7 DEF StartDeferredWork, Ended
  <2>3. CASE Running("deferred", TRUE, "remote", {FALSE}) /\ PhaseOk("bootstrap")
    <3>1. session.result = ResultOf(TRUE, "remote", FALSE)
      BY <2>3 DEF Running
    <3>2. SessionResultIsTrue'
      BY <2>1, <2>2, <2>3, <3>1 DEF ResultOf, SessionResultIsTrue, HasEnded, PhaseOk
    <3>3. QED
      BY <1>0, <2>1, <2>2, <3>2, SessionEnds
  <2>4. CASE Running("deferred", TRUE, "local", BOOLEAN) /\ PhaseOk("install") /\ Built
    <3>1. PICK env \in Environments, fallback \in BOOLEAN :
             session = [pc |-> "deferred", env |-> env,
                        result |-> ResultOf(TRUE, "local", fallback)]
      BY <2>4 DEF Running
    <3>2. SessionResultIsTrue'
      BY <2>1, <2>2, <2>4, <3>1 DEF ResultOf, SessionResultIsTrue, HasEnded, PhaseOk, Built
    <3>3. QED
      BY <1>0, <2>1, <2>2, <3>2, SessionEnds
  <2>5. QED
    BY <2>1, <2>3, <2>4 DEF DeferredInv
<1>8. ASSUME SessionKilled \/ BundleRemoved PROVE SessionInv'
  <2>1. /\ session' = NoSession /\ cmd' = Idle
    BY <1>8 DEF SessionKilled, BundleRemoved, SessionInv, RestInv, End
  <2>2. QED
    BY <1>0, <2>1 DEF NoSession, SessionInv, RestInv, StartInv, ExtractInv, InstallInv, DeferredInv,
       SessionResultIsTrue, HasEnded
<1>9. QED
  BY <1>1, <1>2, <1>3, <1>4, <1>5, <1>6, <1>7, <1>8 DEF SessionStep

LEMMA SessionBegins == SessionInit => DistributionInv /\ SessionInv
<1>1. SUFFICES ASSUME SessionInit PROVE SessionInv
  BY DistributionBegins DEF SessionInit
<1>2. session = NoSession /\ cmd = Idle /\ bundle = None
  BY <1>1 DEF SessionInit, Init
<1>3. QED
  BY <1>2 DEF NoSession, SessionInv, BundleInv, RestInv, StartInv, ExtractInv, InstallInv,
     DeferredInv, SessionResultIsTrue, HasEnded

(* A step of a session is a step of Distribution, or forgets its command.  *)
LEMMA SessionStepsDistribution ==
  ASSUME DistributionInv, SessionStep, UNCHANGED use
  PROVE  DistributionInv'
<1>1. CASE SessionKilled
  BY <1>1, CommandForgotten, InterruptedStep DEF SessionKilled
<1>2. CASE UNCHANGED vars
  BY <1>2, NothingMoves
<1>3. ASSUME NEW name \in {"bootstrap", "extract", "install"}, Start(name) PROVE DistributionInv'
  BY <1>3, CommandSteps DEF CommandStep
<1>4. CASE \E env \in Environments : ExecuteBootstrap(env)
  BY <1>2, <1>3, <1>4 DEF ExecuteBootstrap, vars
<1>5. CASE RemoteInstalled \/ AcquireFails \/ TargetInstalled \/ StartDeferredWork \/ BundleRemoved
  BY <1>2, <1>5 DEF RemoteInstalled, AcquireFails, TargetInstalled, StartDeferredWork,
     BundleRemoved, vars
<1>6. CASE LocalMaterialized \/ \E v \in Versions : AcquireLocalBundle(v)
  BY <1>2, <1>3, <1>6 DEF LocalMaterialized, AcquireLocalBundle, vars
<1>7. QED
  BY <1>1, <1>4, <1>5, <1>6 DEF SessionStep

LEMMA SessionNextSteps ==
  ASSUME DistributionInv, SessionInv, [SessionNext]_<<vars, sessionVars>>
  PROVE  DistributionInv' /\ SessionInv'
<1>1. CASE UNCHANGED <<vars, sessionVars>>
  BY <1>1, NothingMoves, SessionRests DEF vars, sessionVars
<1>2. CASE SessionStep /\ UNCHANGED use
  BY <1>2, SessionSteps, SessionStepsDistribution
<1>3. CASE ReleaseStep /\ UNCHANGED sessionVars /\ UNCHANGED use
  <2>1. DistributionInv'
    BY <1>3, ReleaseSteps
  <2>2. UNCHANGED <<cache, cmd, ended, bundle, session>>
    BY <1>3 DEF ReleaseStep, BuildSkillsPackage, DeployWorker, UploadVersionedKey,
       UploadLatestKey, UploadFails, VerifyPublication, sessionVars
  <2>3. QED
    BY <1>3, <2>1, <2>2, SessionRests
<1>4. CASE CommandOfASession /\ UNCHANGED sessionVars /\ UNCHANGED use
  BY <1>4, CommandSteps, CommandOfASessionStep DEF CommandOfASession, sessionVars
<1>5. QED
  BY <1>1, <1>2, <1>3, <1>4 DEF SessionNext

(* The same two properties when sessions run the commands, for any set of  *)
(* environments, and what a session reports.                               *)
THEOREM LatestPublishedWithSessions == SessionSpec => []LatestIsPublished
<1>1. DistributionInv => LatestIsPublished
  BY DEF DistributionInv, ReleaseInv
<1>2. QED
  BY <1>1, SessionBegins, SessionNextSteps, PTL DEF SessionSpec

THEOREM CommandsTrueWithSessions == SessionSpec => []CommandsKeepTheirWord
<1>1. DistributionInv => CommandsKeepTheirWord
  BY DEF DistributionInv
<1>2. QED
  BY <1>1, SessionBegins, SessionNextSteps, PTL DEF SessionSpec

(* What a session reports as it ends is what happened: exit status 1 means *)
(* nothing was installed, 0 that the command it names succeeded on a whole *)
(* build.                                                                  *)
THEOREM SessionsTrue == SessionSpec => []SessionResultIsTrue
<1>1. SessionInv => SessionResultIsTrue
  BY DEF SessionInv
<1>2. QED
  BY <1>1, SessionBegins, SessionNextSteps, PTL DEF SessionSpec
=============================================================================
