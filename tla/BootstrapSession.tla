--------------------------- MODULE BootstrapSession ---------------------------
(***************************************************************************)
(* adapters/bootstrap: what a session of a provider does as it starts.     *)
(* executeBootstrap runs the commands of materialise.sh (Distribution) one *)
(* after the other: the remote installation, and when there is none or it  *)
(* fails, the local build, its extraction and its installation; work that  *)
(* can wait comes last.                                                    *)
(***************************************************************************)
EXTENDS Distribution, Sequences, SequencesExt

CONSTANTS
    Environments  \* what may be set when a session starts: sets of variables

VARIABLES
    bundle,    \* dist/clients/<provider>: the version of the local build
    session    \* the session that starts, or how the last one ended

sessionVars == <<bundle, session>>

NoResult == [ok |-> TRUE, installed |-> FALSE, source |-> "noop", fallback |-> FALSE,
             errors |-> <<>>, deferred |-> {}, exit |-> 0]

NoSession == [pc |-> "none", result |-> NoResult]

SessionInit == Init /\ bundle = None /\ session = NoSession

----------------------------------------------------------------------------
(* provider-context.mjs                                                    *)

DetectProvider(env) ==
    CASE env \cap {"CLAUDE_CODE_REMOTE", "CLAUDE_PROJECT_DIR"} # {} -> "claude"
      [] "CURSOR_SESSION" \in env                                   -> "cursor"
      [] "CODEX_SURFACE" \in env                                    -> "codex"
      [] OTHER                                                      -> "unknown"

ClaudeContext(env) ==
    [install     |-> "CLAUDE_CODE_REMOTE" \in env,
     remote      |-> {"AI_CONFIG_WORKER", "AI_CONFIG_TOKEN"} \subseteq env,
     deferred    |-> {"probe_runtime", "validate", "summarize_skills",
                      "generate_commands", "sync_runtime"}]

(* The other three never install on start; nor has any a remote            *)
(* installation or work that can wait.                                     *)
CodexContext  == [install |-> FALSE, remote |-> FALSE, deferred |-> {}]
CursorContext == [install |-> FALSE, remote |-> FALSE, deferred |-> {}]
UnknownContext == [install |-> FALSE, remote |-> FALSE, deferred |-> {}]

ResolveProviderContext(env) ==
    CASE DetectProvider(env) = "claude" -> ClaudeContext(env)
      [] DetectProvider(env) = "codex"  -> CodexContext
      [] DetectProvider(env) = "cursor" -> CursorContext
      [] OTHER                          -> UnknownContext

----------------------------------------------------------------------------
(* core.mjs                                                                *)

Started(pc) == session' = [session EXCEPT !.pc = pc]
Ended(result) == session' = [pc |-> "ended", result |-> result]
InPhase(pc) == session.pc = pc /\ cmd = Idle

(* runPhase: a command that died of a signal has no status, which counts   *)
(* as 1.                                                                   *)
PhaseOk(name) == ended.name = name /\ ended.code = 0

WithError(code) == [session.result EXCEPT !.errors = Append(@, code)]

Fail(code) == Ended([WithError(code) EXCEPT !.ok = FALSE, !.exit = 1])

(* executeBootstrap, up to its first command. *)
ExecuteBootstrap(env) ==
    LET context == ResolveProviderContext(env)
    IN /\ use.sessions /\ cmd = Idle /\ session.pc \in {"none", "ended"}
       /\ session' = IF ~context.install THEN [pc |-> "ended", result |-> NoResult]
                     ELSE [pc |-> IF context.remote THEN "remote" ELSE "acquire",
                           env |-> env, result |-> NoResult]
       /\ IF context.install /\ context.remote THEN Start("bootstrap")
          ELSE UNCHANGED <<kv, release, deployed, cache, home, cmd, ended>>
       /\ UNCHANGED bundle

RemoteInstalled ==
    /\ InPhase("remote")
    /\ session' = IF PhaseOk("bootstrap")
                  THEN [session EXCEPT !.pc = "deferred",
                          !.result = [@ EXCEPT !.installed = TRUE, !.source = "remote"]]
                  ELSE [session EXCEPT !.pc = "acquire",
                          !.result = [WithError("REMOTE_BUNDLE_FAILED") EXCEPT !.fallback = TRUE]]
    /\ UNCHANGED <<kv, release, deployed, cache, home, cmd, ended, bundle>>

(* maybeAcquireLocalBundle: a build that is there is taken as it is;       *)
(* compile.mjs builds what the checkout holds.                             *)
AcquireLocalBundle(v) ==
    /\ InPhase("acquire")
    /\ IF bundle = None THEN bundle' = v ELSE UNCHANGED bundle
    /\ Started("extract") /\ Start("extract")

AcquireFails ==
    /\ InPhase("acquire") /\ bundle = None
    /\ Fail("LOCAL_BUNDLE_ACQUIRE_FAILED")
    /\ UNCHANGED <<kv, release, deployed, cache, home, cmd, ended, bundle>>

(* A mistake: whether the extraction succeeded is not looked at. *)
LocalMaterializedAnyhow ==
    /\ InPhase("extract")
    /\ Started("install") /\ Start("install")
    /\ UNCHANGED bundle

LocalMaterialized ==
    /\ InPhase("extract")
    /\ IF PhaseOk("extract") THEN Started("install") /\ Start("install")
       ELSE /\ Fail("LOCAL_MATERIALIZE_FAILED")
            /\ UNCHANGED <<kv, release, deployed, cache, home, cmd, ended>>
    /\ UNCHANGED bundle

TargetInstalled ==
    /\ InPhase("install")
    /\ IF PhaseOk("install")
       THEN session' = [session EXCEPT !.pc = "deferred",
                          !.result = [@ EXCEPT !.installed = TRUE, !.source = "local"]]
       ELSE Fail("INSTALL_TARGET_FAILED")
    /\ UNCHANGED <<kv, release, deployed, cache, home, cmd, ended, bundle>>

(* startDeferredWork: a strict session runs the jobs itself, whatever      *)
(* becomes of them; another one leaves them to a process of its own.       *)
StartDeferredWork ==
    /\ InPhase("deferred")
    /\ Ended([session.result EXCEPT !.deferred =
          IF "AI_CONFIG_STRICT_BOOTSTRAP" \in session.env THEN {}
          ELSE ResolveProviderContext(session.env).deferred])
    /\ UNCHANGED <<kv, release, deployed, cache, home, cmd, ended, bundle>>

(* The session is closed while it starts, and its command with it, which   *)
(* may have time for its EXIT trap.                                        *)
SessionKilled ==
    /\ session.pc \notin {"none", "ended"}
    /\ session' = NoSession
    /\ \/ cmd' = Idle /\ ended' = NotEnded
       \/ cmd # Idle /\ End(Interrupt, "success", cmd.got)
    /\ UNCHANGED <<kv, release, deployed, cache, home, bundle>>

(* The checkout moves on and its build is thrown away. *)
BundleRemoved ==
    /\ use.sessions /\ bundle # None /\ session.pc \in {"none", "ended"}
    /\ bundle' = None
    /\ session' = NoSession
    /\ UNCHANGED <<kv, release, deployed, cache, home, cmd, ended>>

SessionStep ==
    \/ \E env \in Environments : ExecuteBootstrap(env)
    \/ RemoteInstalled \/ AcquireFails \/ LocalMaterialized \/ TargetInstalled
    \/ \E v \in Versions : AcquireLocalBundle(v)
    \/ StartDeferredWork \/ SessionKilled \/ BundleRemoved

(* A command of materialise.sh on its own, as in Distribution, or a step   *)
(* of the one a session runs, which extracts the session's bundle.         *)
CommandOfASession ==
    /\ session.pc # "none" => cmd # Idle
    /\ use.sessions /\ cmd.pc = "extract" => MaterializePackage(bundle)
    /\ ~use.sessions \/ cmd # Idle
    /\ CommandStep

SessionNext ==
    /\ UNCHANGED use
    /\ \/ SessionStep
       \/ (ReleaseStep \/ CommandOfASession) /\ UNCHANGED sessionVars

SessionSpec == SessionInit /\ [][SessionNext]_<<vars, sessionVars>>

----------------------------------------------------------------------------

HasEnded == session.pc = "ended"

(* What a session reports when it starts is what happened.  Exit status 1  *)
(* means that the last command failed or the build did, that nothing was   *)
(* installed by this session's local path, and that no deferred work was   *)
(* begun on top of it; 0 means that the command of the source it names     *)
(* succeeded, that a local installation found the whole build in the cache,*)
(* and that the only error reported, if any, is the remote installation it *)
(* fell back from.                                                         *)
SessionResultIsTrue ==
    HasEnded => LET r == session.result IN
        /\ r.exit = 1 => /\ ~r.ok /\ ~r.installed /\ r.deferred = {}
                         /\ Last(r.errors) = "LOCAL_BUNDLE_ACQUIRE_FAILED" => bundle = None
                         /\ Last(r.errors) = "LOCAL_MATERIALIZE_FAILED" => ~PhaseOk("extract")
                         /\ Last(r.errors) = "INSTALL_TARGET_FAILED" => ~PhaseOk("install")
        /\ r.exit = 0 => /\ r.errors = (IF r.fallback THEN <<"REMOTE_BUNDLE_FAILED">> ELSE <<>>)
                         /\ r.source = "remote" => PhaseOk("bootstrap") /\ ~r.fallback
                         /\ r.source = "local" =>
                              /\ PhaseOk("install") /\ bundle # None
                              /\ \A s \in Content[bundle] : cache.skills[s] = bundle
                         /\ ~r.installed => r.source = "noop" /\ r.deferred = {}

(* materialise.sh: "No cached version found.  Run extract first.": once an *)
(* extraction has succeeded, the installation after it is not refused.     *)
ExtractedCanBeInstalled ==
    HasEnded /\ ~use.writesFail /\ session.result.errors # <<>> =>
        ~(/\ Last(session.result.errors) = "INSTALL_TARGET_FAILED"
          /\ ended.name = "install" /\ ended.code = 1)
=============================================================================
