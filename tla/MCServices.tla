------------------------------ MODULE MCServices ------------------------------
(* Instances of the services beside the task control plane: signed requests, *)
(* remote execution, bootstrap observability and capability discovery.  They *)
(* share nothing, so that a behaviour is of one of them and the others idle. *)
EXTENDS RequestSignature, RemoteExecution, Observability, CapabilityClient

Request(via, defect, tool, args, signature) ==
  [via |-> via, defect |-> defect, tool |-> tool, args |-> args, signature |-> signature]

MCRequests ==
  {Request(via, "none", "sync_tools", "proper", signature) :
      via \in {"worker", "direct"}, signature \in {"right", "wrong", "missing"}}
    \cup {Request(via, defect, "sync_tools", "proper", "right") :
      via \in {"worker", "direct"}, defect \in {"json", "shape", "blank_tool", "metadata"}}
    \cup {Request("worker", "none", tool, "proper", "missing") :
      tool \in {"unknown", "health_check", "skill_stats_cached"}}
    \cup {Request("worker", "none", tool, args, "missing") :
      tool \in {"get_skill_metadata", "get_artifact"}, args \in {"missing", "improper", "proper"}}

Setting(target, secret, sameSecret, signatureRequired, publicKey) ==
  [target |-> target, secret |-> secret, sameSecret |-> sameSecret,
   signatureRequired |-> signatureRequired, publicKey |-> publicKey]

MCSettings ==
  {Setting("proxy", TRUE, TRUE, required, key) :
      required \in BOOLEAN, key \in {"none", "unreadable", "readable"}}
    \cup {Setting("binding", TRUE, same, FALSE, "none") : same \in BOOLEAN}
    \cup {Setting("none", TRUE, TRUE, FALSE, "none"), Setting("proxy", FALSE, TRUE, FALSE, "none"),
          Setting("proxy", TRUE, FALSE, FALSE, "none")}

CONSTANTS n1, n2, c1, c2, r1, r2, r3, r4, s1, s2
MCRunOf == (r1 :> "run1") @@ (r2 :> "run2") @@ (r3 :> "run3") @@ (r4 :> "run1")

Said(status, failed, code, expected, observed) ==
  [status |-> status, failed |-> failed, code |-> code,
   expected |-> expected, observed |-> observed]
MCContentOf == (r1 :> Said("success", "", "", "v2", "v2"))
               @@ (r2 :> Said("failure", "", "code", "", ""))
               @@ (r3 :> Said("partial", "", "", "v2", "v1"))
               @@ (r4 :> Said("failure", "skills_install", "", "v2", "v1"))

MCBounds == [raw |-> [min |-> 1, max |-> 30, default |-> 7],
             summary |-> [min |-> 7, max |-> 365, default |-> 90]]
MCStoredSettings == {<<>>, [raw |-> 31], [raw |-> 30, summary |-> 7]}

MCReleases ==
  <<[profiles |-> [cli |-> {"fs.read", "network.http"}, web |-> {"network.http", "ui.prompt-only"}],
     skills   |-> [audit |-> {"fs.read"}, plan |-> {}, fetch |-> {"network.http", "fs.read"}]],
    [profiles |-> [cli |-> {"network.http"}, web |-> {}],
     skills   |-> [audit |-> {"fs.read"}, fetch |-> {"network.http", "fs.read"}]]>>

RemoteIdle == RemoteInit /\ setting = Setting("none", TRUE, TRUE, FALSE, "none")
ObservabilityIdle == ObservabilityInit /\ settings = <<>>
ClientIdle == ClientInit /\ ~browser

CONSTANT Parts
VARIABLE part
allVars == <<signatureVars, executionVars, observabilityVars, clientVars, part>>

MCInit ==
  /\ part \in Parts
  /\ SignatureInit
  /\ IF part = "execution" THEN RemoteInit ELSE RemoteIdle
  /\ IF part = "observability" THEN ObservabilityInit ELSE ObservabilityIdle
  /\ IF part = "client" THEN ClientInit ELSE ClientIdle

SignatureStep == SignatureNext /\ UNCHANGED <<executionVars, observabilityVars, clientVars>>
RemoteStep == RemoteNext /\ UNCHANGED <<signatureVars, observabilityVars, clientVars>>
ObservabilityStep == ObservabilityNext /\ UNCHANGED <<signatureVars, executionVars, clientVars>>
ClientStep == ClientNext /\ UNCHANGED <<signatureVars, executionVars, observabilityVars>>

MCNext ==
  /\ \/ part = "signature" /\ SignatureStep
     \/ part = "execution" /\ RemoteStep
     \/ part = "observability" /\ ObservabilityStep
     \/ part = "client" /\ ClientStep
  /\ UNCHANGED part

MCSpec == MCInit /\ [][MCNext]_allVars

(* The timers of the proxied calls, of the two services that have any. *)
MCFairness ==
  \A c \in Calls : WF_executionVars(TimerRuns(c) /\ UNCHANGED <<signatureVars, observabilityVars, clientVars, part>>)
MCFairSpec == MCSpec /\ MCFairness
=============================================================================
