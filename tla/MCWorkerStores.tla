---------------------------- MODULE MCWorkerStores ----------------------------
(* Instances of what the worker keeps in its KV namespace and its bucket     *)
(* beside the tasks themselves: the task index, the retrospectives and the   *)
(* dashboard's snapshots.  They share nothing, so that a behaviour is of one *)
(* of them and the others idle.                                              *)
EXTENDS TaskIndex, Retrospectives, DashboardSnapshots

CONSTANTS i1, i2, s1, s2, p1, p2, home

mcOneIsolate == [s \in {s1} |-> i1]
mcTwoIsolates == s1 :> i1 @@ s2 :> i2

(* Two publishers on one machine. *)
mcSameScope == p1 :> home @@ p2 :> home

mcResources == <<"skills.list", "analytics.tool_usage">>

CONSTANT Parts
VARIABLE part
allVars == <<ixVars, vars, dashboardVars, part>>

MCInit ==
    /\ part \in Parts
    /\ IndexInit
    /\ Init
    /\ DashboardInit
    /\ part # "dashboard" => kvBound

MCNext ==
    /\ \/ part = "index" /\ IndexNext /\ UNCHANGED <<vars, dashboardVars>>
       \/ part = "retrospectives" /\ Next /\ UNCHANGED <<ixVars, dashboardVars>>
       \/ part = "dashboard" /\ DashboardNext /\ UNCHANGED <<ixVars, vars>>
    /\ UNCHANGED part

(* The cleanup of the retrospectives is the only thing that must happen. *)
MCSpec == MCInit /\ [][MCNext]_allVars /\ WF_vars(BeginWalk(Cron)) /\ WF_vars(Step(Cron))
=============================================================================
