----------------------------- MODULE MCDualWrite -----------------------------
(* Small instances of DualWrite: one task, two routes, two findings.       *)
EXTENDS DualWrite

CONSTANTS r1, r2, a1, f1, f2

mcRoutes == {r1, r2}

Finding(f) == [id |-> f, status |-> "verified", route |-> r1]
Payload(r, s, f) == [route |-> r, state |-> s, action |-> a1, finding |-> Finding(f)]

(* Only the part of a payload that an operation reads differs. *)
Request(op, e, r, s, f) ==
    [op |-> op, expected |-> e, key |-> NoKey, payload |-> Payload(r, s, f),
     progress |-> [done |-> 0, total |-> 1]]

SelectRoute(e, r)    == Request("task.select_route", e, r, "active", f1)
TransitionState(e, s) == Request("task.transition_state", e, r1, s, f1)
AddFinding(e, f)     == Request("task.append_finding", e, r1, "active", f)
Create               == Request("create", 0, r1, "pending", f1)
Answer(e)            == Request("answer", e, r1, "active", f2)
Upgrade(e)           == Request("upgrade", e, r2, "active", f1)
Continue             == Request("continue", 0, r1, "active", f1)

mcKeys ==
    {DerivedKey(Request(op, e, r, s, f1)) :
        op \in Enveloped, e \in 1..MaxVersion, r \in mcRoutes, s \in TaskStates}
mcSafeKey == [k \in mcKeys |-> k]

(* Authoritative mode, the migrated commands. *)
mcCommandsOnly ==
    {Create, SelectRoute(1, r2), SelectRoute(2, r2), AddFinding(1, f1),
     TransitionState(1, "active"), TransitionState(2, "completed"),
     SelectRoute(3, r1)}

(* Shadow mode, everything. *)
mcEverything ==
    {Create, Continue, Answer(2), Upgrade(2), Upgrade(3), AddFinding(1, f1),
     SelectRoute(1, r2), SelectRoute(2, r1), TransitionState(2, "active"),
     TransitionState(3, "completed")}

mcRequests == "shadow" :> mcEverything @@ "authoritative" :> mcCommandsOnly

(* What the properties read; the counters and answers of the object and    *)
(* its lists, which no put-state of the store fills, are left out.  Only   *)
(* the properties of shadow mode read every record that was written.       *)
mcView == <<coreVars, mode, kv, flight, calls, answers,
            IF mode = "shadow" THEN written ELSE {}>>
mcSymmetry == Permutations(Clients)

mcOneTransition ==
    [m \in {"authoritative"} |->
        {Create, SelectRoute(1, r2), TransitionState(1, "active"),
         TransitionState(2, "active")}]

mcTwoFindings ==
    [m \in {"authoritative"} |-> {Create, AddFinding(1, f1), AddFinding(1, f2)}]
=============================================================================
