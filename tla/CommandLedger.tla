---------------------------- MODULE CommandLedger ----------------------------
(***************************************************************************)
(* What the task's command store promises, with no storage layout, no      *)
(* index and no action ids: a command takes effect at most once per        *)
(* idempotency key, at a version of its own, and whoever is answered is    *)
(* answered with that one effect.  TaskObject implements this              *)
(* specification (TaskObjectRefinement).                                   *)
(***************************************************************************)
EXTENDS Integers

CONSTANTS Keys, Digests

VARIABLES
    head,    \* the task's version
    effects, \* the commands that took effect
    answers  \* the effects callers were told about

ledgerVars == <<head, effects, answers>>

Init ==
    /\ head = 0
    /\ effects = {}
    /\ answers = {}

Taken(k) == \E e \in effects : e.key = k

(* A new key takes effect at the next version; the caller may never hear.  *)
Commit(k, d) ==
    LET e == [key |-> k, digest |-> d, version |-> head + 1] IN
    /\ ~Taken(k)
    /\ head' = head + 1
    /\ effects' = effects \cup {e}
    /\ answers' \in {answers, answers \cup {e}}

(* A key that has taken effect is answered with that effect, to a caller   *)
(* that asks for the same thing.                                           *)
Answer(e) ==
    /\ e \in effects
    /\ answers' = answers \cup {e}
    /\ UNCHANGED <<head, effects>>

(* Somebody else moves the version on. *)
Advance ==
    /\ head' \in Nat
    /\ head' > head
    /\ UNCHANGED <<effects, answers>>

Next ==
    \/ \E k \in Keys, d \in Digests : Commit(k, d)
    \/ \E e \in effects : Answer(e)
    \/ Advance

Spec == Init /\ [][Next]_ledgerVars
=============================================================================
