---------------------------- MODULE HandoffTokens ----------------------------
(***************************************************************************)
(* runtime/lib/handoff-token-service-worker.mjs: verifying and consuming   *)
(* the tokens that hand a task over, with the replay memory of one         *)
(* isolate.  The time is the created_at of the request, so it may run      *)
(* backward from one request to the next.  A token as it is presented is   *)
(* genuine, or its signature or its task does not fit.                     *)
(***************************************************************************)
EXTENDS Naturals

CONSTANTS
    Tokens,     \* identifiers, each with its nonce
    IssuedAt,   \* IssuedAt[t], ExpiresAt[t]: the lifetime of a token
    ExpiresAt

ASSUME HandoffTokensAssumption ==
    /\ IssuedAt \in [Tokens -> Nat]
    /\ ExpiresAt \in [Tokens -> Nat]

(* InMemoryHandoffReplayStore: _cleanup, then isConsumed or consume.  An   *)
(* entry lives as long as its token.                                       *)
Remembered(consumed, now) == {t \in consumed : ExpiresAt[t] > now}

(* A flaw is "none", "signature" or "task". *)
VerifyToken(token, flaw, now, consumed) ==
    IF flaw = "task" THEN "task_id_mismatch"
    ELSE IF ExpiresAt[token] <= IssuedAt[token] THEN "invalid_lifetime_window"
    ELSE IF IssuedAt[token] > now THEN "not_active_yet"
    ELSE IF now >= ExpiresAt[token] THEN "expired"
    ELSE IF flaw = "signature" THEN "invalid_signature"
    ELSE IF token \in Remembered(consumed, now) THEN "already_consumed"
    ELSE "none"

(* consumeToken, after a verification at the same time. *)
ConsumeToken(token, now, consumed) == Remembered(consumed, now) \cup {token}
=============================================================================
