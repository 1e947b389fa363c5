--------------------------- MODULE RequestSignature ---------------------------
(***************************************************************************)
(* shared/contracts/request-signature.mjs: signed requests, their          *)
(* verification and the memory of the nonces seen.  A client signs a       *)
(* request with the time of its own clock; the network delivers a signed   *)
(* request late, again or damaged.  Time is counted in units of minutes: a *)
(* verification takes none, nowMs being read before its first await.       *)
(***************************************************************************)
EXTENDS Integers, Sequences, FiniteSetsExt, Functions

CONSTANTS
    Nonces,      \* a client takes a new one for each request
    Skew,        \* DEFAULT_CLOCK_SKEW_MS
    Drift,       \* how far a client's clock may be from the verifier's
    EndOfTime    \* bound: the clock stops here

ASSUME SignatureAssumption ==
    /\ Skew \in Nat \ {0}
    /\ Drift \in Nat
    /\ EndOfTime \in Nat

VARIABLES
    now,       \* the verifier's clock
    signed,    \* the requests signed, each with its nonce and timestamp
    seen,      \* InMemoryNonceStore._seen: when a nonce may be forgotten
    accepted,  \* history: when a nonce was accepted, and from what request
    verdict    \* the outcome of the last verification

signatureVars == <<now, signed, seen, accepted, verdict>>

SignatureInit ==
    /\ now = 0
    /\ signed = {}
    /\ seen = [n \in {} |-> 0]
    /\ accepted = [n \in Nonces |-> << >>]
    /\ verdict = "none"

(* verifySignedRequest: the checks in the order they are made, and what    *)
(* damage to a request fails them.                                         *)
Checks == <<"signing_secret_missing", "missing_signature_headers",
            "invalid_timestamp", "stale_timestamp", "invalid_body_hash",
            "body_hash_mismatch", "invalid_signature", "replayed_nonce">>

Damages == {"none", "signing_secret_missing", "missing_signature_headers",
            "invalid_timestamp", "invalid_body_hash", "body_hash_mismatch",
            "invalid_signature"}

Distance(a, b) == IF a > b THEN a - b ELSE b - a
IsStale(timestamp) == Distance(now, timestamp) > Skew

(* InMemoryNonceStore.consume *)
IsReplayed(nonce) == nonce \in DOMAIN seen /\ seen[nonce] > now

SeenWith(nonce) ==
    [n \in DOMAIN seen \cup {nonce} |-> IF n = nonce THEN now + Skew ELSE seen[n]]

(* A mistake: the sweep drops what is not over. *)
ConsumedSweptWrongly(nonce) == Restrict(SeenWith(nonce), {n \in DOMAIN seen : seen[n] <= now})

Consumed(nonce) ==
    LET kept == SeenWith(nonce)
    IN Restrict(kept, {n \in DOMAIN kept : kept[n] > now})

Fails(check, request, damage) ==
    CASE check = "stale_timestamp" -> IsStale(request.timestamp)
      [] check = "replayed_nonce"  -> IsReplayed(request.nonce)
      [] OTHER                     -> check = damage

VerifySignedRequest(request, damage) ==
    LET failed == {i \in DOMAIN Checks : Fails(Checks[i], request, damage)}
    IN IF failed = {} THEN "ok" ELSE Checks[Min(failed)]

----------------------------------------------------------------------------

(* A client signs a request; its clock may be ahead or behind. *)
Sign(nonce, timestamp) ==
    /\ \A r \in signed : r.nonce # nonce
    /\ signed' = signed \cup {[nonce |-> nonce, timestamp |-> timestamp]}
    /\ UNCHANGED <<now, seen, accepted, verdict>>

(* A signed request arrives, once more, late or damaged. *)
Receive(request, damage) ==
    LET outcome == VerifySignedRequest(request, damage)
        taken   == outcome = "ok"
    IN /\ verdict' = outcome
       /\ seen' = IF taken THEN Consumed(request.nonce) ELSE seen
       /\ accepted' = IF ~taken THEN accepted
                      ELSE [accepted EXCEPT ![request.nonce] =
                              Append(@, [at |-> now, timestamp |-> request.timestamp,
                                         damage |-> damage])]
       /\ UNCHANGED <<now, signed>>

Tick ==
    /\ now < EndOfTime
    /\ now' = now + 1
    /\ UNCHANGED <<signed, seen, accepted, verdict>>

SignatureNext ==
    \/ \E n \in Nonces, t \in (now - Drift) .. (now + Drift) : Sign(n, t)
    \/ \E r \in signed, d \in Damages : Receive(r, d)
    \/ Tick

----------------------------------------------------------------------------

(* What is accepted is what was signed, undamaged and within the skew of   *)
(* its timestamp; two acceptances of one nonce are at least the skew apart; *)
(* and a request that is dated before it first arrives, as one from a      *)
(* client whose clock is not ahead, is accepted once, whatever is          *)
(* forgotten and delivered again (InMemoryNonceStore keeps a nonce for the *)
(* skew, counted from its consumption).                                    *)
AcceptancesAreApart ==
    \A n \in Nonces :
        /\ \A i \in DOMAIN accepted[n] :
              /\ accepted[n][i].damage = "none"
              /\ Distance(accepted[n][i].at, accepted[n][i].timestamp) <= Skew
              /\ i > 1 => accepted[n][i].at - accepted[n][i - 1].at >= Skew
        /\ accepted[n] # << >> /\ accepted[n][1].timestamp < accepted[n][1].at =>
              Len(accepted[n]) = 1

(* shared/contracts/README.md: "A nonce can be consumed once during the    *)
(* accepted window", the skew before and after the timestamp.  The code    *)
(* forgets a nonce one skew after it is consumed, which is inside the      *)
(* window for a request that is not dated before it first arrives.         *)
ConsumedOnceInTheWindow == \A n \in Nonces : Len(accepted[n]) <= 1
=============================================================================
