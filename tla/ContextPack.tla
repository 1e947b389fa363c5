----------------------------- MODULE ContextPack -----------------------------
(* The input of one attempt, packed to fit the ceiling the planner set         *)
(* (context-pack-builder.mjs, token-estimate.mjs).  A text is the number of    *)
(* tokens it is estimated at: what is dropped and what is cut is decided on    *)
(* those numbers alone.                                                        *)
(*                                                                             *)
(* A task state is [system, retrieval, messages, artifacts], oldest first.     *)
EXTENDS Integers, Sequences, FiniteSetsExt

CONSTANT CompactionGuard       \* rounds a compaction makes before it gives up (1000)

ASSUME CompactionGuardAssumption == CompactionGuard \in Nat

PackableStates == [system : Nat, retrieval : Nat, messages : Seq(Nat), artifacts : Seq(Nat)]

Total(seq) ==
  LET sum[i \in 0 .. Len(seq)] == IF i = 0 THEN 0 ELSE sum[i - 1] + seq[i]
  IN sum[Len(seq)]
EstimateTokens(p) == p.system + p.retrieval + Total(p.messages) + Total(p.artifacts)

(* What each style gives up first.  The newest message is never dropped.       *)
DroppableMessages(p) == [i \in 1 .. Len(p.messages) - 1 |-> "message"]
DroppableRetrieval(p) == IF p.retrieval > 0 THEN <<"retrieval">> ELSE <<>>
DroppableArtifacts(p) == [i \in 1 .. Len(p.artifacts) |-> "artifact"]
SubscriptionOrder(p) == DroppableRetrieval(p) \o DroppableArtifacts(p) \o DroppableMessages(p)
ApiKeyOrder(p) == DroppableMessages(p) \o DroppableRetrieval(p) \o DroppableArtifacts(p)

(* The pack once the first n things of an order are dropped, oldest first.     *)
After(p, order, n) ==
  LET dropped(kind) == Cardinality({i \in 1 .. n : order[i] = kind})
      newer(seq, k) == SubSeq(seq, k + 1, Len(seq))
  IN [p EXCEPT !.retrieval = IF dropped("retrieval") > 0 THEN 0 ELSE @,
               !.messages = newer(@, dropped("message")),
               !.artifacts = newer(@, dropped("artifact"))]

(* One cut of the larger of the system prompt and the only message, to what    *)
(* the others leave of the ceiling.  (No artifact is left when a pack is cut.) *)
ShrinkLargestTextField(p, ceiling) ==
  LET message == IF Len(p.messages) = 1 THEN p.messages[1] ELSE 0
      left(others) == IF ceiling > others THEN ceiling - others ELSE 0
      total == EstimateTokens(p)
  IN CASE total <= ceiling -> p
       [] total > ceiling /\ message > p.system ->
            [p EXCEPT !.messages = <<left(total - message)>>]
       [] OTHER -> [p EXCEPT !.system = left(total - p.system)]

(* A compaction drops as little as it must, cuts twice at most, and stops      *)
(* after CompactionGuard rounds whether or not the pack fits.                  *)
Compacted(p, order, ceiling) ==
  LET allowed == Min({Len(order), CompactionGuard})
      enough == {n \in 0 .. allowed : EstimateTokens(After(p, order, n)) <= ceiling}
      drops == IF enough = {} THEN allowed ELSE Min(enough)
      dropped == After(p, order, drops)
      once == IF drops < CompactionGuard /\ drops = Len(order)
              THEN ShrinkLargestTextField(dropped, ceiling) ELSE dropped
  IN IF drops + 1 < CompactionGuard /\ drops = Len(order)
     THEN ShrinkLargestTextField(once, ceiling) ELSE once

CompactSubscriptionStyle(p, ceiling) == Compacted(p, SubscriptionOrder(p), ceiling)
CompactApiKeyStyle(p, ceiling) == Compacted(p, ApiKeyOrder(p), ceiling)

(* A hybrid packs the subscription's way and, when that does not fit, goes on  *)
(* the API key's way with rounds of its own.                                   *)
BuildContextPack(mode, planner, task) ==
  LET ceiling == planner.context_ceiling_tokens
      start == IF planner.optional_passes_included THEN task ELSE [task EXCEPT !.retrieval = 0]
      sub == CompactSubscriptionStyle(start, ceiling)
      packed == CASE mode = "subscription" -> sub
                  [] mode = "api_key" -> CompactApiKeyStyle(start, ceiling)
                  [] mode = "hybrid" -> IF EstimateTokens(sub) > ceiling
                                        THEN CompactApiKeyStyle(sub, ceiling) ELSE sub
  IN [packed |-> packed, before |-> EstimateTokens(start), after |-> EstimateTokens(packed)]
=============================================================================
