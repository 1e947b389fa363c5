------------------------ MODULE TaskObjectRefinement ------------------------
(***************************************************************************)
(* TaskObject implements CommandLedger.  An effect is a commit of the log, *)
(* an answer is a receipt without its action id and its replayed flag.     *)
(***************************************************************************)
EXTENDS TaskObject

EffectOf(commit) ==
    [key |-> commit.key, digest |-> commit.digest, version |-> commit.after]

AnswerOf(receipt) ==
    [key |-> receipt.key, digest |-> receipt.digest, version |-> receipt.version]

Ledger ==
    INSTANCE CommandLedger WITH
        head    <- CurrentVersion,
        effects <- {EffectOf(commits[i]) : i \in DOMAIN commits},
        answers <- {AnswerOf(r) : r \in receipts}

LedgerSpec == Ledger!Spec
=============================================================================
