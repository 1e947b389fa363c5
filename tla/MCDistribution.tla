--------------------------- MODULE MCDistribution ---------------------------
(* Three releases of two skills, the last without one of them, and a local *)
(* build of the third that is broken.  Commands are run one at a time by   *)
(* hand, or by sessions that start in the environments below.              *)
EXTENDS BootstrapSession

CONSTANTS s1, s2

MCContent == <<{s1, s2}, {s1, s2}, {s2}>>
MCFlawOf == <<"none", "none", "escapes the package">>

Use(commands, writesFail, sessions) ==
  [commands |-> commands, writesFail |-> writesFail, sessions |-> sessions]

MCUses == {Use({"bootstrap", "extract", "install"}, TRUE, FALSE),
           Use({"bootstrap", "fetch", "extract"}, FALSE, FALSE),
           Use({"bootstrap", "extract", "install"}, FALSE, TRUE)}
MCSessions == {Use({"bootstrap", "extract", "install"}, FALSE, TRUE)}

MCEnvironments ==
  {{}, {"CURSOR_SESSION"}, {"CODEX_SURFACE"}, {"CLAUDE_PROJECT_DIR"}, {"CLAUDE_CODE_REMOTE"},
   {"CLAUDE_CODE_REMOTE", "AI_CONFIG_STRICT_BOOTSTRAP"},
   {"CLAUDE_CODE_REMOTE", "AI_CONFIG_WORKER", "AI_CONFIG_TOKEN"}}
=============================================================================
