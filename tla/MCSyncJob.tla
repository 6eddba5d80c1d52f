----------------------------- MODULE MCSyncJob -----------------------------
(***************************************************************************)
(* Values of the constants of SyncJob for model checking.                  *)
(***************************************************************************)
EXTENDS SyncJob

CONSTANTS a1, a2, NoLimitValue

MCLanguage == [a \in {a1, a2} |-> "en"]
\* a2 is written in Spanish only.
MCLanguages == [a \in {a1, a2} |-> IF a = a2 THEN "es" ELSE "en"]
MCNightly == {[skip |-> FALSE, limit |-> NoLimitValue]}
\* Nightly runs, and an operator's `--skip-watermark --limit 1`.
MCNightlyAndFull == MCNightly \cup {[skip |-> TRUE, limit |-> 1]}
\* Nightly runs, and an operator's `--limit 1`.
MCNightlyAndLimited == MCNightly \cup {[skip |-> FALSE, limit |-> 1]}
MCAnyOptions == MCNightlyAndFull \cup MCNightlyAndLimited
MCBroken == {a2}
MCRejected == {<<a1, 0>>}
MCNone == {}
MCAnywhere == Steps \ {"idle"}
MCBetweenWrites == {"writeFailed"}
MCNotBetweenWrites == Steps \ {"idle", "writeFailed"}
=============================================================================
