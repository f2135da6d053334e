----------------------------- MODULE MCCodexUsage -----------------------------
(* The ticket of a small instance of CodexUsage was sent to its one session. *)
EXTENDS CodexUsage

CONSTANTS s1, t1

SentToTheSession == [t \in {t1} |-> s1]
=============================================================================
