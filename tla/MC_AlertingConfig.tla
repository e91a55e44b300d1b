------------------------- MODULE MC_AlertingConfig -------------------------
(* Small instances of AlertingConfig for TLC. *)
EXTENDS AlertingConfig

CONSTANTS p1, p2, c1, c2

\* Two concurrent invocations, each with its own subcommand.
MCProcs == {p1, p2}
\* One invocation, for the runs that look for one bad outcome.
MCProcs1 == {p1}
\* Two configuration files with different contents.
MCConfigs == {c1, c2}
\* Logto prompts for consent in every login.
MCConsent == {TRUE}
=============================================================================
