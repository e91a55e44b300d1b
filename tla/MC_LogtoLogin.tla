--------------------------- MODULE MC_LogtoLogin ---------------------------
(* Small instances of LogtoLogin for TLC. *)
EXTENDS LoginRefinement

CONSTANTS p1, p2

\* Two concurrent invocations.
MCProcs2 == {p1, p2}
\* One invocation, for the runs with faults.
MCProcs1 == {p1}
\* Logto prompts for consent in every login (the flow the code was written for).
MCConsentAlways == {TRUE}
\* The provider may or may not prompt for consent.
MCConsentEither == {TRUE, FALSE}
=============================================================================
