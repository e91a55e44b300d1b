--------------------------- MODULE LoginRefinement ---------------------------
(***************************************************************************)
(* LogtoLogin implements LoginAbstract: the abstract state of a login is   *)
(* read off the pc and the error of _logto_login's process.                *)
(***************************************************************************)
EXTENDS LogtoLogin

\* "done" once line 167 returned the JWT; "rejected" after "Authentication
\* failed" (line 111); "failed" after any other exit; "running" before.
LoginState ==
    [p \in Procs |->
        IF cl[p].pc = "done" THEN "done"
        ELSE IF cl[p].pc \in {"failed", "crashed"}
             THEN IF cl[p].err = "InvalidCredentials" THEN "rejected" ELSE "failed"
        ELSE "running"]

\* The stages of an interaction after the PATCH of the identifiers succeeded.
Identified == {"identified", "submitted", "consent", "consented", "resumed"}

\* What makes the refinement hold, beyond IInv: a session got past the
\* identifiers only with the right password; the code a process holds at
\* "token" is a code of its own session (the callback of line 138 names
\* the interaction the process resumed); and a process that reached the
\* backend exchange, or returned the JWT, had the right password.
RInv ==
    /\ \A s \in Procs : ia[s].stage \in Identified => pwOk[s]
    /\ \A p \in Procs : cl[p].pc = "token" => cl[p].code[1] = p
    /\ \A p \in Procs : cl[p].pc \in {"exchange", "done"} => pwOk[p]

AbsLogin == INSTANCE LoginAbstract WITH st <- LoginState

\* The login handshake, with whatever faults of the provider and the
\* network, behaves as LoginAbstract says: a JWT only for a right password,
\* "Authentication failed" only for a wrong one, and an outcome that never
\* changes once reached.
AbstractLogin == AbsLogin!AbsSpec
=============================================================================
