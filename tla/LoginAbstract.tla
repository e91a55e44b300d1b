---------------------------- MODULE LoginAbstract ----------------------------
(***************************************************************************)
(* What _logto_login of src/scripts/alerting_config.py promises to the     *)
(* commands that call it (spec, section 1: a function producing a bearer   *)
(* token from the base URL, the email and the password).  Each login runs  *)
(* once and ends in one of three ways: it returns the backend JWT, which   *)
(* only a right password gets; it exits with "Authentication failed",      *)
(* which only a wrong password gets; or it exits with another error.      *)
(***************************************************************************)
CONSTANTS Procs

VARIABLES
    pwOk,  \* pwOk[p]: the password given to login p is the user's one
    st     \* st[p]: "running", "done" (JWT returned), "rejected" or "failed"

absvars == <<pwOk, st>>

AbsInit ==
    /\ pwOk \in [Procs -> BOOLEAN]
    /\ st = [p \in Procs |-> "running"]

\* The login returns the JWT.
GetJwt(p) ==
    /\ st[p] = "running" /\ pwOk[p]
    /\ st' = [st EXCEPT ![p] = "done"]
    /\ UNCHANGED pwOk

\* The provider refuses the credentials.
Reject(p) ==
    /\ st[p] = "running" /\ ~pwOk[p]
    /\ st' = [st EXCEPT ![p] = "rejected"]
    /\ UNCHANGED pwOk

\* Any other error ends the login.
Abort(p) ==
    /\ st[p] = "running"
    /\ st' = [st EXCEPT ![p] = "failed"]
    /\ UNCHANGED pwOk

AbsNext == \E p \in Procs : GetJwt(p) \/ Reject(p) \/ Abort(p)

AbsSpec == AbsInit /\ [][AbsNext]_absvars
=============================================================================
