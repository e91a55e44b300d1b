---------------------------- MODULE AlertAbstract ----------------------------
(***************************************************************************)
(* What an invocation of src/scripts/alert.py promises, seen from the      *)
(* operator and from Alertmanager (spec, section 8).  Each invocation runs *)
(* once: it either exits before any request (a bad key=value item, an      *)
(* overflowing duration) or sends its one request and then prints its     *)
(* result or exits with an error.  Alertmanager applies only a request   *)
(* that was sent and never a listing, possibly after the invocation has   *)
(* given up; a success line of push, resolve or silence comes only after  *)
(* its request was applied.                                                *)
(***************************************************************************)
CONSTANTS Procs

VARIABLES
    cmd,      \* cmd[p]: the subcommand of invocation p
    st,       \* st[p]: "start", "running", "done" or "failed"
    sent,     \* the invocations whose request went out
    applied   \* the invocations whose request Alertmanager applied

absvars == <<cmd, st, sent, applied>>

AbsInit ==
    /\ cmd \in [Procs -> {"push", "resolve", "silence", "list"}]
    /\ st = [p \in Procs |-> "start"]
    /\ sent = {}
    /\ applied = {}

\* The invocation exits before sending anything.
Refuse(p) ==
    /\ st[p] = "start"
    /\ st' = [st EXCEPT ![p] = "failed"]
    /\ UNCHANGED <<cmd, sent, applied>>

\* The invocation sends its request.
Request(p) ==
    /\ st[p] = "start"
    /\ st' = [st EXCEPT ![p] = "running"]
    /\ sent' = sent \cup {p}
    /\ UNCHANGED <<cmd, applied>>

\* Alertmanager applies the request of p, whatever p is doing by then.
Apply(p) ==
    /\ p \in sent \ applied
    /\ cmd[p] # "list"
    /\ applied' = applied \cup {p}
    /\ UNCHANGED <<cmd, st, sent>>

\* The invocation prints its result: a listing, or a success line once its
\* request was applied.
Succeed(p) ==
    /\ st[p] = "running"
    /\ cmd[p] = "list" \/ p \in applied
    /\ st' = [st EXCEPT ![p] = "done"]
    /\ UNCHANGED <<cmd, sent, applied>>

\* An error reply or a timeout ends the invocation.
Fail(p) ==
    /\ st[p] = "running"
    /\ st' = [st EXCEPT ![p] = "failed"]
    /\ UNCHANGED <<cmd, sent, applied>>

AbsNext == \E p \in Procs : Refuse(p) \/ Request(p) \/ Apply(p) \/ Succeed(p) \/ Fail(p)

AbsSpec == AbsInit /\ [][AbsNext]_absvars
=============================================================================
