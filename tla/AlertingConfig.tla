--------------------------- MODULE AlertingConfig ---------------------------
(***************************************************************************)
(* The commands of src/scripts/alerting_config.py: each invocation p logs  *)
(* in (the handshake of LogtoLogin, unchanged) and, once it holds the      *)
(* backend JWT, sends the one request of its command to the backend:       *)
(* get, set or delete of the organization's alerting configuration, or    *)
(* the listing of its alerts (cmd_get, cmd_set, cmd_delete, cmd_alerts).   *)
(* Invocations run concurrently against the same organization.           *)
(*                                                                         *)
(* The backend is the environment: it applies or refuses a request (a     *)
(* 403 with a JSON message for a role that may not manage the            *)
(* organization); when Faults is TRUE the gateway may answer 502 instead,  *)
(* or the transport fail, after the backend did or did not apply it.     *)
(***************************************************************************)
EXTENDS LogtoLogin

CONSTANTS
    Configs,     \* the configurations a --config file may hold
    Unreadable,  \* a --config file that open() or json.load() rejects
    Blackhole    \* the configuration DELETE installs: every alert dropped

ASSUME ConfigAssumption ==
    /\ Configs # {}
    /\ Unreadable \notin Configs \cup {Blackhole, None}
    /\ Blackhole \notin Configs \cup {None}
    \* The success messages are no configuration cmd_get could print.
    /\ {"updated", "disabled"} \cap (Configs \cup {Blackhole, None}) = {}

VARIABLES
    req,   \* req[p]: the subcommand of invocation p and its --config file
    co,    \* co[p]: the command's own state after the login
    be     \* the backend: the stored configuration, and whose writes it applied

cvars == <<req, co, be>>
allvars == <<pwOk, cl, ia, req, co, be>>

-----------------------------------------------------------------------------
(* Data.                                                                   *)

Empty == ""     \* what cmd_get prints when the reply has no data.config
Requests == {[cmd |-> c, config |-> None] : c \in {"get", "delete", "alerts"}}
              \cup {[cmd |-> "set", config |-> f] : f \in Configs \cup {Unreadable}}
\* What an invocation printed on stdout.
Outputs == {None, Empty, "updated", "disabled", "alerts", "noalerts"} \cup Configs \cup {Blackhole}
CPcs == {"login", "ok", "failed", "crashed"}
CErrors == {None, "ConfigFileError", "BackendError", "NetworkError",
            "JSONDecodeError", "AttributeError"}
CLocals == [pc : CPcs, out : Outputs, err : CErrors]
Backends == [store : Configs \cup {Blackhole}, applied : SUBSET Procs]

-----------------------------------------------------------------------------
(* The backend's honest answers, on the state b of the backend.  A role    *)
(* that may not manage the organization gets 403 and changes nothing.    *)

Refused(b) == Ans(Reply(403, "msg", None), b)

\* GET /alerting/config: {data: {config}}.
BeGet(b) == {Ans(Reply(200, "cfg", None), b), Refused(b)}
\* POST /alerting/config with config c, by invocation p.
BeSet(b, c, p) == {Ans(Reply(200, "cfg", None), [b EXCEPT !.store = c, !.applied = @ \cup {p}]),
                   Refused(b)}
\* DELETE /alerting/config, by invocation p: the blackhole configuration.
BeDelete(b, p) == {Ans(Reply(200, "cfg", None), [b EXCEPT !.store = Blackhole, !.applied = @ \cup {p}]),
                   Refused(b)}
\* GET /alerting/alerts: a list of alerts, empty or not.
BeAlerts(b) == {Ans(Reply(200, j, None), b) : j \in {"alerts", "noalerts"}} \cup {Refused(b)}

-----------------------------------------------------------------------------
(* The commands.                                                           *)

\* The process exits with error e at pc q, or ends printing o.
Quit(p, q, e) == [co[p] EXCEPT !.pc = q, !.err = e]
Show(p, o) == [co[p] EXCEPT !.pc = "ok", !.out = o]

\* data = r.json(), then `if not r.ok: ... data.get('message', r.text)`:
\* a body that is not JSON raises before the status is looked at.  The
\* error replies of the backend carry a JSON message, so data.get finds a
\* dict here; a JSON null body comes only with a 2xx reply, handled by the
\* caller.
Failed(p, r) ==
    IF r.status = NoResponse THEN Quit(p, "crashed", "NetworkError")
    ELSE IF r.json = NotJson THEN Quit(p, "crashed", "JSONDecodeError")
    ELSE Quit(p, "failed", "BackendError")

\* The process p holds the JWT (line 192, 211, 236 or 254 returned) and has
\* not yet sent its request.
LoggedIn(p) == cl[p].pc = "done" /\ co[p].pc = "login"

\* The request of p to the backend with honest answers H; Handle(r) is the
\* process's handling of the reply r.
Request(p, H, Handle(_)) ==
    \E a \in UNION {Answers(h, be) : h \in H} :
        /\ be' = a.x
        /\ co' = [co EXCEPT ![p] = Handle(a.r)]
        /\ UNCHANGED <<pwOk, cl, ia, req>>

\* Lines 191-207: GET the configuration and print data.data.config.
GetConfig(p) ==
    /\ LoggedIn(p) /\ req[p].cmd = "get"
    /\ Request(p, BeGet(be),
           LAMBDA r : IF r.json = NotJson \/ ~Ok(r.status) THEN Failed(p, r)
                      ELSE IF r.json = Null THEN Quit(p, "crashed", "AttributeError")
                      ELSE Show(p, IF r.json = "cfg" THEN be.store ELSE Empty))

\* Mutant of SetConfig: the reply's status never looked at.
SetConfigIgnoringStatus(p) ==
    /\ LoggedIn(p) /\ req[p].cmd = "set"
    /\ \/ /\ req[p].config = Unreadable
          /\ co' = [co EXCEPT ![p] = Quit(p, "failed", "ConfigFileError")]
          /\ UNCHANGED <<pwOk, cl, ia, req, be>>
       \/ /\ req[p].config # Unreadable
          /\ Request(p, BeSet(be, req[p].config, p),
                 LAMBDA r : IF r.json = NotJson THEN Failed(p, r)
                            ELSE Show(p, "updated"))

\* Mutant of SetConfig: the file read without the try, its content sent.
SetConfigUnchecked(p) ==
    /\ LoggedIn(p) /\ req[p].cmd = "set"
    /\ Request(p, BeSet(be, req[p].config, p),
           LAMBDA r : IF r.json = NotJson \/ ~Ok(r.status) THEN Failed(p, r)
                      ELSE Show(p, "updated"))

\* Lines 210-232: read the --config file (exit if unreadable), POST it.
SetConfig(p) ==
    /\ LoggedIn(p) /\ req[p].cmd = "set"
    /\ \/ /\ req[p].config = Unreadable
          /\ co' = [co EXCEPT ![p] = Quit(p, "failed", "ConfigFileError")]
          /\ UNCHANGED <<pwOk, cl, ia, req, be>>
       \/ /\ req[p].config # Unreadable
          /\ Request(p, BeSet(be, req[p].config, p),
                 LAMBDA r : IF r.json = NotJson \/ ~Ok(r.status) THEN Failed(p, r)
                            ELSE Show(p, "updated"))

\* Lines 235-250: DELETE the configuration.
DeleteConfig(p) ==
    /\ LoggedIn(p) /\ req[p].cmd = "delete"
    /\ Request(p, BeDelete(be, p),
           LAMBDA r : IF r.json = NotJson \/ ~Ok(r.status) THEN Failed(p, r)
                      ELSE Show(p, "disabled"))

\* Lines 253-279: GET the alerts; "No alerts found." for an empty or
\* missing list.
ListAlerts(p) ==
    /\ LoggedIn(p) /\ req[p].cmd = "alerts"
    /\ Request(p, BeAlerts(be),
           LAMBDA r : IF r.json = NotJson \/ ~Ok(r.status) THEN Failed(p, r)
                      ELSE IF r.json = Null THEN Quit(p, "crashed", "AttributeError")
                      ELSE Show(p, IF r.json = "alerts" THEN "alerts" ELSE "noalerts"))

\* A step of the login of p, which the commands leave alone.
LoginStep(p) == Step(p) /\ UNCHANGED cvars

\* An invocation ends when its login exits or its command does.
Finished(p) == cl[p].pc \in {"failed", "crashed"} \/ co[p].pc # "login"

AllFinished == (\A p \in Procs : Finished(p)) /\ UNCHANGED allvars

-----------------------------------------------------------------------------

\* main (lines 282-324): each invocation is given one subcommand.
CInit ==
    /\ Init
    /\ req \in [Procs -> Requests]
    /\ co = [p \in Procs |-> [pc |-> "login", out |-> None, err |-> None]]
    /\ be \in {[store |-> c, applied |-> {}] : c \in Configs \cup {Blackhole}}

Command(p) == GetConfig(p) \/ SetConfig(p) \/ DeleteConfig(p) \/ ListAlerts(p)

CNext == (\E p \in Procs : LoginStep(p) \/ Command(p)) \/ AllFinished

CSpec == CInit /\ [][CNext]_allvars
             /\ \A p \in Procs : WF_allvars(LoginStep(p) \/ Command(p))

-----------------------------------------------------------------------------
(* Properties.                                                             *)

CTypeOK ==
    /\ TypeOK
    /\ req \in [Procs -> Requests]
    /\ co \in [Procs -> CLocals]
    /\ be \in Backends

\* "Alerting configuration updated successfully." and "All alerts disabled
\* successfully." are printed only by an invocation whose request the
\* backend applied, whatever the gateway answered and whatever the other
\* invocations did meanwhile.
SuccessMeansApplied ==
    \A p \in Procs : co[p].out \in {"updated", "disabled"} => p \in be.applied

\* Spec, section 7: a non-2xx answer of the backend is reported with its
\* message "from JSON message field or raw body"; the command exits with
\* BackendError rather than an exception.
BackendErrorsReported ==
    \A p \in Procs : co[p].pc = "crashed" => co[p].err = "NetworkError"

=============================================================================
