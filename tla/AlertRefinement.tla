--------------------------- MODULE AlertRefinement ---------------------------
(***************************************************************************)
(* AlertCli implements AlertAbstract: the abstract state of an invocation  *)
(* is read off the pc and the error of alert.py's process, and the         *)
(* requests Alertmanager applied off the entries of its log.               *)
(***************************************************************************)
EXTENDS AlertCli

\* "running" while the request is out, "done" once the result was printed,
\* "failed" after any exit with an error.
AlertState ==
    [p \in Procs |->
        IF cli[p].pc = "start" THEN "start"
        ELSE IF cli[p].pc = "sent" THEN "running"
        ELSE IF cli[p].pc = "done" THEN "done"
        ELSE "failed"]

\* The invocations that reached requests.post: the errors raised before it
\* (InvalidPair by parse_kv, OverflowError by timedelta) are the ones that
\* send nothing.
Requested ==
    {p \in Procs : cli[p].pc \in {"sent", "done"} \/ cli[p].err \in {"HTTPError", "NetworkError"}}

\* The invocations whose request Alertmanager applied.
Applied == {e.p : e \in am.log}

\* What makes the refinement hold, beyond the invariant of AlertCliProofs:
\* an invocation that has not started has no error and nothing in the log
\* (Alertmanager applies nothing of it), and a request in flight belongs to
\* an invocation that sent it and that Alertmanager has not applied yet
\* (each invocation sends one request, and delivery takes it off the wire).
RInv ==
    /\ \A p \in Procs : cli[p].pc = "start" => cli[p].err = None /\ p \notin Applied
    /\ \A p \in Procs : net[p].req # None => p \in Requested \ Applied

AbsAlerts == INSTANCE AlertAbstract
    WITH cmd <- [p \in Procs |-> args[p].cmd], st <- AlertState,
         sent <- Requested, applied <- Applied

\* alert.py, with whatever faults of the gateway and the network and any
\* interleaving of invocations, behaves as AlertAbstract says: an
\* invocation that exits on a bad key=value item or an overflowing duration
\* never reaches Alertmanager, Alertmanager applies only a request that was
\* sent and never a listing, and a success line follows the application of
\* its request.  Applied is a set, so the mapping does not tell one
\* application from two; NoDuplicateApplication of AlertCli says that.
AbstractAlerts == AbsAlerts!AbsSpec
=============================================================================
