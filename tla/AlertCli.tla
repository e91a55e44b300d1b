------------------------------ MODULE AlertCli ------------------------------
(***************************************************************************)
(* src/scripts/alert.py: each invocation p runs one subcommand, push,     *)
(* resolve, silence or list, which sends one HTTP request to the          *)
(* Alertmanager proxy with timeout=30 and reports the answer.  Concurrent  *)
(* invocations share the Alertmanager of the tenant.                      *)
(*                                                                         *)
(* A request is in flight between the client's send and Alertmanager's    *)
(* processing of it, and the reply between that and the client's read:    *)
(* the client's timeout may fire while the request is still on its way,   *)
(* and Alertmanager may still apply it afterwards.                        *)
(*                                                                         *)
(* Alertmanager keeps the firing alerts by label set (a POST of an alert   *)
(* with the same labels replaces the older one, so the last one to arrive  *)
(* decides whether the alert fires) and the silences with their matchers   *)
(* and end time.  Time is a small counter of minutes.                     *)
(***************************************************************************)
EXTENDS Integers, Sequences

CONSTANTS
    Procs,     \* concurrent invocations of alert.py
    Names,     \* the label names a --labels pair may set
    Values,    \* label values: alertnames, severities, keys, hosts
    Args,      \* the parsed command lines an invocation may be given
    Bad,       \* a --labels or --annotations item without '='
    Huge,      \* a --duration whose timedelta leaves datetime's range
    None,      \* Python's None: an absent option, no request, no reply
    Faults,    \* may the gateway fail and replies be lost?
    MaxTime    \* the last minute the model reaches

\* The keys push_alert and resolve_alert set before the --labels update.
BaseNames == {"alertname", "severity", "system_key"}

\* A --labels or --annotations item: "k=v" split at its first '=', or Bad.
Pairs == [k : Names \cup BaseNames, v : Values] \cup {Bad}

\* The subcommands of main (line 196: dest="command", required=True).
Kinds == {"push", "resolve", "silence", "list"}

ASSUME AlertAssumption ==
    /\ MaxTime \in Nat
    /\ Bad \notin [k : Names \cup BaseNames, v : Values]
    /\ None \notin Values \cup {Bad, Huge}
    \* None is the absence of an error, not one of the errors' names.
    /\ None \notin {"InvalidPair", "OverflowError", "HTTPError", "NetworkError"}
    /\ Faults \in BOOLEAN
    \* argparse accepts a command line only with one of the subcommands.
    /\ \A a \in Args : a.cmd \in Kinds

VARIABLES
    args,  \* args[p]: the command line of invocation p
    cli,   \* cli[p]: where p is, what it printed on stdout, what it exited with
    net,   \* net[p]: p's request in flight and Alertmanager's reply to it
    am,    \* Alertmanager: firing alerts, silences, and the ghost log of applied requests
    now    \* the current minute

vars == <<args, cli, net, am, now>>

-----------------------------------------------------------------------------
(* parse_kv (lines 46-55): later pairs override earlier ones; an item      *)
(* without '=' makes the process exit.  A dict is a function from its      *)
(* keys.                                                                   *)

EmptyDict == [x \in {} |-> None]

\* result[k] = v
Put(d, pr) == [x \in DOMAIN d \cup {pr.k} |-> IF x = pr.k THEN pr.v ELSE d[x]]

\* The loop of lines 49-54: dict[i] is result after the first i pairs.
ParseKv(pairs) ==
    LET dict[i \in 0..Len(pairs)] ==
            IF i = 0 THEN EmptyDict ELSE Put(dict[i - 1], pairs[i])
    IN  IF \E i \in DOMAIN pairs : pairs[i] = Bad THEN Bad ELSE dict[Len(pairs)]

\* Mutant of Labels: labels = parse_kv(args.labels) or the base labels.
LabelsReplaced(a, extra) ==
    IF DOMAIN extra # {} THEN extra
    ELSE [x \in BaseNames |-> IF x = "alertname" THEN a.name
                             ELSE IF x = "severity" THEN a.sev ELSE a.key]

\* labels = {alertname, severity, system_key}; labels.update(extra)
Labels(a, extra) ==
    [x \in BaseNames \cup DOMAIN extra |->
        IF x \in DOMAIN extra THEN extra[x]
        ELSE IF x = "alertname" THEN a.name
        ELSE IF x = "severity" THEN a.sev
        ELSE a.key]

-----------------------------------------------------------------------------
(* Alertmanager.                                                           *)

\* The matchers of a silence all hold on the label set l (isRegex false).
Matches(ms, l) == \A m \in ms : m[1] \in DOMAIN l /\ l[m[1]] = m[2]

\* A firing alert is suppressed while an unexpired silence matches it.
Muted(l) == \E s \in am.silences : now < s.ends /\ Matches(s.m, l)

\* The entries of GET /alerts: every alert not resolved, with status.state.
Listing == {[labels |-> l, state |-> IF Muted(l) THEN "suppressed" ELSE "active"]
              : l \in am.firing}

Reply(st, body) == [status |-> st, body |-> body]

\* Alertmanager's processing of the request m of p: the new state and its reply.
Process(p, m) ==
    IF ~args[p].secretOk THEN [am |-> am, r |-> Reply(401, None)]
    ELSE IF m.kind = "push" THEN
        [am |-> [am EXCEPT !.firing = @ \cup {m.labels}, !.log = @ \cup {[p |-> p, labels |-> m.labels]}],
         r |-> Reply(200, None)]
    ELSE IF m.kind = "resolve" THEN
        [am |-> [am EXCEPT !.firing = @ \ {m.labels}, !.log = @ \cup {[p |-> p, labels |-> m.labels]}],
         r |-> Reply(200, None)]
    ELSE IF m.kind = "silence" THEN
        IF m.ends <= now THEN [am |-> am, r |-> Reply(400, None)]
        ELSE [am |-> [am EXCEPT !.silences = @ \cup {[m |-> m.matchers, ends |-> m.ends]},
                                !.log = @ \cup {[p |-> p, labels |-> None]}],
              r |-> Reply(200, None)]
    ELSE [am |-> am, r |-> Reply(200, Listing)]

\* Alertmanager takes p's request off the wire and answers it.  With
\* Faults the gateway may answer 502 with a text body before or after
\* Alertmanager applied it, or the reply may be lost.
Deliver(p) ==
    /\ net[p].req # None
    /\ LET o == Process(p, net[p].req) IN
         \/ /\ am' = o.am
            /\ net' = [net EXCEPT ![p] = [req |-> None, rep |-> o.r]]
         \/ /\ Faults
            /\ am' \in {am, o.am}
            /\ net' = [net EXCEPT ![p] = [req |-> None, rep |-> Reply(502, None)]]
         \/ /\ Faults
            /\ am' = o.am
            /\ net' = [net EXCEPT ![p] = [req |-> None, rep |-> None]]
    /\ UNCHANGED <<args, cli, now>>

\* With Faults the request is lost on its way.
Lose(p) ==
    /\ Faults /\ net[p].req # None
    /\ net' = [net EXCEPT ![p].req = None]
    /\ UNCHANGED <<args, cli, am, now>>

\* A firing alert that is not pushed again resolves after resolve_timeout.
ResolveTimeout ==
    /\ \E l \in am.firing : am' = [am EXCEPT !.firing = @ \ {l}]
    /\ UNCHANGED <<args, cli, net, now>>

Tick ==
    /\ now < MaxTime
    /\ now' = now + 1
    /\ UNCHANGED <<args, cli, net, am>>

-----------------------------------------------------------------------------
(* The client.                                                             *)

Exit(p, pc, e) == cli' = [cli EXCEPT ![p] = [@ EXCEPT !.pc = pc, !.err = e]]
Send(p, m) ==
    /\ net' = [net EXCEPT ![p] = [req |-> m, rep |-> None]]
    /\ cli' = [cli EXCEPT ![p].pc = "sent"]

Request(kind, lbls, ms, ends) == [kind |-> kind, labels |-> lbls, matchers |-> ms, ends |-> ends]

\* Mutant of PushOrResolve: the annotations parsed after requests.post, so
\* a bad --annotations item exits with the alert already on its way.
PushOrResolveLateAnnotations(p) ==
    LET a == args[p]
        extra == ParseKv(a.labels)
    IN /\ a.cmd \in {"push", "resolve"}
       /\ IF extra = Bad THEN Exit(p, "failed", "InvalidPair") /\ UNCHANGED net
          ELSE IF a.cmd = "push" /\ ParseKv(a.annotations) = Bad
            THEN /\ net' = [net EXCEPT ![p] = [req |-> Request(a.cmd, Labels(a, extra), None, None),
                                               rep |-> None]]
                 /\ Exit(p, "failed", "InvalidPair")
          ELSE Send(p, Request(a.cmd, Labels(a, extra), None, None))

\* Lines 58-84 and 93-118: build the labels (and, for push, the
\* annotations), then POST the alert.
PushOrResolve(p) ==
    LET a == args[p]
        extra == ParseKv(a.labels)
    IN /\ a.cmd \in {"push", "resolve"}
       /\ IF extra = Bad \/ (a.cmd = "push" /\ ParseKv(a.annotations) = Bad)
            THEN Exit(p, "failed", "InvalidPair") /\ UNCHANGED net
            ELSE Send(p, Request(a.cmd, Labels(a, extra), None, None))

\* Lines 127-151: ends_at = now + duration, the alertname matcher then one
\* matcher per --labels pair, POST the silence.
SilenceAlert(p) ==
    LET a == args[p]
        extra == ParseKv(a.labels)
    IN /\ a.cmd = "silence"
       /\ IF a.duration = Huge THEN Exit(p, "crashed", "OverflowError") /\ UNCHANGED net
          ELSE IF extra = Bad THEN Exit(p, "failed", "InvalidPair") /\ UNCHANGED net
          ELSE Send(p, Request("silence", None,
                               {<<"alertname", a.name>>} \cup {<<k, extra[k]>> : k \in DOMAIN extra},
                               now + a.duration))

\* Lines 161-169: GET the alerts.
ListAlerts(p) ==
    /\ args[p].cmd = "list"
    /\ Send(p, Request("list", None, None, None))

\* main, lines 224-233: the subcommand's function up to its request.
Invoke(p) ==
    /\ cli[p].pc = "start"
    /\ PushOrResolve(p) \/ SilenceAlert(p) \/ ListAlerts(p)
    /\ UNCHANGED <<args, am, now>>

Ok(st) == st \in 200..399

\* The client-side filters of lines 178-181.
Shown(a, body) ==
    {e \in body : /\ (a.state # None => e.state = a.state)
                  /\ (a.severity # None => "severity" \in DOMAIN e.labels
                                           /\ e.labels["severity"] = a.severity)}

\* Mutant of Outcome: the success message printed without `if resp.ok`.
OutcomeIgnoringStatus(a, r) ==
    IF a.cmd # "list" THEN [pc |-> "done", out |-> a.cmd, err |-> None]
    ELSE IF ~Ok(r.status) THEN [pc |-> "failed", out |-> None, err |-> "HTTPError"]
    ELSE IF Shown(a, r.body) = {} THEN [pc |-> "done", out |-> "noalerts", err |-> None]
    ELSE [pc |-> "done", out |-> Shown(a, r.body), err |-> None]

\* The reply handling: lines 86-90, 120-124, 153-158 and 171-187.  Only
\* a 2xx reply is decoded, and Alertmanager's 2xx bodies are JSON.
Outcome(a, r) ==
    IF ~Ok(r.status) THEN [pc |-> "failed", out |-> None, err |-> "HTTPError"]
    ELSE IF a.cmd # "list" THEN [pc |-> "done", out |-> a.cmd, err |-> None]
    ELSE IF Shown(a, r.body) = {} THEN [pc |-> "done", out |-> "noalerts", err |-> None]
    ELSE [pc |-> "done", out |-> Shown(a, r.body), err |-> None]

Receive(p) ==
    /\ cli[p].pc = "sent" /\ net[p].rep # None
    /\ cli' = [cli EXCEPT ![p] = Outcome(args[p], net[p].rep)]
    /\ UNCHANGED <<args, net, am, now>>

\* Mutant of TimedOut: requests called without timeout, so a client whose
\* request or reply is lost keeps waiting.
WaitForever(p) ==
    /\ cli[p].pc = "sent" /\ net[p].rep = None
    /\ UNCHANGED vars

\* Mutant of TimedOut: the subcommand retried on a timeout, as a retry
\* loop around requests.post would do.
TimedOutRetry(p) ==
    /\ cli[p].pc = "sent" /\ net[p].rep = None
    /\ cli' = [cli EXCEPT ![p].pc = "start"]
    /\ UNCHANGED <<args, net, am, now>>

\* timeout=30: no reply yet, requests raises (Timeout or ConnectionError)
\* and the traceback ends the process; the request may still be in flight.
TimedOut(p) ==
    /\ cli[p].pc = "sent" /\ net[p].rep = None
    /\ Exit(p, "crashed", "NetworkError")
    /\ UNCHANGED <<args, net, am, now>>

Client(p) == Invoke(p) \/ Receive(p) \/ TimedOut(p)

Exited == {"done", "failed", "crashed"}

Terminated ==
    /\ \A p \in Procs : cli[p].pc \in Exited /\ net[p].req = None
    /\ UNCHANGED vars

-----------------------------------------------------------------------------

Init ==
    /\ args \in [Procs -> Args]
    /\ cli = [p \in Procs |-> [pc |-> "start", out |-> None, err |-> None]]
    /\ net = [p \in Procs |-> [req |-> None, rep |-> None]]
    /\ am = [firing |-> {}, silences |-> {}, log |-> {}]
    /\ now = 0

Next ==
    \/ \E p \in Procs : Client(p) \/ Deliver(p) \/ Lose(p)
    \/ ResolveTimeout \/ Tick \/ Terminated

\* Each process runs to its end: the OS schedules it, and the timeout ends
\* its wait.  Nothing is assumed of Alertmanager, the network or the clock.
Spec == Init /\ [][Next]_vars /\ \A p \in Procs : WF_vars(Client(p))

-----------------------------------------------------------------------------
(* Properties.                                                             *)

\* A label set alert.py can post: the three base labels, and --labels.
IsLabelSet(l) ==
    /\ BaseNames \subseteq DOMAIN l
    /\ DOMAIN l \subseteq Names \cup BaseNames
    /\ \A x \in DOMAIN l : l[x] \in Values

AlertTypeOK ==
    /\ args \in [Procs -> Args]
    /\ \A p \in Procs :
         /\ cli[p].pc \in {"start", "sent"} \cup Exited
         /\ cli[p].err \in {None, "InvalidPair", "OverflowError", "HTTPError", "NetworkError"}
         /\ net[p].req = None \/ (net[p].req.kind \in Kinds /\
                                  (net[p].req.labels = None \/ IsLabelSet(net[p].req.labels)))
    /\ \A l \in am.firing : IsLabelSet(l)
    /\ now \in 0..MaxTime

\* "Alert ... pushed successfully", "resolved successfully" and "Silence
\* created" are printed only by an invocation whose request Alertmanager
\* applied, whatever the gateway, the network and the other invocations did.
SuccessMeansAccepted ==
    \A p \in Procs :
        cli[p].pc = "done" /\ args[p].cmd # "list" => \E e \in am.log : e.p = p

\* Alertmanager never applies a request of an invocation twice: a request
\* on the wire belongs to an invocation whose request it has not applied
\* yet.  alert.py posts once (lines 78, 112, 145) and a timeout or a 502
\* ends the process instead of posting again; a second push applied after
\* a concurrent resolve of the same alert would make it fire again.
NoDuplicateApplication ==
    \A p \in Procs : net[p].req # None => \A e \in am.log : e.p # p

\* Every invocation ends (prints its result or exits with an error), even
\* when Alertmanager never answers: the requests carry timeout=30.
EveryInvocationEnds == \A p \in Procs : <>(cli[p].pc \in Exited)

\* Spec, section 8: push sends the labels {alertname, severity,
\* system_key: <key>, ...}: every alert an invocation posted carries the
\* invocation's own --key as system_key.
PushKeepsSystemKey ==
    \A e \in am.log : e.labels # None => e.labels["system_key"] = args[e.p].key

\* The help of list --state (line 221) names "firing": list --state firing
\* prints "No alerts found." only when no alert was firing.
ListShowsFiringAlerts ==
    \A p \in Procs :
        /\ args[p].cmd = "list" /\ args[p].state = "firing"
        /\ cli[p].out = "noalerts"
        => net[p].rep.body = {}

====
