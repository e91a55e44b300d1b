------------------------- MODULE AlertRefinementProofs -------------------------
(***************************************************************************)
(* Proof that alert.py, as AlertCli models it, implements AlertAbstract    *)
(* under the mapping of AlertRefinement, for every set of invocations,     *)
(* every set of command lines and either value of Faults.                  *)
(***************************************************************************)
EXTENDS AlertRefinement, AlertCliProofs

\* The abstract state and the sent flag of one client record.
StOf(c) ==
    IF c.pc = "start" THEN "start"
    ELSE IF c.pc = "sent" THEN "running"
    ELSE IF c.pc = "done" THEN "done"
    ELSE "failed"
ReqOf(c) == c.pc \in {"sent", "done"} \/ c.err \in {"HTTPError", "NetworkError"}

-----------------------------------------------------------------------------
(* How a step of one invocation moves the mapping.                         *)

\* A step that replaces the record of p alone changes the abstract state
\* of p alone, and whether p sent its request.
LEMMA CliUpdate ==
    ASSUME AInv, NEW p \in Procs, NEW c, cli' = [cli EXCEPT ![p] = c]
    PROVE  /\ AlertState' = [AlertState EXCEPT ![p] = StOf(c)]
           /\ Requested' = IF ReqOf(c) THEN Requested \cup {p} ELSE Requested \ {p}
<1>1. DOMAIN cli = Procs  BY DEF AInv
<1>2. AlertState' = [AlertState EXCEPT ![p] = StOf(c)]
  BY <1>1 DEF AlertState, StOf
<1>3. Requested' = IF ReqOf(c) THEN Requested \cup {p} ELSE Requested \ {p}
  BY <1>1 DEF Requested, ReqOf
<1>4. QED  BY <1>2, <1>3

\* A step that leaves cli alone leaves the abstract states and the sent set.
LEMMA CliSame ==
    ASSUME cli' = cli
    PROVE  AlertState' = AlertState /\ Requested' = Requested
BY DEF AlertState, Requested

-----------------------------------------------------------------------------
(* The initial states.                                                     *)

LEMMA InitR == Init => RInv
BY DEF Init, RInv, Applied

\* An initial state of alert.py is one of AlertAbstract: every invocation
\* at its start, nothing sent and nothing applied.
LEMMA InitRefines == Init => AbsAlerts!AbsInit
<1> SUFFICES ASSUME Init PROVE AbsAlerts!AbsInit
  OBVIOUS
<1>1. [p \in Procs |-> args[p].cmd] \in [Procs -> {"push", "resolve", "silence", "list"}]
  BY AlertAssumption DEF Init, Kinds
<1>2. AlertState = [p \in Procs |-> "start"]  BY DEF Init, AlertState
<1>3. Requested = {}  BY AlertAssumption DEF Init, Requested
<1>4. Applied = {}  BY DEF Init, Applied
<1>5. QED  BY <1>1, <1>2, <1>3, <1>4 DEF AbsAlerts!AbsInit

-----------------------------------------------------------------------------
(* The client's steps.                                                     *)

\* The record Exit and Send leave for p.
LEMMA ExitShape ==
    ASSUME AInv, NEW p \in Procs, NEW q, NEW e, Exit(p, q, e)
    PROVE  cli' = [cli EXCEPT ![p] = [pc |-> q, out |-> cli[p].out, err |-> e]]
<1>1. cli[p] = [pc |-> cli[p].pc, out |-> cli[p].out, err |-> cli[p].err]  BY DEF AInv
<1>2. cli' = [cli EXCEPT ![p] = [cli[p] EXCEPT !.pc = q, !.err = e]]  BY DEF Exit
<1>3. [cli[p] EXCEPT !.pc = q] = [pc |-> q, out |-> cli[p].out, err |-> cli[p].err]  BY <1>1
<1>4. [cli[p] EXCEPT !.pc = q, !.err = e] = [[cli[p] EXCEPT !.pc = q] EXCEPT !.err = e]  OBVIOUS
<1>5. [[pc |-> q, out |-> cli[p].out, err |-> cli[p].err] EXCEPT !.err = e]
      = [pc |-> q, out |-> cli[p].out, err |-> e]
  OBVIOUS
<1>6. QED  BY <1>2, <1>3, <1>4, <1>5

LEMMA SendShape ==
    ASSUME AInv, NEW p \in Procs, NEW m, Send(p, m)
    PROVE  cli' = [cli EXCEPT ![p] = [pc |-> "sent", out |-> cli[p].out, err |-> cli[p].err]]
<1>1. cli[p] = [pc |-> cli[p].pc, out |-> cli[p].out, err |-> cli[p].err]  BY DEF AInv
<1>2. cli' = [cli EXCEPT ![p] = [cli[p] EXCEPT !.pc = "sent"]]  BY DEF Send
<1>3. [cli[p] EXCEPT !.pc = "sent"] = [pc |-> "sent", out |-> cli[p].out, err |-> cli[p].err]
  BY <1>1
<1>4. QED  BY <1>2, <1>3

\* An invocation at its start is not among those that sent a request.
LEMMA StartNotRequested ==
    ASSUME RInv, NEW p \in Procs, cli[p].pc = "start"
    PROVE  p \notin Requested /\ p \notin Applied
BY AlertAssumption DEF RInv, Requested

\* parse_kv or timedelta exits before requests.post: Refuse.
LEMMA EarlyExitR ==
    ASSUME AInv, RInv, NEW p \in Procs, cli[p].pc = "start",
           NEW q \in {"failed", "crashed"}, NEW e \in {"InvalidPair", "OverflowError"},
           Exit(p, q, e), UNCHANGED <<args, net, am, now>>
    PROVE  RInv' /\ AbsAlerts!Refuse(p)
<1> DEFINE c == [pc |-> q, out |-> cli[p].out, err |-> e]
<1>1. cli' = [cli EXCEPT ![p] = c]  BY ExitShape
<1>2. AlertState' = [AlertState EXCEPT ![p] = "failed"] /\ Requested' = Requested \ {p}
  <2>1. StOf(c) = "failed" /\ ~ReqOf(c)  BY DEF StOf, ReqOf
  <2> HIDE DEF c
  <2>2. QED  BY <1>1, <2>1, CliUpdate
<1>3. p \notin Requested /\ p \notin Applied  BY StartNotRequested
<1>4. Requested' = Requested /\ Applied' = Applied  BY <1>2, <1>3 DEF Applied
<1>5. AlertState[p] = "start"  BY DEF AlertState
<1>6. \A s \in Procs : cli'[s].pc = "start" => cli'[s] = cli[s]  BY <1>1 DEF AInv
<1>7. RInv'  BY <1>4, <1>6 DEF RInv
<1>8. QED  BY <1>2, <1>4, <1>5, <1>7 DEF AbsAlerts!Refuse

\* The request goes out: Request.
LEMMA SendR ==
    ASSUME AInv, RInv, NEW p \in Procs, cli[p].pc = "start", NEW m,
           Send(p, m), UNCHANGED <<args, am, now>>
    PROVE  RInv' /\ AbsAlerts!Request(p)
<1> DEFINE c == [pc |-> "sent", out |-> cli[p].out, err |-> cli[p].err]
<1>1. cli' = [cli EXCEPT ![p] = c]  BY SendShape
<1>2. AlertState' = [AlertState EXCEPT ![p] = "running"] /\ Requested' = Requested \cup {p}
  <2>1. StOf(c) = "running" /\ ReqOf(c)  BY DEF StOf, ReqOf
  <2> HIDE DEF c
  <2>2. QED  BY <1>1, <2>1, CliUpdate
<1>3. p \notin Applied /\ Applied' = Applied  BY StartNotRequested DEF Applied
<1>4. net' = [net EXCEPT ![p] = [req |-> m, rep |-> None]]  BY DEF Send
<1>5. \A s \in Procs : net'[s].req # None => s \in Requested' \ Applied'
  BY <1>2, <1>3, <1>4 DEF RInv, AInv
<1>6. \A s \in Procs : cli'[s].pc = "start" => cli'[s] = cli[s]  BY <1>1 DEF AInv
<1>7. RInv'  BY <1>3, <1>5, <1>6 DEF RInv
<1>8. AlertState[p] = "start"  BY DEF AlertState
<1>9. QED  BY <1>2, <1>3, <1>7, <1>8 DEF AbsAlerts!Request


\* main's dispatch is Refuse or Request of the abstract invocation.
LEMMA InvokeR ==
    ASSUME AInv, RInv, NEW p \in Procs, Invoke(p)
    PROVE  RInv' /\ (AbsAlerts!Refuse(p) \/ AbsAlerts!Request(p))
<1>1. cli[p].pc = "start" /\ UNCHANGED <<args, am, now>>  BY DEF Invoke
<1>2. CASE PushOrResolve(p)
  <2>1. \/ Exit(p, "failed", "InvalidPair") /\ UNCHANGED net
        \/ \E m : Send(p, m)
    BY <1>2 DEF PushOrResolve
  <2>2. QED  BY <1>1, <2>1, EarlyExitR, SendR
<1>3. CASE SilenceAlert(p)
  <2>1. \/ Exit(p, "crashed", "OverflowError") /\ UNCHANGED net
        \/ Exit(p, "failed", "InvalidPair") /\ UNCHANGED net
        \/ \E m : Send(p, m)
    BY <1>3 DEF SilenceAlert
  <2>2. QED  BY <1>1, <2>1, EarlyExitR, SendR
<1>4. CASE ListAlerts(p)  BY <1>1, <1>4, SendR DEF ListAlerts
<1>5. QED  BY <1>2, <1>3, <1>4 DEF Invoke

\* Reading the reply: Succeed for a printed result, Fail for an error.
LEMMA ReceiveR ==
    ASSUME AInv, RInv, NEW p \in Procs, Receive(p)
    PROVE  RInv' /\ (AbsAlerts!Succeed(p) \/ AbsAlerts!Fail(p))
<1> DEFINE r == net[p].rep
           c == Outcome(args[p], r)
<1>1. cli' = [cli EXCEPT ![p] = c] /\ UNCHANGED <<args, net, am, now>>  BY DEF Receive
<1>2. /\ c.pc \in {"done", "failed"}
      /\ c.pc = "failed" => c.err = "HTTPError"
      /\ c.pc = "done" /\ args[p].cmd # "list" => Ok(r.status)
  BY DEF Outcome
<1>3. StOf(c) = (IF c.pc = "done" THEN "done" ELSE "failed") /\ ReqOf(c)
  BY <1>2 DEF StOf, ReqOf
<1>4. c.pc = "done" /\ args[p].cmd # "list" => p \in Applied
  BY <1>2 DEF Receive, AInv, Logged, Applied
<1> HIDE DEF c
<1>5. AlertState' = [AlertState EXCEPT ![p] = StOf(c)]
      /\ Requested' = Requested \cup {p}
  BY <1>1, <1>3, CliUpdate
<1>6. p \in Requested /\ AlertState[p] = "running"  BY DEF Receive, Requested, AlertState
<1>7. Requested' = Requested /\ Applied' = Applied  BY <1>1, <1>5, <1>6 DEF Applied
<1>8. \A s \in Procs : cli'[s].pc = "start" => cli'[s] = cli[s]  BY <1>1, <1>2 DEF AInv
<1>9. RInv'  BY <1>1, <1>7, <1>8 DEF RInv
<1>10. CASE c.pc = "done"
  BY <1>3, <1>4, <1>5, <1>6, <1>7, <1>9, <1>10, <1>1 DEF AbsAlerts!Succeed
<1>11. CASE c.pc # "done"
  BY <1>3, <1>5, <1>6, <1>7, <1>9, <1>11, <1>1 DEF AbsAlerts!Fail
<1>12. QED  BY <1>10, <1>11

\* The timeout raises: Fail, with the request possibly still in flight.
LEMMA TimedOutR ==
    ASSUME AInv, RInv, NEW p \in Procs, TimedOut(p)
    PROVE  RInv' /\ AbsAlerts!Fail(p)
<1> DEFINE c == [pc |-> "crashed", out |-> cli[p].out, err |-> "NetworkError"]
<1>1. cli' = [cli EXCEPT ![p] = c] /\ UNCHANGED <<args, net, am, now>>
  BY ExitShape DEF TimedOut
<1>2. StOf(c) = "failed" /\ ReqOf(c)  BY DEF StOf, ReqOf
<1> HIDE DEF c
<1>3. AlertState' = [AlertState EXCEPT ![p] = "failed"] /\ Requested' = Requested \cup {p}
  BY <1>1, <1>2, CliUpdate
<1>4. p \in Requested /\ AlertState[p] = "running"  BY DEF TimedOut, Requested, AlertState
<1>5. Requested' = Requested /\ Applied' = Applied  BY <1>1, <1>3, <1>4 DEF Applied
<1>6. \A s \in Procs : cli'[s].pc = "start" => cli'[s] = cli[s]  BY <1>1 DEF AInv, c
<1>7. RInv'  BY <1>1, <1>5, <1>6 DEF RInv
<1>8. QED  BY <1>1, <1>3, <1>4, <1>5, <1>7 DEF AbsAlerts!Fail


-----------------------------------------------------------------------------
(* Alertmanager, the network and the clock.                                *)

\* Processing a request of p leaves the log, or adds one entry of p when p
\* is not a listing.
LEMMA ProcessLog ==
    ASSUME AInv, NEW p \in Procs, net[p].req # None, NEW o, o = Process(p, net[p].req)
    PROVE  \/ o.am.log = am.log
           \/ /\ args[p].cmd # "list"
              /\ \E x : o.am.log = am.log \cup {[p |-> p, labels |-> x]}
<1> DEFINE rq == net[p].req
<1>1. rq.kind = args[p].cmd  BY DEF AInv
<1>2. am = [firing |-> am.firing, silences |-> am.silences, log |-> am.log]  BY DEF AInv
<1>3. CASE ~args[p].secretOk
  BY <1>3 DEF Process
<1>4. CASE args[p].secretOk /\ rq.kind = "push"
  <2>1. o.am = [am EXCEPT !.firing = am.firing \cup {rq.labels},
                          !.log = am.log \cup {[p |-> p, labels |-> rq.labels]}]
    BY <1>4 DEF Process
  <2>2. o.am.log = am.log \cup {[p |-> p, labels |-> rq.labels]}  BY <1>2, <2>1
  <2>3. QED  BY <1>1, <1>4, <2>2
<1>5. CASE args[p].secretOk /\ rq.kind = "resolve"
  <2>1. o.am = [am EXCEPT !.firing = am.firing \ {rq.labels},
                          !.log = am.log \cup {[p |-> p, labels |-> rq.labels]}]
    BY <1>5 DEF Process
  <2>2. o.am.log = am.log \cup {[p |-> p, labels |-> rq.labels]}  BY <1>2, <2>1
  <2>3. QED  BY <1>1, <1>5, <2>2
<1>6. CASE args[p].secretOk /\ rq.kind = "silence" /\ rq.ends <= now
  BY <1>6 DEF Process
<1>7. CASE args[p].secretOk /\ rq.kind = "silence" /\ ~(rq.ends <= now)
  <2>1. o.am = [am EXCEPT !.silences = am.silences \cup {[m |-> rq.matchers, ends |-> rq.ends]},
                          !.log = am.log \cup {[p |-> p, labels |-> None]}]
    BY <1>7 DEF Process
  <2>2. o.am.log = am.log \cup {[p |-> p, labels |-> None]}  BY <1>2, <2>1
  <2>3. QED  BY <1>1, <1>7, <2>2
<1>8. CASE args[p].secretOk /\ rq.kind \notin {"push", "resolve", "silence"}
  BY <1>8 DEF Process
<1>9. QED  BY <1>3, <1>4, <1>5, <1>6, <1>7, <1>8

\* Delivery is Apply when Alertmanager logged the request, else a stutter.
LEMMA DeliverR ==
    ASSUME AInv, RInv, NEW p \in Procs, Deliver(p)
    PROVE  RInv' /\ (AbsAlerts!Apply(p) \/ UNCHANGED AbsAlerts!absvars)
<1>1. net[p].req # None  BY DEF Deliver
<1>2. PICK o : o = Process(p, net[p].req)  OBVIOUS
<1>3. \/ o.am.log = am.log
      \/ /\ args[p].cmd # "list"
         /\ \E x : o.am.log = am.log \cup {[p |-> p, labels |-> x]}
  BY <1>1, <1>2, ProcessLog
<1>4. /\ am' \in {am, o.am}
      /\ \E rp : net' = [net EXCEPT ![p] = [req |-> None, rep |-> rp]]
      /\ UNCHANGED <<args, cli, now>>
  BY <1>2 DEF Deliver
<1>5. \/ Applied' = Applied
      \/ args[p].cmd # "list" /\ Applied' = Applied \cup {p}
  BY <1>3, <1>4 DEF Applied
<1>6. p \in Requested \ Applied /\ cli[p].pc # "start"  BY <1>1, StartNotRequested DEF RInv
<1>7. AlertState' = AlertState /\ Requested' = Requested  BY <1>4, CliSame
<1>8. \A s \in Procs : net'[s].req # None => s # p /\ net'[s] = net[s]
  BY <1>4 DEF AInv
<1>9. RInv'  BY <1>4, <1>5, <1>6, <1>7, <1>8 DEF RInv
<1>10. CASE Applied' = Applied
  BY <1>4, <1>7, <1>9, <1>10 DEF AbsAlerts!absvars
<1>11. CASE args[p].cmd # "list" /\ Applied' = Applied \cup {p}
  BY <1>4, <1>6, <1>7, <1>9, <1>11 DEF AbsAlerts!Apply
<1>12. QED  BY <1>5, <1>10, <1>11

\* A lost request, a resolve_timeout, a tick and the final stutter change
\* nothing the abstract invocations see.
LEMMA EnvR ==
    ASSUME AInv, RInv,
           \/ \E p \in Procs : Lose(p)
           \/ ResolveTimeout \/ Tick \/ Terminated \/ UNCHANGED vars
    PROVE  RInv' /\ UNCHANGED AbsAlerts!absvars
<1>1. /\ UNCHANGED <<args, cli>>
      /\ am'.log = am.log
      /\ \A s \in Procs : net'[s].req # None => net'[s].req = net[s].req
  <2>1. CASE \E p \in Procs : Lose(p)
    <3>1. PICK p \in Procs : Lose(p)  BY <2>1
    <3>2. net' = [net EXCEPT ![p] = [net[p] EXCEPT !.req = None]]  BY <3>1 DEF Lose
    <3>3. QED  BY <3>1, <3>2 DEF Lose, AInv
  <2>2. CASE ResolveTimeout
    <3>1. PICK l \in am.firing : am' = [am EXCEPT !.firing = am.firing \ {l}]  BY <2>2 DEF ResolveTimeout
    <3>2. QED  BY <2>2, <3>1 DEF ResolveTimeout, AInv
  <2>3. CASE Tick \/ Terminated \/ UNCHANGED vars  BY <2>3 DEF Tick, Terminated, vars
  <2>4. QED  BY <2>1, <2>2, <2>3
<1>2. AlertState' = AlertState /\ Requested' = Requested /\ Applied' = Applied
  BY <1>1, CliSame DEF Applied
<1>3. RInv'  BY <1>1, <1>2 DEF RInv
<1>4. QED  BY <1>1, <1>2, <1>3 DEF AbsAlerts!absvars


-----------------------------------------------------------------------------
(* The refinement.                                                         *)

\* Every step of alert.py keeps RInv and is a step of AlertAbstract or
\* leaves the abstract state alone.
LEMMA NextRefines ==
    ASSUME AInv, RInv, [Next]_vars
    PROVE  RInv' /\ [AbsAlerts!AbsNext]_AbsAlerts!absvars
<1>1. CASE \E p \in Procs : Client(p) \/ Deliver(p)
  <2>1. PICK p \in Procs : Invoke(p) \/ Receive(p) \/ TimedOut(p) \/ Deliver(p)
    BY <1>1 DEF Client
  <2>2. QED  BY <2>1, InvokeR, ReceiveR, TimedOutR, DeliverR DEF AbsAlerts!AbsNext
<1>2. CASE \/ \E p \in Procs : Lose(p)
           \/ ResolveTimeout \/ Tick \/ Terminated \/ UNCHANGED vars
  BY <1>2, EnvR
<1>3. QED  BY <1>1, <1>2 DEF Next

\* AInv and RInv hold in every state of every behaviour.
THEOREM RInvariant == Spec => [](AInv /\ RInv)
<1>1. Init => AInv /\ RInv  BY InitA, InitR
<1>2. AInv /\ RInv /\ [Next]_vars => (AInv /\ RInv)'  BY NextA, NextRefines
<1>3. QED  BY <1>1, <1>2, PTL DEF Spec

\* AbstractAlerts: for every set of invocations and command lines, with or
\* without faults of the gateway and the network, alert.py behaves as
\* AlertAbstract: an invocation that exits on a bad key=value item or an
\* overflowing duration never reaches Alertmanager, Alertmanager applies
\* only a request that was sent and never a listing, and a success line of
\* push, resolve or silence follows its application.
THEOREM Refinement == Spec => AbstractAlerts
<1>1. Init => AbsAlerts!AbsInit  BY InitRefines
<1>2. AInv /\ RInv /\ [Next]_vars => [AbsAlerts!AbsNext]_AbsAlerts!absvars  BY NextRefines
<1>3. QED  BY <1>1, <1>2, RInvariant, PTL DEF Spec, AbstractAlerts, AbsAlerts!AbsSpec

\* The second conjunct of RInv names the invocations in Applied; the
\* property names the entries of the log.
LEMMA RInvNoDuplicate == RInv => NoDuplicateApplication
BY DEF RInv, NoDuplicateApplication, Applied

\* NoDuplicateApplication: for every set of invocations, with or without
\* faults, a request on the wire belongs to an invocation whose request
\* Alertmanager has not applied: alert.py never posts a request again after
\* a timeout or a 502 that may follow its application.
THEOREM NoDuplicateApplicationHolds == Spec => []NoDuplicateApplication
BY RInvariant, RInvNoDuplicate, PTL

=============================================================================
