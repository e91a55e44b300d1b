---------------------------- MODULE AlertCliProofs ----------------------------
(***************************************************************************)
(* Proofs about alert.py (AlertCli) for every set of invocations, every    *)
(* set of command lines, with or without faults of the gateway and the     *)
(* network.                                                                *)
(***************************************************************************)
EXTENDS AlertCli, TLAPS

\* Alertmanager applied a request of p.
Logged(p) == \E e \in am.log : e.p = p

(***************************************************************************)
(* SuccessMeansAccepted is not inductive: a step of Receive reads the      *)
(* reply in net, so the reply must already be backed by the log.  The      *)
(* strengthening says that a 2xx-3xx reply to a request that is not a list *)
(* was produced by Alertmanager applying it, which needs the request in    *)
(* flight to be of the invocation's own subcommand; the rest gives the     *)
(* shape of the records the actions update.                                *)
(***************************************************************************)
AInv ==
    /\ args \in [Procs -> Args]
    /\ cli = [p \in Procs |-> [pc |-> cli[p].pc, out |-> cli[p].out, err |-> cli[p].err]]
    /\ net = [p \in Procs |-> [req |-> net[p].req, rep |-> net[p].rep]]
    /\ am = [firing |-> am.firing, silences |-> am.silences, log |-> am.log]
    /\ \A p \in Procs : net[p].req # None => net[p].req.kind = args[p].cmd
    /\ \A p \in Procs : net[p].rep # None /\ Ok(net[p].rep.status) /\ args[p].cmd # "list"
                          => Logged(p)
    /\ SuccessMeansAccepted


-----------------------------------------------------------------------------
(* Alertmanager.                                                           *)

\* Processing a request of p keeps the shape of Alertmanager's state and
\* its log, and a 2xx-3xx answer to anything but a listing logs p: a wrong
\* secret gets 401, a silence ending in the past 400.
LEMMA ProcessOK ==
    ASSUME AInv, NEW p \in Procs, net[p].req # None, NEW o, o = Process(p, net[p].req)
    PROVE  /\ o.am = [firing |-> o.am.firing, silences |-> o.am.silences, log |-> o.am.log]
           /\ am.log \subseteq o.am.log
           /\ Ok(o.r.status) /\ args[p].cmd # "list" => \E e \in o.am.log : e.p = p
<1> DEFINE rq == net[p].req
<1>1. rq.kind = args[p].cmd  BY DEF AInv
<1>2. am = [firing |-> am.firing, silences |-> am.silences, log |-> am.log]  BY DEF AInv
<1>3. CASE ~args[p].secretOk
  <2>1. o = [am |-> am, r |-> Reply(401, None)]  BY <1>3 DEF Process
  <2>2. QED  BY <1>2, <2>1 DEF Reply, Ok
<1>4. CASE args[p].secretOk /\ rq.kind = "push"
  <2>1. o.am = [am EXCEPT !.firing = am.firing \cup {rq.labels},
                          !.log = am.log \cup {[p |-> p, labels |-> rq.labels]}]
    BY <1>4 DEF Process
  <2>2. o.am = [firing |-> am.firing \cup {rq.labels}, silences |-> am.silences,
                log |-> am.log \cup {[p |-> p, labels |-> rq.labels]}]
    BY <1>2, <2>1
  <2>3. o.am = [firing |-> o.am.firing, silences |-> o.am.silences, log |-> o.am.log]
    BY <2>2
  <2>4. am.log \subseteq o.am.log  BY <2>2
  <2>5. \E e \in o.am.log : e.p = p
    <3>1. [p |-> p, labels |-> rq.labels] \in o.am.log  BY <2>2
    <3>2. [p |-> p, labels |-> rq.labels].p = p  OBVIOUS
    <3>3. QED  BY <3>1, <3>2
  <2>6. QED  BY <2>3, <2>4, <2>5
<1>5. CASE args[p].secretOk /\ rq.kind = "resolve"
  <2>1. o.am = [am EXCEPT !.firing = am.firing \ {rq.labels},
                          !.log = am.log \cup {[p |-> p, labels |-> rq.labels]}]
    BY <1>5 DEF Process
  <2>2. o.am = [firing |-> am.firing \ {rq.labels}, silences |-> am.silences,
                log |-> am.log \cup {[p |-> p, labels |-> rq.labels]}]
    BY <1>2, <2>1
  <2>3. o.am = [firing |-> o.am.firing, silences |-> o.am.silences, log |-> o.am.log]
    BY <2>2
  <2>4. am.log \subseteq o.am.log  BY <2>2
  <2>5. \E e \in o.am.log : e.p = p
    <3>1. [p |-> p, labels |-> rq.labels] \in o.am.log  BY <2>2
    <3>2. [p |-> p, labels |-> rq.labels].p = p  OBVIOUS
    <3>3. QED  BY <3>1, <3>2
  <2>6. QED  BY <2>3, <2>4, <2>5
<1>6. CASE args[p].secretOk /\ rq.kind = "silence" /\ rq.ends <= now
  <2>1. o = [am |-> am, r |-> Reply(400, None)]  BY <1>6 DEF Process
  <2>2. QED  BY <1>2, <2>1 DEF Reply, Ok
<1>7. CASE args[p].secretOk /\ rq.kind = "silence" /\ ~(rq.ends <= now)
  <2>1. o.am = [am EXCEPT !.silences = am.silences \cup {[m |-> rq.matchers, ends |-> rq.ends]},
                          !.log = am.log \cup {[p |-> p, labels |-> None]}]
    BY <1>7 DEF Process
  <2>2. o.am = [firing |-> am.firing,
                silences |-> am.silences \cup {[m |-> rq.matchers, ends |-> rq.ends]},
                log |-> am.log \cup {[p |-> p, labels |-> None]}]
    BY <1>2, <2>1
  <2>3. o.am = [firing |-> o.am.firing, silences |-> o.am.silences, log |-> o.am.log]
    BY <2>2
  <2>4. am.log \subseteq o.am.log  BY <2>2
  <2>5. \E e \in o.am.log : e.p = p
    <3>1. [p |-> p, labels |-> None] \in o.am.log  BY <2>2
    <3>2. [p |-> p, labels |-> None].p = p  OBVIOUS
    <3>3. QED  BY <3>1, <3>2
  <2>6. QED  BY <2>3, <2>4, <2>5
<1>8. CASE args[p].secretOk /\ rq.kind \notin {"push", "resolve", "silence"}
  <2>1. args[p].cmd = "list"  BY <1>1, <1>8, AlertAssumption DEF AInv, Kinds
  <2>2. o.am = am  BY <1>8 DEF Process
  <2>3. QED  BY <1>2, <2>1, <2>2
<1>9. QED  BY <1>3, <1>4, <1>5, <1>6, <1>7, <1>8

-----------------------------------------------------------------------------
(* The client's steps.                                                     *)

\* An exit of p with error e at pc q touches nothing but cli[p].
LEMMA ExitOK ==
    ASSUME AInv, NEW p \in Procs, NEW q \in {"failed", "crashed"}, NEW e,
           Exit(p, q, e), UNCHANGED <<args, net, am, now>>
    PROVE  AInv'
<1>0. cli[p] = [pc |-> cli[p].pc, out |-> cli[p].out, err |-> cli[p].err]  BY DEF AInv
<1>1. cli' = [cli EXCEPT ![p] = [pc |-> q, out |-> cli[p].out, err |-> e]]
  <2>1. cli' = [cli EXCEPT ![p] = [cli[p] EXCEPT !.pc = q, !.err = e]]  BY DEF Exit
  <2>2. [cli[p] EXCEPT !.pc = q] = [pc |-> q, out |-> cli[p].out, err |-> cli[p].err]
    BY <1>0
  <2>3. [cli[p] EXCEPT !.pc = q, !.err = e] = [[cli[p] EXCEPT !.pc = q] EXCEPT !.err = e]
    OBVIOUS
  <2>4. [[pc |-> q, out |-> cli[p].out, err |-> cli[p].err] EXCEPT !.err = e]
        = [pc |-> q, out |-> cli[p].out, err |-> e]
    OBVIOUS
  <2>5. QED  BY <2>1, <2>2, <2>3, <2>4
<1>2. \A s \in Procs : cli'[s].pc = "done" => cli[s].pc = "done" /\ s # p
  BY <1>1 DEF AInv
<1>3. QED  BY <1>1, <1>2 DEF AInv, Logged, SuccessMeansAccepted

\* A send of p puts a request of p's own subcommand in flight, with no
\* reply yet.
LEMMA SendOK ==
    ASSUME AInv, NEW p \in Procs, NEW m, m.kind = args[p].cmd,
           Send(p, m), UNCHANGED <<args, am, now>>
    PROVE  AInv'
<1>1. /\ net' = [net EXCEPT ![p] = [req |-> m, rep |-> None]]
      /\ cli' = [cli EXCEPT ![p] = [pc |-> "sent", out |-> cli[p].out, err |-> cli[p].err]]
  <2>1. cli[p] = [pc |-> cli[p].pc, out |-> cli[p].out, err |-> cli[p].err]  BY DEF AInv
  <2>2. cli' = [cli EXCEPT ![p] = [cli[p] EXCEPT !.pc = "sent"]]  BY DEF Send
  <2>3. [cli[p] EXCEPT !.pc = "sent"] = [pc |-> "sent", out |-> cli[p].out, err |-> cli[p].err]
    BY <2>1
  <2>4. QED  BY <2>2, <2>3 DEF Send
<1>2. \A s \in Procs : cli'[s].pc = "done" => cli[s].pc = "done" /\ s # p
  BY <1>1 DEF AInv
<1>3. \A s \in Procs : net'[s].rep # None => net'[s] = net[s]
  BY <1>1 DEF AInv
<1>4. \A s \in Procs : net'[s].req # None => net'[s].req.kind = args'[s].cmd
  BY <1>1 DEF AInv
<1>5. cli' = [s \in Procs |-> [pc |-> cli'[s].pc, out |-> cli'[s].out, err |-> cli'[s].err]]
  BY <1>1 DEF AInv
<1>6. net' = [s \in Procs |-> [req |-> net'[s].req, rep |-> net'[s].rep]]
  BY <1>1 DEF AInv
<1>7. \A s \in Procs : net'[s].rep # None /\ Ok(net'[s].rep.status) /\ args'[s].cmd # "list"
                        => Logged(s)'
  BY <1>3 DEF AInv, Logged
<1>8. SuccessMeansAccepted'  BY <1>2 DEF AInv, SuccessMeansAccepted
<1>9. QED  BY <1>4, <1>5, <1>6, <1>7, <1>8 DEF AInv

\* main's dispatch: parse_kv or timedelta may exit before the request,
\* otherwise the request of the subcommand is sent.
LEMMA InvokeOK ==
    ASSUME AInv, NEW p \in Procs, Invoke(p)
    PROVE  AInv'
<1>1. UNCHANGED <<args, am, now>>  BY DEF Invoke
<1>2. CASE PushOrResolve(p)
  <2> DEFINE a == args[p]
             extra == ParseKv(a.labels)
  <2>1. CASE extra = Bad \/ (a.cmd = "push" /\ ParseKv(a.annotations) = Bad)
    BY <1>1, <1>2, <2>1, ExitOK DEF PushOrResolve
  <2>2. CASE ~(extra = Bad \/ (a.cmd = "push" /\ ParseKv(a.annotations) = Bad))
    <3>1. Send(p, Request(a.cmd, Labels(a, extra), None, None))  BY <1>2, <2>2 DEF PushOrResolve
    <3>2. Request(a.cmd, Labels(a, extra), None, None).kind = args[p].cmd  BY DEF Request
    <3> HIDE DEF a, extra
    <3>3. QED  BY <1>1, <3>1, <3>2, SendOK
  <2>3. QED  BY <2>1, <2>2
<1>3. CASE SilenceAlert(p)
  <2> DEFINE a == args[p]
             extra == ParseKv(a.labels)
  <2>1. a.cmd = "silence"  BY <1>3 DEF SilenceAlert
  <2>2. CASE a.duration = Huge
    BY <1>1, <1>3, <2>2, ExitOK DEF SilenceAlert
  <2>3. CASE a.duration # Huge /\ extra = Bad
    BY <1>1, <1>3, <2>3, ExitOK DEF SilenceAlert
  <2>4. CASE a.duration # Huge /\ extra # Bad
    <3> DEFINE r == Request("silence", None,
                            {<<"alertname", a.name>>} \cup {<<k, extra[k]>> : k \in DOMAIN extra},
                            now + a.duration)
    <3>1. Send(p, r)  BY <1>3, <2>4 DEF SilenceAlert
    <3>2. r.kind = args[p].cmd  BY <2>1 DEF Request
    <3> HIDE DEF r, a, extra
    <3>3. QED  BY <1>1, <3>1, <3>2, SendOK
  <2>5. QED  BY <2>2, <2>3, <2>4
<1>4. CASE ListAlerts(p)
  <2>1. Request("list", None, None, None).kind = args[p].cmd  BY <1>4 DEF ListAlerts, Request
  <2>2. QED  BY <1>1, <1>4, <2>1, SendOK DEF ListAlerts
<1>5. QED  BY <1>2, <1>3, <1>4 DEF Invoke

\* Reading the reply: a success line of push, resolve or silence needs a
\* 2xx-3xx reply, which the log backs.
LEMMA ReceiveOK ==
    ASSUME AInv, NEW p \in Procs, Receive(p)
    PROVE  AInv'
<1> DEFINE r == net[p].rep
<1>1. Outcome(args[p], r) = [pc |-> Outcome(args[p], r).pc, out |-> Outcome(args[p], r).out,
                             err |-> Outcome(args[p], r).err]
  BY DEF Outcome
<1>2. Outcome(args[p], r).pc = "done" /\ args[p].cmd # "list" => Ok(r.status)
  BY DEF Outcome
<1>3. r # None /\ Ok(r.status) /\ args[p].cmd # "list" => Logged(p)  BY DEF AInv
<1>4. r # None  BY DEF Receive
<1> HIDE DEF Outcome
<1>5. QED  BY <1>1, <1>2, <1>3, <1>4 DEF AInv, Receive, Logged, SuccessMeansAccepted

LEMMA TimedOutOK ==
    ASSUME AInv, NEW p \in Procs, TimedOut(p)
    PROVE  AInv'
BY ExitOK DEF TimedOut



-----------------------------------------------------------------------------
(* Alertmanager, the network and the clock.                                *)

\* Deliver: whatever the gateway answers, the log only grows, and a
\* 2xx-3xx reply is Alertmanager's own, given after it applied the request.
LEMMA DeliverOK ==
    ASSUME AInv, NEW p \in Procs, Deliver(p)
    PROVE  AInv'
<1>1. net[p].req # None  BY DEF Deliver
<1>2. PICK o : o = Process(p, net[p].req)  OBVIOUS
<1>3. /\ o.am = [firing |-> o.am.firing, silences |-> o.am.silences, log |-> o.am.log]
      /\ am.log \subseteq o.am.log
      /\ Ok(o.r.status) /\ args[p].cmd # "list" => \E e \in o.am.log : e.p = p
  BY <1>1, <1>2, ProcessOK
<1>4. /\ am' \in {am, o.am}
      /\ \E rp : /\ net' = [net EXCEPT ![p] = [req |-> None, rep |-> rp]]
                 /\ rp # None /\ Ok(rp.status) => am' = o.am /\ rp = o.r
      /\ UNCHANGED <<args, cli, now>>
  BY <1>2 DEF Deliver, Reply, Ok
<1>5. PICK rp : /\ net' = [net EXCEPT ![p] = [req |-> None, rep |-> rp]]
                /\ rp # None /\ Ok(rp.status) => am' = o.am /\ rp = o.r
  BY <1>4
<1>6. am.log \subseteq am'.log  BY <1>3, <1>4
<1>7. am' = [firing |-> am'.firing, silences |-> am'.silences, log |-> am'.log]
  BY <1>3, <1>4 DEF AInv
<1>8. net' = [s \in Procs |-> [req |-> net'[s].req, rep |-> net'[s].rep]]
  BY <1>5 DEF AInv
<1>9. \A s \in Procs : net'[s].req # None => net'[s].req.kind = args'[s].cmd
  BY <1>4, <1>5 DEF AInv
<1>10. \A s \in Procs : net'[s].rep # None /\ Ok(net'[s].rep.status) /\ args'[s].cmd # "list"
                         => Logged(s)'
  <2> SUFFICES ASSUME NEW s \in Procs, net'[s].rep # None, Ok(net'[s].rep.status),
                      args'[s].cmd # "list"
               PROVE  Logged(s)'
    OBVIOUS
  <2>1. CASE s = p
    <3>1. rp # None /\ Ok(rp.status)  BY <1>5, <2>1 DEF AInv
    <3>2. am' = o.am /\ Ok(o.r.status)  BY <1>5, <3>1
    <3>3. QED  BY <1>3, <1>4, <2>1, <3>2 DEF Logged
  <2>2. CASE s # p
    <3>1. net'[s] = net[s]  BY <1>5, <2>2 DEF AInv
    <3>2. Logged(s)  BY <1>4, <3>1 DEF AInv
    <3>3. QED  BY <1>6, <3>2 DEF Logged
  <2>3. QED  BY <2>1, <2>2
<1>11. SuccessMeansAccepted'  BY <1>4, <1>6 DEF AInv, SuccessMeansAccepted
<1>12. QED  BY <1>4, <1>7, <1>8, <1>9, <1>10, <1>11 DEF AInv

\* A lost request: the reply slot stays empty.
LEMMA LoseOK ==
    ASSUME AInv, NEW p \in Procs, Lose(p)
    PROVE  AInv'
<1>1. net' = [net EXCEPT ![p] = [req |-> None, rep |-> net[p].rep]]
  <2>1. net[p] = [req |-> net[p].req, rep |-> net[p].rep]  BY DEF AInv
  <2>2. net' = [net EXCEPT ![p] = [net[p] EXCEPT !.req = None]]  BY DEF Lose
  <2>3. [net[p] EXCEPT !.req = None] = [req |-> None, rep |-> net[p].rep]  BY <2>1
  <2>4. QED  BY <2>2, <2>3
<1>2. net' = [s \in Procs |-> [req |-> net'[s].req, rep |-> net'[s].rep]]  BY <1>1 DEF AInv
<1>3. \A s \in Procs : net'[s].rep = net[s].rep /\ (net'[s].req # None => net'[s] = net[s])
  BY <1>1 DEF AInv
<1>4. QED  BY <1>2, <1>3 DEF Lose, AInv, Logged, SuccessMeansAccepted

\* Resolution by resolve_timeout changes the firing set only.
LEMMA ResolveTimeoutOK ==
    ASSUME AInv, ResolveTimeout
    PROVE  AInv'
<1>1. PICK l \in am.firing : am' = [am EXCEPT !.firing = am.firing \ {l}]  BY DEF ResolveTimeout
<1>2. am' = [firing |-> am.firing \ {l}, silences |-> am.silences, log |-> am.log]
  BY <1>1 DEF AInv
<1>3. QED  BY <1>2 DEF ResolveTimeout, AInv, Logged, SuccessMeansAccepted

LEMMA TickOK ==
    ASSUME AInv, Tick \/ Terminated \/ UNCHANGED vars
    PROVE  AInv'
BY DEF Tick, Terminated, vars, AInv, Logged, SuccessMeansAccepted, Ok

-----------------------------------------------------------------------------
(* The inductive invariant.                                                *)

LEMMA InitA == Init => AInv
BY AlertAssumption DEF Init, AInv, SuccessMeansAccepted

LEMMA NextA == AInv /\ [Next]_vars => AInv'
<1> SUFFICES ASSUME AInv, [Next]_vars PROVE AInv'
  OBVIOUS
<1>1. CASE \E p \in Procs : Client(p) \/ Deliver(p) \/ Lose(p)
  <2>1. PICK p \in Procs : Client(p) \/ Deliver(p) \/ Lose(p)  BY <1>1
  <2>2. QED  BY <2>1, InvokeOK, ReceiveOK, TimedOutOK, DeliverOK, LoseOK DEF Client
<1>2. CASE ResolveTimeout  BY <1>2, ResolveTimeoutOK
<1>3. CASE Tick \/ Terminated \/ UNCHANGED vars  BY <1>3, TickOK
<1>4. QED  BY <1>1, <1>2, <1>3 DEF Next

\* AInv holds in every state of every behaviour.
THEOREM AInvariant == Spec => []AInv
BY InitA, NextA, PTL DEF Spec

\* "pushed successfully", "resolved successfully" and "Silence created"
\* (lines 87, 121, 155) are printed only by an invocation whose request
\* Alertmanager applied: for every set of invocations and command lines,
\* with or without a faulty gateway and network.
THEOREM SuccessMeansAcceptedHolds == Spec => []SuccessMeansAccepted
<1>1. AInv => SuccessMeansAccepted  BY DEF AInv
<1>2. QED  BY AInvariant, <1>1, PTL


=============================================================================
