------------------------- MODULE AlertingConfigProofs -------------------------
(***************************************************************************)
(* Proofs about the commands of alerting_config.py (AlertingConfig) for    *)
(* every set of invocations, every set of configurations and every choice *)
(* of the provider's and the backend's behaviour.                          *)
(***************************************************************************)
EXTENDS AlertingConfig, LogtoLoginProofs

(***************************************************************************)
(* SuccessMeansApplied is not inductive by itself: it speaks of the        *)
(* output of a command and of the backend's ghost set, and a step keeps it *)
(* only if that set never shrinks and an output is set from a typed reply. *)
(* The strengthening adds the types of the command state; the login's      *)
(* inductive invariant IInv comes along so that CTypeOK follows too.       *)
(***************************************************************************)
CPart ==
    /\ req \in [Procs -> Requests]
    /\ co \in [Procs -> CLocals]
    /\ be \in Backends
    /\ SuccessMeansApplied

CInv == IInv /\ CPart

\* The success messages of cmd_set and cmd_delete.
Success == {"updated", "disabled"}

-----------------------------------------------------------------------------
(* Lemmas about the backend.                                               *)

\* Every answer of the backend, honest or a gateway fault, leaves a backend
\* state whose set of applied writes only grew; and a 2xx-3xx status comes
\* only with the honest answer.
LEMMA BeAnswer ==
    ASSUME be \in Backends, NEW p \in Procs, NEW c \in Configs \cup {Blackhole},
           NEW h \in BeGet(be) \cup BeSet(be, c, p) \cup BeDelete(be, p) \cup BeAlerts(be),
           NEW a \in Answers(h, be)
    PROVE  /\ a.x \in Backends
           /\ be.applied \subseteq a.x.applied
           /\ Ok(a.r.status) => a = h
<1>1. /\ h.x \in Backends
      /\ be.applied \subseteq h.x.applied
  <2>1. CASE h \in BeGet(be) \cup BeAlerts(be) \cup {Refused(be)}
    <3>1. h.x = be  BY <2>1 DEF BeGet, BeAlerts, Refused, Ans
    <3>2. QED  BY <3>1
  <2>2. CASE h = Ans(Reply(200, "cfg", None), [be EXCEPT !.store = c, !.applied = @ \cup {p}])
    BY <2>2 DEF Ans, Backends
  <2>3. CASE h = Ans(Reply(200, "cfg", None), [be EXCEPT !.store = Blackhole, !.applied = @ \cup {p}])
    BY <2>3 DEF Ans, Backends
  <2>4. QED  BY <2>1, <2>2, <2>3 DEF BeSet, BeDelete
<1>2. CASE a = h
  BY <1>1, <1>2
<1>3. CASE a # h
  <2>1. a \in [r : FaultReplies, x : {h.x, be}]  BY <1>3 DEF Answers
  <2>2. ~Ok(a.r.status)  BY <2>1 DEF FaultReplies, Reply, Ok, NoResponse
  <2>3. QED  BY <1>1, <2>1, <2>2
<1>4. QED  BY <1>2, <1>3

\* An honest 2xx-3xx answer to a POST or DELETE of p applied that write.
LEMMA WriteApplied ==
    ASSUME be \in Backends, NEW p \in Procs, NEW c \in Configs \cup {Blackhole},
           NEW h \in BeSet(be, c, p) \cup BeDelete(be, p), Ok(h.r.status)
    PROVE  p \in h.x.applied
<1>1. CASE h = Refused(be)
  <2>1. h.r.status = 403  BY <1>1 DEF Refused, Ans, Reply
  <2>2. QED  BY <2>1 DEF Ok
<1>2. CASE h = Ans(Reply(200, "cfg", None), [be EXCEPT !.store = c, !.applied = @ \cup {p}])
  BY <1>2 DEF Ans, Backends
<1>3. CASE h = Ans(Reply(200, "cfg", None), [be EXCEPT !.store = Blackhole, !.applied = @ \cup {p}])
  BY <1>3 DEF Ans, Backends
<1>4. QED  BY <1>1, <1>2, <1>3 DEF BeSet, BeDelete

-----------------------------------------------------------------------------
(* Lemmas about the client.                                                *)

\* An exit keeps the output; a success line sets it.
LEMMA QuitOK ==
    ASSUME co \in [Procs -> CLocals], NEW p \in Procs, NEW q \in CPcs, NEW e \in CErrors
    PROVE  /\ Quit(p, q, e) \in CLocals
           /\ Quit(p, q, e).out = co[p].out
BY DEF Quit, CLocals

LEMMA ShowOK ==
    ASSUME co \in [Procs -> CLocals], NEW p \in Procs, NEW o \in Outputs
    PROVE  /\ Show(p, o) \in CLocals
           /\ Show(p, o).out = o
BY DEF Show, CLocals, CPcs

LEMMA FailedOK ==
    ASSUME co \in [Procs -> CLocals], NEW p \in Procs, NEW r
    PROVE  /\ Failed(p, r) \in CLocals
           /\ Failed(p, r).out = co[p].out
BY QuitOK DEF Failed, CPcs, CErrors

-----------------------------------------------------------------------------
(* One lemma per command: the step of p keeps CPart.                       *)

\* A command step of p: the backend moves to b, which lost no applied
\* write, and p's state becomes L, whose success line is backed by b.
LEMMA StepC ==
    ASSUME CPart, NEW p \in Procs, NEW L \in CLocals, NEW b \in Backends,
           be.applied \subseteq b.applied,
           L.out \in Success => p \in b.applied,
           be' = b, co' = [co EXCEPT ![p] = L], req' = req
    PROVE  CPart'
BY DEF CPart, SuccessMeansApplied, Success

\* The output of an exit or of Failed is the old output, which the old
\* backend state backs.
LEMMA KeptOut ==
    ASSUME CPart, NEW p \in Procs, NEW b \in Backends, be.applied \subseteq b.applied,
           NEW L, L.out = co[p].out
    PROVE  L.out \in Success => p \in b.applied
BY DEF CPart, SuccessMeansApplied, Success

\* Lines 191-207: cmd_get prints a configuration or nothing.
LEMMA GetConfigC ==
    ASSUME CPart, NEW p \in Procs, GetConfig(p)
    PROVE  CPart'
<1> DEFINE H(r) == IF r.json = NotJson \/ ~Ok(r.status) THEN Failed(p, r)
                   ELSE IF r.json = Null THEN Quit(p, "crashed", "AttributeError")
                   ELSE Show(p, IF r.json = "cfg" THEN be.store ELSE Empty)
<1>1. PICK a \in UNION {Answers(h, be) : h \in BeGet(be)} :
          be' = a.x /\ co' = [co EXCEPT ![p] = H(a.r)] /\ req' = req
  BY DEF GetConfig, Request
<1>2. PICK h \in BeGet(be) : a \in Answers(h, be)  BY <1>1
<1>3. /\ a.x \in Backends
      /\ be.applied \subseteq a.x.applied
  BY <1>2, BeAnswer DEF CPart
<1>4. /\ H(a.r) \in CLocals
      /\ H(a.r).out \in Success => p \in a.x.applied
  <2>1. CASE a.r.json = NotJson \/ ~Ok(a.r.status)
    BY <2>1, <1>3, FailedOK, KeptOut DEF CPart
  <2>2. CASE ~(a.r.json = NotJson \/ ~Ok(a.r.status)) /\ a.r.json = Null
    BY <2>2, <1>3, QuitOK, KeptOut DEF CPart, CPcs, CErrors
  <2>3. CASE ~(a.r.json = NotJson \/ ~Ok(a.r.status)) /\ a.r.json # Null
    <3>1. /\ be.store \in Outputs \ Success
          /\ Empty \in Outputs \ Success
      BY ConfigAssumption DEF CPart, Backends, Outputs, Success, Empty
    <3>2. QED  BY <2>3, <3>1, ShowOK DEF CPart
  <2>4. QED  BY <2>1, <2>2, <2>3
<1> HIDE DEF H
<1>5. QED  BY <1>1, <1>3, <1>4, StepC

\* Lines 253-279: cmd_alerts prints the list or "No alerts found.".
LEMMA ListAlertsC ==
    ASSUME CPart, NEW p \in Procs, ListAlerts(p)
    PROVE  CPart'
<1> DEFINE H(r) == IF r.json = NotJson \/ ~Ok(r.status) THEN Failed(p, r)
                   ELSE IF r.json = Null THEN Quit(p, "crashed", "AttributeError")
                   ELSE Show(p, IF r.json = "alerts" THEN "alerts" ELSE "noalerts")
<1>1. PICK a \in UNION {Answers(h, be) : h \in BeAlerts(be)} :
          be' = a.x /\ co' = [co EXCEPT ![p] = H(a.r)] /\ req' = req
  BY DEF ListAlerts, Request
<1>2. PICK h \in BeAlerts(be) : a \in Answers(h, be)  BY <1>1
<1>3. /\ a.x \in Backends
      /\ be.applied \subseteq a.x.applied
  BY <1>2, BeAnswer DEF CPart
<1>4. /\ H(a.r) \in CLocals
      /\ H(a.r).out \in Success => p \in a.x.applied
  <2>1. CASE a.r.json = NotJson \/ ~Ok(a.r.status)
    BY <2>1, <1>3, FailedOK, KeptOut DEF CPart
  <2>2. CASE ~(a.r.json = NotJson \/ ~Ok(a.r.status)) /\ a.r.json = Null
    BY <2>2, <1>3, QuitOK, KeptOut DEF CPart, CPcs, CErrors
  <2>3. CASE ~(a.r.json = NotJson \/ ~Ok(a.r.status)) /\ a.r.json # Null
    <3>1. {"alerts", "noalerts"} \subseteq Outputs \ Success  BY DEF Outputs, Success
    <3>2. QED  BY <2>3, <3>1, ShowOK DEF CPart
  <2>4. QED  BY <2>1, <2>2, <2>3
<1> HIDE DEF H
<1>5. QED  BY <1>1, <1>3, <1>4, StepC

\* Lines 235-250: cmd_delete prints "All alerts disabled successfully."
\* only on a 2xx-3xx answer, which is the backend's honest one.
LEMMA DeleteConfigC ==
    ASSUME CPart, NEW p \in Procs, DeleteConfig(p)
    PROVE  CPart'
<1> DEFINE H(r) == IF r.json = NotJson \/ ~Ok(r.status) THEN Failed(p, r)
                   ELSE Show(p, "disabled")
<1>1. PICK a \in UNION {Answers(h, be) : h \in BeDelete(be, p)} :
          be' = a.x /\ co' = [co EXCEPT ![p] = H(a.r)] /\ req' = req
  BY DEF DeleteConfig, Request
<1>2. PICK h \in BeDelete(be, p) : a \in Answers(h, be)  BY <1>1
<1>3. /\ a.x \in Backends
      /\ be.applied \subseteq a.x.applied
      /\ Ok(a.r.status) => a = h
  BY <1>2, BeAnswer DEF CPart
<1>4. /\ H(a.r) \in CLocals
      /\ H(a.r).out \in Success => p \in a.x.applied
  <2>1. CASE a.r.json = NotJson \/ ~Ok(a.r.status)
    BY <2>1, <1>3, FailedOK, KeptOut DEF CPart
  <2>2. CASE ~(a.r.json = NotJson \/ ~Ok(a.r.status))
    <3>1. a = h  BY <2>2, <1>3
    <3>2. p \in a.x.applied  BY <2>2, <3>1, <1>2, WriteApplied DEF CPart
    <3>3. "disabled" \in Outputs  BY DEF Outputs
    <3>4. QED  BY <2>2, <3>2, <3>3, ShowOK DEF CPart
  <2>3. QED  BY <2>1, <2>2
<1> HIDE DEF H
<1>5. QED  BY <1>1, <1>3, <1>4, StepC

\* Lines 210-232: cmd_set exits on an unreadable file before any request,
\* and prints "Alerting configuration updated successfully." only on a
\* 2xx-3xx answer, which is the backend's honest one.
LEMMA SetConfigC ==
    ASSUME CPart, NEW p \in Procs, SetConfig(p)
    PROVE  CPart'
<1>1. CASE req[p].config = Unreadable
  <2>1. /\ co' = [co EXCEPT ![p] = Quit(p, "failed", "ConfigFileError")]
        /\ be' = be /\ req' = req
    BY <1>1, ConfigAssumption DEF SetConfig, Request
  <2>2. /\ Quit(p, "failed", "ConfigFileError") \in CLocals
        /\ Quit(p, "failed", "ConfigFileError").out = co[p].out
    BY QuitOK DEF CPart, CPcs, CErrors
  <2>3. QED  BY <2>1, <2>2, KeptOut, StepC DEF CPart
<1>2. CASE req[p].config # Unreadable
  <2> DEFINE c == req[p].config
             H(r) == IF r.json = NotJson \/ ~Ok(r.status) THEN Failed(p, r)
                     ELSE Show(p, "updated")
  <2>1. c \in Configs  BY <1>2 DEF SetConfig, CPart, Requests
  <2>2. PICK a \in UNION {Answers(h, be) : h \in BeSet(be, c, p)} :
            be' = a.x /\ co' = [co EXCEPT ![p] = H(a.r)] /\ req' = req
    BY <1>2 DEF SetConfig, Request
  <2>3. PICK h \in BeSet(be, c, p) : a \in Answers(h, be)  BY <2>2
  <2>4. /\ a.x \in Backends
        /\ be.applied \subseteq a.x.applied
        /\ Ok(a.r.status) => a = h
    BY <2>1, <2>3, BeAnswer DEF CPart
  <2>5. /\ H(a.r) \in CLocals
        /\ H(a.r).out \in Success => p \in a.x.applied
    <3>1. CASE a.r.json = NotJson \/ ~Ok(a.r.status)
      BY <3>1, <2>4, FailedOK, KeptOut DEF CPart
    <3>2. CASE ~(a.r.json = NotJson \/ ~Ok(a.r.status))
      <4>1. a = h  BY <3>2, <2>4
      <4>2. p \in a.x.applied  BY <3>2, <4>1, <2>1, <2>3, WriteApplied DEF CPart
      <4>3. "updated" \in Outputs  BY DEF Outputs
      <4>4. QED  BY <3>2, <4>2, <4>3, ShowOK DEF CPart
    <3>3. QED  BY <3>1, <3>2
  <2> HIDE DEF H, c
  <2>6. QED  BY <2>2, <2>4, <2>5, StepC
<1>3. QED  BY <1>1, <1>2

-----------------------------------------------------------------------------
(* The invariant.                                                          *)

LEMMA InitC == CInit => CInv
<1> SUFFICES ASSUME CInit PROVE CInv  OBVIOUS
<1>1. IInv  BY InitIInv DEF CInit
<1>2. co \in [Procs -> CLocals]  BY DEF CInit, CLocals, CPcs, Outputs, CErrors
<1>3. be \in Backends  BY DEF CInit, Backends
<1>4. SuccessMeansApplied  BY ConfigAssumption DEF CInit, SuccessMeansApplied
<1>5. QED  BY <1>1, <1>2, <1>3, <1>4 DEF CInit, CInv, CPart

\* The commands leave the login's variables alone, so a step of CNext is a
\* step of the login's Next or a stutter of it.
LEMMA LoginView == [CNext]_allvars => [Next]_vars
<1> SUFFICES ASSUME [CNext]_allvars PROVE [Next]_vars  OBVIOUS
<1>1. CASE \E p \in Procs : LoginStep(p)  BY <1>1 DEF LoginStep, Next
<1>2. CASE \E p \in Procs : Command(p)
  <2>1. PICK p \in Procs : Command(p)  BY <1>2
  <2>2. UNCHANGED <<pwOk, cl, ia>>
    BY <2>1 DEF Command, GetConfig, SetConfig, DeleteConfig, ListAlerts, Request
  <2>3. QED  BY <2>2 DEF vars
<1>3. CASE AllFinished \/ UNCHANGED allvars  BY <1>3 DEF AllFinished, allvars, vars
<1>4. QED  BY <1>1, <1>2, <1>3 DEF CNext

LEMMA NextC == CInv /\ [CNext]_allvars => CInv'
<1> SUFFICES ASSUME CInv, [CNext]_allvars PROVE CInv'  OBVIOUS
<1>1. IInv'  BY LoginView, NextIInv DEF CInv
<1>2. CPart'
  <2>1. CASE \E p \in Procs : LoginStep(p)
    BY <2>1 DEF LoginStep, cvars, CInv, CPart, SuccessMeansApplied
  <2>2. CASE \E p \in Procs : Command(p)
    <3>1. PICK p \in Procs : Command(p)  BY <2>2
    <3>2. QED  BY <3>1, GetConfigC, SetConfigC, DeleteConfigC, ListAlertsC DEF Command, CInv
  <2>3. CASE AllFinished \/ UNCHANGED allvars
    BY <2>3 DEF AllFinished, allvars, CInv, CPart, SuccessMeansApplied
  <2>4. QED  BY <2>1, <2>2, <2>3 DEF CNext
<1>3. QED  BY <1>1, <1>2 DEF CInv

THEOREM CInvariant == CSpec => []CInv
BY InitC, NextC, PTL DEF CSpec

\* Type correctness of the commands composed with the login: every local
\* of the login and of cmd_get, cmd_set, cmd_delete and cmd_alerts, and the
\* backend's state, stay in their types for every number of invocations.
THEOREM CTypeCorrect == CSpec => []CTypeOK
<1>1. CInv => CTypeOK  BY DEF CInv, IInv, CPart, CTypeOK
<1>2. QED  BY CInvariant, <1>1, PTL

\* "Alerting configuration updated successfully." (cmd_set, line 232) and
\* "All alerts disabled successfully." (cmd_delete, line 250) are printed
\* only by an invocation whose write the backend applied, for every number
\* of concurrent invocations and whatever the gateway answers.
THEOREM SuccessMeansAppliedHolds == CSpec => []SuccessMeansApplied
<1>1. CInv => SuccessMeansApplied  BY DEF CInv, CPart
<1>2. QED  BY CInvariant, <1>1, PTL

=============================================================================
