------------------------ MODULE LoginRefinementProofs ------------------------
(***************************************************************************)
(* Proof that the login handshake of src/scripts/alerting_config.py        *)
(* (LogtoLogin) implements its promise LoginAbstract under the mapping     *)
(* LoginState, for every set of processes and every behaviour of the       *)
(* provider, the gateway and the network.  The proof rests on IInv,        *)
(* proved in LogtoLoginProofs, and on the strengthening RInv.              *)
(***************************************************************************)
EXTENDS LoginRefinement, LogtoLoginProofs

-----------------------------------------------------------------------------
(* Lemmas.                                                                 *)

\* A step that gives p locals L and its own session the interaction y
\* keeps RInv when y and L keep the three facts for p.
LEMMA RStep ==
    ASSUME RInv, TypeOK, NEW p \in Procs, NEW y, NEW L,
           y.stage \in Identified => pwOk[p],
           L.pc = "token" => L.code[1] = p,
           L.pc \in {"exchange", "done"} => pwOk[p],
           ia' = [ia EXCEPT ![p] = y], cl' = [cl EXCEPT ![p] = L], pwOk' = pwOk
    PROVE  RInv'
BY DEF RInv, TypeOK

\* A call returns the honest answer, or a fault reply with the interaction
\* updated or not.
LEMMA AnsX ==
    ASSUME NEW h, NEW x, NEW a \in Answers(h, x)
    PROVE  /\ a.x \in {h.x, x}
           /\ a = h \/ a.r \in FaultReplies
BY DEF Answers

\* The provider moves a session past the identifiers only when the
\* password is right: its honest answers reach a stage of Identified only
\* from one, or from "signIn" on a right password.
LEMMA HonestStages ==
    ASSUME NEW x \in Interactions, NEW s \in Procs, NEW ok \in BOOLEAN,
           x.stage \in Identified => ok
    PROVE  /\ IdpAuth(x, S256(s)).x.stage \notin Identified
           /\ IdpPut(x).x.stage \in Identified => ok
           /\ IdpIdentify(x, ok).x.stage \in Identified => ok
           /\ IdpSubmit(x).x.stage \in Identified => ok
           /\ IdpResume(x, s).x.stage \in Identified => ok
           /\ IdpConsent(x).x.stage \in Identified => ok
           /\ BackendExchange(x).x = x
           /\ Ans(Reply(200, NotJson, None), x).x = x
<1>1. IdpAuth(x, S256(s)).x.stage \notin Identified
  BY DEF IdpAuth, Ans, Interactions, Identified
<1>2. IdpPut(x).x.stage \in Identified => ok
  BY DEF IdpPut, Ans, Interactions, Identified
<1>3. IdpIdentify(x, ok).x.stage \in Identified => ok
  BY DEF IdpIdentify, Ans, Interactions, Identified
<1>4. IdpSubmit(x).x.stage \in Identified => ok
  BY DEF IdpSubmit, Ans, Interactions, Identified
<1>5. IdpResume(x, s).x.stage \in Identified => ok
  BY DEF IdpResume, Ans, Interactions, Identified
<1>6. IdpConsent(x).x.stage \in Identified => ok
  BY DEF IdpConsent, Ans, Interactions, Identified
<1>7. QED BY <1>1, <1>2, <1>3, <1>4, <1>5, <1>6 DEF BackendExchange, Ans

\* The callback of a resume URL names the session that followed it.
LEMMA ResumeLoc ==
    ASSUME NEW x \in Interactions, NEW s \in Procs,
           IdpResume(x, s).r.loc \in Codes
    PROVE  IdpResume(x, s).r.loc[1] = s
<1>1. "consent" \notin Codes /\ None \notin Codes  BY PageAssumption, NoneAssumption
<1>2. QED BY <1>1 DEF IdpResume, Ans, Reply

\* A fault reply carries no Location and no usable JSON field.
LEMMA FaultFields ==
    ASSUME NEW r \in FaultReplies
    PROVE  /\ r.loc \notin Codes
           /\ r.json = NotJson \/ Field(r.json) = None
<1>1. None \notin Codes  BY NoneAssumption
<1>2. QED BY <1>1 DEF FaultReplies, Reply, Field

\* The pc of the locals the handlers build.
LEMMA PcOf ==
    ASSUME TypeOK, NEW p \in Procs, NEW q, NEW e, NEW st, NEW rd, NEW c, NEW r
    PROVE  /\ [Go(p, q) EXCEPT !.status = st].pc = q
           /\ [Stop(p, q, e) EXCEPT !.status = st].pc = q
           /\ [Raised(p, r) EXCEPT !.status = st].pc = "crashed"
           /\ [[Go(p, q) EXCEPT !.redirect = rd] EXCEPT !.status = st].pc = q
           /\ [[Go(p, q) EXCEPT !.code = c] EXCEPT !.status = st].pc = q
           /\ [[Go(p, q) EXCEPT !.code = c] EXCEPT !.status = st].code = c
           /\ Stop(p, q, e).pc = q
<1>1. cl[p] \in Locals  BY DEF TypeOK
<1>2. QED BY <1>1 DEF Go, Stop, Raised, Locals

\* The facts of IInv and RInv about p that the actions use.
LEMMA RFacts ==
    ASSUME IInv, RInv, NEW p \in Procs
    PROVE  /\ TypeOK
           /\ ia[p] \in Interactions /\ NoCodeBeforeResume(ia[p])
           /\ pwOk[p] \in BOOLEAN
           /\ ia[p].stage \in Identified => pwOk[p]
BY DEF IInv, RInv, TypeOK

-----------------------------------------------------------------------------
(* One lemma per action: each keeps RInv.                                  *)

LEMMA StartAuthR ==
    ASSUME IInv, RInv, NEW p \in Procs, StartAuth(p)
    PROVE  RInv'
<1> DEFINE h == IdpAuth(ia[p], S256(Verifier(p)))
           H(r) == IF r.status = NoResponse THEN Raised(p, r) ELSE Go(p, "put")
<1>1. PICK a \in Answers(h, ia[p]) :
        /\ ia' = [ia EXCEPT ![p] = a.x]
        /\ cl' = [cl EXCEPT ![p] = [H(a.r) EXCEPT !.status = a.r.status]]
        /\ pwOk' = pwOk
  BY DEF StartAuth, Call
<1>2. a.x.stage \in Identified => pwOk[p]
  BY <1>1, RFacts, AnsX, HonestStages DEF Verifier
<1>3. [H(a.r) EXCEPT !.status = a.r.status].pc \in {"crashed", "put"}
  BY RFacts, PcOf
<1> HIDE DEF h, H
<1>4. QED BY <1>1, <1>2, <1>3, RFacts, RStep

LEMMA BeginSignInR ==
    ASSUME IInv, RInv, NEW p \in Procs, BeginSignIn(p)
    PROVE  RInv'
<1> DEFINE h == IdpPut(ia[p])
           H(r) == IF r.status = NoResponse THEN Raised(p, r) ELSE Go(p, "patch")
<1>1. PICK a \in Answers(h, ia[p]) :
        /\ ia' = [ia EXCEPT ![p] = a.x]
        /\ cl' = [cl EXCEPT ![p] = [H(a.r) EXCEPT !.status = a.r.status]]
        /\ pwOk' = pwOk
  BY DEF BeginSignIn, Call
<1>2. a.x.stage \in Identified => pwOk[p]
  BY <1>1, RFacts, AnsX, HonestStages
<1>3. [H(a.r) EXCEPT !.status = a.r.status].pc \in {"crashed", "patch"}
  BY RFacts, PcOf
<1> HIDE DEF h, H
<1>4. QED BY <1>1, <1>2, <1>3, RFacts, RStep

LEMMA SubmitIdentifiersR ==
    ASSUME IInv, RInv, NEW p \in Procs, SubmitIdentifiers(p)
    PROVE  RInv'
<1> DEFINE h == IdpIdentify(ia[p], pwOk[p])
           H(r) == IF r.status = NoResponse THEN Raised(p, r)
                   ELSE IF r.status = 422
                        THEN IF r.json = NotJson THEN Raised(p, r)
                             ELSE Stop(p, "failed", "InvalidCredentials")
                   ELSE IF ~Ok(r.status) THEN Stop(p, "failed", "AuthError")
                   ELSE Go(p, "submit")
<1>1. PICK a \in Answers(h, ia[p]) :
        /\ ia' = [ia EXCEPT ![p] = a.x]
        /\ cl' = [cl EXCEPT ![p] = [H(a.r) EXCEPT !.status = a.r.status]]
        /\ pwOk' = pwOk
  BY DEF SubmitIdentifiers, Call
<1>2. a.x.stage \in Identified => pwOk[p]
  BY <1>1, RFacts, AnsX, HonestStages
<1>3. [H(a.r) EXCEPT !.status = a.r.status].pc \in {"crashed", "failed", "submit"}
  BY RFacts, PcOf
<1> HIDE DEF h, H
<1>4. QED BY <1>1, <1>2, <1>3, RFacts, RStep

LEMMA SubmitSignInR ==
    ASSUME IInv, RInv, NEW p \in Procs, SubmitSignIn(p)
    PROVE  RInv'
<1> DEFINE h == IdpSubmit(ia[p])
           H(r) == IF r.json = NotJson THEN Raised(p, r)
                   ELSE IF Field(r.json) = None THEN Stop(p, "failed", "UnexpectedSignIn")
                   ELSE [Go(p, "resume") EXCEPT !.redirect = r.json]
<1>1. PICK a \in Answers(h, ia[p]) :
        /\ ia' = [ia EXCEPT ![p] = a.x]
        /\ cl' = [cl EXCEPT ![p] = [H(a.r) EXCEPT !.status = a.r.status]]
        /\ pwOk' = pwOk
  BY DEF SubmitSignIn, Call
<1>2. a.x.stage \in Identified => pwOk[p]
  BY <1>1, RFacts, AnsX, HonestStages
<1>3. [H(a.r) EXCEPT !.status = a.r.status].pc \in {"crashed", "failed", "resume"}
  BY RFacts, PcOf
<1> HIDE DEF h, H
<1>4. QED BY <1>1, <1>2, <1>3, RFacts, RStep

LEMMA FollowRedirectR ==
    ASSUME IInv, RInv, NEW p \in Procs, FollowRedirect(p)
    PROVE  RInv'
<1> DEFINE h == IdpResume(ia[p], p)
           H(r) == IF r.status = NoResponse THEN Raised(p, r)
                   ELSE IF r.loc = "consent" THEN Go(p, "consentPage")
                   ELSE Go(p, "final")
<1>1. PICK a \in Answers(h, ia[p]) :
        /\ ia' = [ia EXCEPT ![p] = a.x]
        /\ cl' = [cl EXCEPT ![p] = [H(a.r) EXCEPT !.status = a.r.status]]
        /\ pwOk' = pwOk
  BY DEF FollowRedirect, Call
<1>2. a.x.stage \in Identified => pwOk[p]
  BY <1>1, RFacts, AnsX, HonestStages
<1>3. [H(a.r) EXCEPT !.status = a.r.status].pc \in {"crashed", "consentPage", "final"}
  BY RFacts, PcOf
<1> HIDE DEF h, H
<1>4. QED BY <1>1, <1>2, <1>3, RFacts, RStep

LEMMA OpenConsentR ==
    ASSUME IInv, RInv, NEW p \in Procs, OpenConsent(p)
    PROVE  RInv'
<1> DEFINE h == Ans(Reply(200, NotJson, None), ia[p])
           H(r) == IF r.status = NoResponse THEN Raised(p, r) ELSE Go(p, "consentPost")
<1>1. PICK a \in Answers(h, ia[p]) :
        /\ ia' = [ia EXCEPT ![p] = a.x]
        /\ cl' = [cl EXCEPT ![p] = [H(a.r) EXCEPT !.status = a.r.status]]
        /\ pwOk' = pwOk
  BY DEF OpenConsent, Call
<1>2. a.x.stage \in Identified => pwOk[p]
  BY <1>1, RFacts, AnsX, HonestStages
<1>3. [H(a.r) EXCEPT !.status = a.r.status].pc \in {"crashed", "consentPost"}
  BY RFacts, PcOf
<1> HIDE DEF h, H
<1>4. QED BY <1>1, <1>2, <1>3, RFacts, RStep

LEMMA SubmitConsentR ==
    ASSUME IInv, RInv, NEW p \in Procs, SubmitConsent(p)
    PROVE  RInv'
<1> DEFINE h == IdpConsent(ia[p])
           H(r) == IF r.json = NotJson THEN Raised(p, r)
                   ELSE [Go(p, "final") EXCEPT !.redirect = Field(r.json)]
<1>1. PICK a \in Answers(h, ia[p]) :
        /\ ia' = [ia EXCEPT ![p] = a.x]
        /\ cl' = [cl EXCEPT ![p] = [H(a.r) EXCEPT !.status = a.r.status]]
        /\ pwOk' = pwOk
  BY DEF SubmitConsent, Call
<1>2. a.x.stage \in Identified => pwOk[p]
  BY <1>1, RFacts, AnsX, HonestStages
<1>3. [H(a.r) EXCEPT !.status = a.r.status].pc \in {"crashed", "final"}
  BY RFacts, PcOf
<1> HIDE DEF h, H
<1>4. QED BY <1>1, <1>2, <1>3, RFacts, RStep

LEMMA FollowNoneR ==
    ASSUME IInv, RInv, NEW p \in Procs, FollowNone(p)
    PROVE  RInv'
<1>1. ia' = [ia EXCEPT ![p] = ia[p]]  BY RFacts DEF FollowNone, TypeOK
<1>2. Stop(p, "crashed", "MissingSchema").pc = "crashed"  BY RFacts, PcOf
<1>3. QED BY <1>1, <1>2, RFacts, RStep DEF FollowNone

\* The code taken from the final callback is one of the process's own session.
LEMMA FollowFinalR ==
    ASSUME IInv, RInv, NEW p \in Procs, FollowFinal(p)
    PROVE  RInv'
<1> DEFINE h == IdpResume(ia[p], p)
           H(r) == IF r.status = NoResponse THEN Raised(p, r)
                   ELSE IF r.loc \in Codes THEN [Go(p, "token") EXCEPT !.code = r.loc]
                   ELSE Stop(p, "failed", "NoCode")
<1>1. PICK a \in Answers(h, ia[p]) :
        /\ ia' = [ia EXCEPT ![p] = a.x]
        /\ cl' = [cl EXCEPT ![p] = [H(a.r) EXCEPT !.status = a.r.status]]
        /\ pwOk' = pwOk
  BY DEF FollowFinal, Call
<1>2. a.x.stage \in Identified => pwOk[p]
  BY <1>1, RFacts, AnsX, HonestStages
<1>3. [H(a.r) EXCEPT !.status = a.r.status].pc \in {"crashed", "token", "failed"}
  BY RFacts, PcOf
<1>4. [H(a.r) EXCEPT !.status = a.r.status].pc = "token"
        => [H(a.r) EXCEPT !.status = a.r.status].code[1] = p
  <2>1. SUFFICES ASSUME a.r.status # NoResponse, a.r.loc \in Codes
                 PROVE  [[Go(p, "token") EXCEPT !.code = a.r.loc] EXCEPT !.status = a.r.status].code[1] = p
    BY RFacts, PcOf
  <2>2. a = h  BY <2>1, AnsX, FaultFields
  <2>3. a.r.loc[1] = p  BY <2>1, <2>2, RFacts, ResumeLoc
  <2>4. QED BY <2>3, RFacts, PcOf
<1> HIDE DEF h, H
<1>5. QED BY <1>1, <1>2, <1>3, <1>4, RFacts, RStep

\* An access token is issued only for a code of a session that was resumed,
\* hence identified with the right password.
LEMMA ExchangeCodeR ==
    ASSUME IInv, RInv, NEW p \in Procs, ExchangeCode(p)
    PROVE  RInv'
<1> DEFINE n == cl[p].code[2]
           h == IdpToken(ia[p], n, Verifier(p))
           L(r) == [IF r.json = NotJson THEN Raised(p, r)
                    ELSE IF Field(r.json) = None THEN Stop(p, "failed", "NoLogtoToken")
                    ELSE Go(p, "exchange")
                    EXCEPT !.status = r.status]
<1>1. cl[p].code \in Codes /\ cl[p].code[1] = p
  BY DEF ExchangeCode, IInv, RInv
<1>2. n \in 1..MaxCodes  BY <1>1 DEF Codes
<1>3. PICK a \in Answers(h, ia[p]) :
        /\ ia' = [ia EXCEPT ![p] = a.x]
        /\ cl' = [cl EXCEPT ![p] = L(a.r)]
        /\ pwOk' = pwOk
  BY <1>1 DEF ExchangeCode
<1>4. h.x.stage = ia[p].stage  BY <1>2, RFacts, TokenAnswer
<1>5. a.x.stage \in Identified => pwOk[p]  BY <1>3, <1>4, RFacts, AnsX
<1>6. L(a.r).pc \in {"crashed", "failed", "exchange"}  BY RFacts, PcOf
<1>7. L(a.r).pc = "exchange" => pwOk[p]
  <2>1. SUFFICES ASSUME a.r.json # NotJson, Field(a.r.json) # None
                 PROVE  pwOk[p]
    BY RFacts, PcOf
  <2>2. a = h  BY <2>1, AnsX, FaultFields
  <2>3. n \in 1..ia[p].issued
    <3>1. CASE n \in 1..ia[p].issued /\ n \notin ia[p].redeemed /\ S256(Verifier(p)) = ia[p].challenge
      BY <3>1
    <3>2. CASE ~(n \in 1..ia[p].issued /\ n \notin ia[p].redeemed /\ S256(Verifier(p)) = ia[p].challenge)
      <4>1. h.r.json = None  BY <3>2 DEF IdpToken, Ans, Reply
      <4>2. QED BY <4>1, <2>1, <2>2 DEF Field
    <3>3. QED BY <3>1, <3>2
  <2>4. ia[p].stage = "resumed"  BY <2>3, RFacts DEF NoCodeBeforeResume
  <2>5. QED BY <2>4, RFacts DEF Identified
<1> HIDE DEF h, L, n
<1>8. QED BY <1>3, <1>5, <1>6, <1>7, RFacts, RStep

LEMMA ExchangeTokenR ==
    ASSUME IInv, RInv, NEW p \in Procs, ExchangeToken(p)
    PROVE  RInv'
<1> DEFINE h == BackendExchange(ia[p])
           H(r) == IF r.json = NotJson THEN Raised(p, r)
                   ELSE IF r.json = Null THEN Stop(p, "crashed", "AttributeError")
                   ELSE IF r.json = None THEN Stop(p, "failed", "ExchangeFailed")
                   ELSE Go(p, "done")
<1>1. PICK a \in Answers(h, ia[p]) :
        /\ ia' = [ia EXCEPT ![p] = a.x]
        /\ cl' = [cl EXCEPT ![p] = [H(a.r) EXCEPT !.status = a.r.status]]
        /\ pwOk' = pwOk
  BY DEF ExchangeToken, Call
<1>2. a.x.stage \in Identified => pwOk[p]
  BY <1>1, RFacts, AnsX, HonestStages
<1>3. [H(a.r) EXCEPT !.status = a.r.status].pc \in {"crashed", "failed", "done"}
  BY RFacts, PcOf
<1>4. pwOk[p]  BY DEF ExchangeToken, RInv
<1> HIDE DEF h, H
<1>5. QED BY <1>1, <1>2, <1>3, <1>4, RFacts, RStep

-----------------------------------------------------------------------------
(* The invariant.                                                          *)

LEMMA InitR == Init => RInv
<1> SUFFICES ASSUME Init PROVE RInv  OBVIOUS
<1>1. \A s \in Procs : ia[s].stage = "none"  BY DEF Init
<1>2. \A p \in Procs : cl[p].pc = "auth"  BY DEF Init
<1>3. QED BY <1>1, <1>2 DEF RInv, Identified

LEMMA NextR == IInv /\ RInv /\ [Next]_vars => RInv'
<1> SUFFICES ASSUME IInv, RInv, [Next]_vars PROVE RInv'  OBVIOUS
<1>1. CASE \E p \in Procs : Step(p)
  <2>1. PICK p \in Procs : Step(p)  BY <1>1
  <2>2. QED
    BY <2>1, StartAuthR, BeginSignInR, SubmitIdentifiersR, SubmitSignInR,
       FollowRedirectR, OpenConsentR, SubmitConsentR, FollowNoneR,
       FollowFinalR, ExchangeCodeR, ExchangeTokenR
    DEF Step
<1>2. CASE Terminated \/ UNCHANGED vars
  BY <1>2 DEF Terminated, vars, RInv
<1>3. QED BY <1>1, <1>2 DEF Next

\* Against every provider, gateway and network behaviour: a session gets
\* past the identifiers only with the right password, the code of a
\* process at POST /oidc/token is one of its own session, and a process
\* that reaches the backend exchange or returns the JWT had the right
\* password.
THEOREM RInvariant == Spec => [](IInv /\ RInv)
BY IInvariant, InitIInv, NextIInv, InitR, NextR, PTL DEF Spec

-----------------------------------------------------------------------------
(* The refinement.                                                         *)

\* Every step of p replaces p's locals only, and starts from a pc before
\* the end of the function.
LEMMA StepShape ==
    ASSUME TypeOK, NEW p \in Procs, Step(p)
    PROVE  /\ cl[p].pc \notin Exited
           /\ \E L : cl' = [cl EXCEPT ![p] = L]
           /\ pwOk' = pwOk
<1>1. CASE StartAuth(p)  BY <1>1 DEF StartAuth, Call, Exited
<1>2. CASE BeginSignIn(p)  BY <1>2 DEF BeginSignIn, Call, Exited
<1>3. CASE SubmitIdentifiers(p)
  <2>1. cl[p].pc = "patch"  BY <1>3 DEF SubmitIdentifiers
  <2> DEFINE H(r) == IF r.status = NoResponse THEN Raised(p, r)
                     ELSE IF r.status = 422
                          THEN IF r.json = NotJson THEN Raised(p, r)
                               ELSE Stop(p, "failed", "InvalidCredentials")
                     ELSE IF ~Ok(r.status) THEN Stop(p, "failed", "AuthError")
                     ELSE Go(p, "submit")
  <2>2. PICK a \in Answers(IdpIdentify(ia[p], pwOk[p]), ia[p]) :
          /\ cl' = [cl EXCEPT ![p] = [H(a.r) EXCEPT !.status = a.r.status]]
          /\ pwOk' = pwOk
    BY <1>3 DEF SubmitIdentifiers, Call
  <2> HIDE DEF H
  <2>3. QED BY <2>1, <2>2 DEF Exited
<1>4. CASE SubmitSignIn(p)  BY <1>4 DEF SubmitSignIn, Call, Exited
<1>5. CASE FollowRedirect(p)  BY <1>5 DEF FollowRedirect, Call, Exited
<1>6. CASE OpenConsent(p)  BY <1>6 DEF OpenConsent, Call, Exited
<1>7. CASE SubmitConsent(p)  BY <1>7 DEF SubmitConsent, Call, Exited
<1>8. CASE FollowFinal(p)  BY <1>8 DEF FollowFinal, Call, Exited
<1>9. CASE ExchangeToken(p)  BY <1>9 DEF ExchangeToken, Call, Exited
<1>10. CASE FollowNone(p)  BY <1>10 DEF FollowNone, Exited
<1>11. CASE ExchangeCode(p)  BY <1>11 DEF ExchangeCode, Exited
<1>12. QED BY <1>1, <1>2, <1>3, <1>4, <1>5, <1>6, <1>7, <1>8, <1>9, <1>10, <1>11 DEF Step

LEMMA InitRefines == Init => AbsLogin!AbsInit
<1> SUFFICES ASSUME Init PROVE AbsLogin!AbsInit  OBVIOUS
<1>1. \A p \in Procs : cl[p].pc = "auth"  BY DEF Init
<1>2. QED BY <1>1 DEF Init, AbsLogin!AbsInit, LoginState

\* A step of p changes the abstract state of p alone: from "running" to
\* "done" (the right password), to "rejected" (a wrong one), to "failed",
\* or not at all.
LEMMA StepRefines ==
    ASSUME IInv, IInv', RInv', NEW p \in Procs, Step(p)
    PROVE  [AbsLogin!AbsNext]_AbsLogin!absvars
<1>1. TypeOK /\ TypeOK' /\ InvalidCredentialsMeansWrongPassword'  BY DEF IInv
<1>2. /\ cl[p].pc \notin Exited
      /\ pwOk' = pwOk
  BY <1>1, StepShape
<1>3. PICK L : cl' = [cl EXCEPT ![p] = L]  BY <1>1, StepShape
<1>4. \A q \in Procs \ {p} : LoginState'[q] = LoginState[q]
  BY <1>1, <1>3 DEF LoginState, TypeOK
<1>5. LoginState[p] = "running"  BY <1>2 DEF LoginState, Exited
<1>6. LoginState' = [LoginState EXCEPT ![p] = LoginState'[p]]
  BY <1>4 DEF LoginState
<1>7. LoginState'[p] = "done" => pwOk[p]
  BY <1>2 DEF LoginState, RInv
<1>8. LoginState'[p] = "rejected" => ~pwOk[p]
  <2>1. LoginState'[p] = "rejected" => cl'[p].err = "InvalidCredentials"  BY DEF LoginState
  <2>2. QED BY <1>1, <1>2, <2>1 DEF InvalidCredentialsMeansWrongPassword
<1>9. LoginState'[p] \in {"running", "done", "rejected", "failed"}
  <2> DEFINE c == cl'[p]
  <2>1. LoginState'[p] = IF c.pc = "done" THEN "done"
                         ELSE IF c.pc \in {"failed", "crashed"}
                              THEN IF c.err = "InvalidCredentials" THEN "rejected" ELSE "failed"
                         ELSE "running"
    BY DEF LoginState
  <2> HIDE DEF c
  <2>2. QED BY <2>1
<1>10. CASE LoginState'[p] = "running"
  <2>1. LoginState' = LoginState  BY <1>5, <1>6, <1>10 DEF LoginState
  <2>2. QED BY <1>2, <2>1 DEF AbsLogin!absvars
<1>11. CASE LoginState'[p] = "done"
  BY <1>2, <1>5, <1>6, <1>7, <1>11 DEF AbsLogin!AbsNext, AbsLogin!GetJwt
<1>12. CASE LoginState'[p] = "rejected"
  BY <1>2, <1>5, <1>6, <1>8, <1>12 DEF AbsLogin!AbsNext, AbsLogin!Reject
<1>13. CASE LoginState'[p] = "failed"
  BY <1>2, <1>5, <1>6, <1>13 DEF AbsLogin!AbsNext, AbsLogin!Abort
<1>14. QED BY <1>9, <1>10, <1>11, <1>12, <1>13

LEMMA NextRefines ==
    IInv /\ IInv' /\ RInv' /\ [Next]_vars => [AbsLogin!AbsNext]_AbsLogin!absvars
<1> SUFFICES ASSUME IInv, IInv', RInv', [Next]_vars
             PROVE  [AbsLogin!AbsNext]_AbsLogin!absvars
  OBVIOUS
<1>1. CASE \E p \in Procs : Step(p)  BY <1>1, StepRefines
<1>2. CASE Terminated \/ UNCHANGED vars
  BY <1>2 DEF Terminated, vars, AbsLogin!absvars, LoginState
<1>3. QED BY <1>1, <1>2 DEF Next

\* The login handshake of _logto_login implements LoginAbstract, for every
\* number of concurrent invocations and every behaviour of the provider,
\* the gateway and the network: the JWT is returned only for a right
\* password, "Authentication failed" only for a wrong one, and an outcome
\* once reached never changes.
THEOREM Refinement == Spec => AbstractLogin
<1>1. Spec => [](IInv /\ RInv)  BY RInvariant
<1>2. QED BY <1>1, InitRefines, NextRefines, PTL DEF Spec, AbstractLogin, AbsLogin!AbsSpec
=============================================================================
