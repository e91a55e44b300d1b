-------------------------- MODULE LogtoLoginProofs --------------------------
(***************************************************************************)
(* Proofs about LogtoLogin for every set of processes and every choice of *)
(* the provider's behaviour (ConsentPrompt, ResumeOnce, Faults).           *)
(***************************************************************************)
EXTENDS LogtoLogin, TLAPS

(***************************************************************************)
(* TypeOK is not inductive by itself: a GET of the resume URL in stage     *)
(* "submitted" or "consented" issues code issued + 1, which is a code only *)
(* if no code was issued before that stage; and GET /oidc/auth resets the *)
(* stage, which is harmless only because it is sent while the session has *)
(* no interaction yet.  The token call reads the code of the client, which *)
(* must be set when pc is "token".                                         *)
(***************************************************************************)
NoCodeBeforeResume(x) == x.stage # "resumed" => x.issued = 0

IInv ==
    /\ TypeOK
    /\ \A p \in Procs : cl[p].pc = "auth" => ia[p].stage = "none"
    /\ \A p \in Procs : cl[p].pc = "token" => cl[p].code \in Codes
    /\ \A s \in Procs : NoCodeBeforeResume(ia[s])
    /\ InvalidCredentialsMeansWrongPassword

\* An answer of the provider: a typed reply and an interaction in which no
\* code is issued before the stage "resumed".
Answer(a) == /\ a.r \in Replies
             /\ a.x \in Interactions
             /\ NoCodeBeforeResume(a.x)

-----------------------------------------------------------------------------
(* Lemmas about the provider.                                              *)

\* The updates the provider makes to an interaction keep it an interaction.
LEMMA UpdStage ==
    ASSUME NEW x \in Interactions, NEW st \in Stages
    PROVE  /\ [x EXCEPT !.stage = st] \in Interactions
           /\ [x EXCEPT !.stage = st].stage = st
           /\ [x EXCEPT !.stage = st].issued = x.issued
BY DEF Interactions

LEMMA UpdIssued ==
    ASSUME NEW x \in Interactions, NEW st \in Stages, NEW n \in 0..MaxCodes
    PROVE  /\ [x EXCEPT !.stage = st, !.issued = n] \in Interactions
           /\ [x EXCEPT !.stage = st, !.issued = n].stage = st
           /\ [x EXCEPT !.stage = st, !.issued = n].issued = n
BY DEF Interactions

LEMMA UpdChallenge ==
    ASSUME NEW x \in Interactions, NEW st \in Stages, NEW p \in Procs
    PROVE  /\ [x EXCEPT !.stage = st, !.challenge = S256(p)] \in Interactions
           /\ [x EXCEPT !.stage = st, !.challenge = S256(p)].stage = st
           /\ [x EXCEPT !.stage = st, !.challenge = S256(p)].issued = x.issued
BY DEF Interactions

LEMMA UpdRedeemed ==
    ASSUME NEW x \in Interactions, NEW m \in 1..MaxCodes
    PROVE  /\ [x EXCEPT !.redeemed = @ \cup {m}] \in Interactions
           /\ [x EXCEPT !.redeemed = @ \cup {m}].stage = x.stage
           /\ [x EXCEPT !.redeemed = @ \cup {m}].issued = x.issued
BY DEF Interactions

LEMMA StageNames ==
    /\ {"none", "started", "signIn", "identified", "submitted",
        "consent", "consented", "resumed"} \subseteq Stages
    /\ {0, 1} \subseteq 0..MaxCodes
    /\ 1 \in 1..MaxCodes
BY DEF Stages, MaxCodes

LEMMA ReplyTypes ==
    /\ Reply(303, NotJson, "signin") \in Replies
    /\ Reply(303, NotJson, "consent") \in Replies
    /\ Reply(204, NotJson, None) \in Replies
    /\ Reply(200, NotJson, None) \in Replies
    /\ Reply(400, None, None) \in Replies
    /\ Reply(422, "msg", None) \in Replies
    /\ Reply(200, "resume", None) \in Replies
    /\ Reply(200, "at", None) \in Replies
    /\ Reply(200, "jwt", None) \in Replies
    /\ FaultReplies \subseteq Replies
    /\ \A r \in FaultReplies : r.status \in {502, NoResponse}
                               /\ r.json \in {NotJson, None, Null}
BY DEF Reply, Replies, Statuses, Json, Locs, FaultReplies, NoResponse

LEMMA CodeReply ==
    ASSUME NEW s \in Procs, NEW n \in 1..MaxCodes
    PROVE  Reply(303, NotJson, <<s, n>>) \in Replies
BY DEF Reply, Replies, Statuses, Json, Locs, Codes

\* What a call may return: the honest answer, or a fault reply with the
\* interaction either updated or not.
LEMMA AnswersType ==
    ASSUME NEW h, Answer(h), NEW x \in Interactions, NoCodeBeforeResume(x),
           NEW a \in Answers(h, x)
    PROVE  /\ Answer(a)
           /\ \/ a = h
              \/ a.r \in FaultReplies /\ a.x \in {h.x, x}
<1>1. a = h \/ (a.r \in FaultReplies /\ a.x \in {h.x, x})
  BY ConstantsAssumption DEF Answers
<1>2. CASE a = h  BY <1>2
<1>3. CASE a.r \in FaultReplies /\ a.x \in {h.x, x}
  <2>1. a.r \in Replies  BY <1>3, ReplyTypes
  <2>2. a.x \in Interactions /\ NoCodeBeforeResume(a.x)  BY <1>3 DEF Answer
  <2>3. QED BY <1>3, <2>1, <2>2 DEF Answer
<1>4. QED BY <1>1, <1>2, <1>3

\* An answer that leaves the interaction alone, or moves it to a stage
\* before "resumed" from a stage before "resumed", is an answer.
LEMMA AnsKeep ==
    ASSUME NEW x \in Interactions, NoCodeBeforeResume(x), NEW r \in Replies
    PROVE  Answer(Ans(r, x))
BY DEF Answer, Ans

LEMMA AnsStage ==
    ASSUME NEW x \in Interactions, NoCodeBeforeResume(x), NEW r \in Replies,
           NEW st \in Stages, st # "resumed", x.stage # "resumed"
    PROVE  Answer(Ans(r, [x EXCEPT !.stage = st]))
<1>1. x.issued = 0  BY DEF NoCodeBeforeResume
<1>2. QED BY <1>1, UpdStage DEF Answer, Ans, NoCodeBeforeResume

LEMMA AnsIssue ==
    ASSUME NEW x \in Interactions, NEW r \in Replies, NEW n \in 0..MaxCodes
    PROVE  Answer(Ans(r, [x EXCEPT !.stage = "resumed", !.issued = n]))
<1> DEFINE y == [x EXCEPT !.stage = "resumed", !.issued = n]
<1>1. "resumed" \in Stages  BY StageNames
<1>2. y \in Interactions /\ y.stage = "resumed"  BY <1>1, UpdIssued
<1>3. NoCodeBeforeResume(y)  BY <1>2 DEF NoCodeBeforeResume
<1>4. QED BY <1>2, <1>3 DEF Answer, Ans

LEMMA AnsStart ==
    ASSUME NEW x \in Interactions, NoCodeBeforeResume(x), NEW r \in Replies,
           NEW p \in Procs, x.stage = "none"
    PROVE  Answer(Ans(r, [x EXCEPT !.stage = "started", !.challenge = S256(p)]))
<1>1. "started" \in Stages  BY StageNames
<1>2. x.issued = 0  BY DEF NoCodeBeforeResume
<1>3. QED BY <1>1, <1>2, UpdChallenge DEF Answer, Ans, NoCodeBeforeResume

\* The honest answers are answers.
LEMMA IdpTypes ==
    ASSUME NEW x \in Interactions, NoCodeBeforeResume(x), NEW s \in Procs
    PROVE  /\ x.stage = "none" => Answer(IdpAuth(x, S256(s)))
           /\ \A ok \in BOOLEAN : Answer(IdpIdentify(x, ok))
           /\ Answer(IdpPut(x))
           /\ Answer(IdpSubmit(x))
           /\ Answer(IdpResume(x, s))
           /\ Answer(IdpConsent(x))
           /\ Answer(BackendExchange(x))
           /\ Answer(Ans(Reply(200, NotJson, None), x))
<1>0. /\ ReplyTypes!1 /\ ReplyTypes!2 /\ ReplyTypes!3 /\ ReplyTypes!4
      /\ ReplyTypes!5 /\ ReplyTypes!6 /\ ReplyTypes!7 /\ ReplyTypes!9
  BY ReplyTypes
<1>1. x.stage = "none" => Answer(IdpAuth(x, S256(s)))
  BY <1>0, AnsStart DEF IdpAuth
<1>2. \A ok \in BOOLEAN : Answer(IdpIdentify(x, ok))
  <2>1. "identified" \in Stages  BY StageNames
  <2>2. QED BY <1>0, <2>1, AnsKeep, AnsStage DEF IdpIdentify
<1>3. Answer(IdpPut(x))
  <2>1. "signIn" \in Stages  BY StageNames
  <2>2. QED BY <1>0, <2>1, AnsKeep, AnsStage DEF IdpPut
<1>4. Answer(IdpSubmit(x))
  <2>1. "submitted" \in Stages  BY StageNames
  <2>2. QED BY <1>0, <2>1, AnsKeep, AnsStage DEF IdpSubmit
<1>5. Answer(IdpResume(x, s))
  <2>1. CASE x.stage \in {"submitted", "consent"} /\ x.consent
    <3>1. IdpResume(x, s) = Ans(Reply(303, NotJson, "consent"), [x EXCEPT !.stage = "consent"])
      BY <2>1 DEF IdpResume
    <3>2. "consent" \in Stages  BY StageNames
    <3>3. QED BY <2>1, <3>1, <3>2, <1>0, AnsStage
  <2>2. CASE x.stage = "consented" \/ (x.stage = "submitted" /\ ~x.consent)
    <3>1. x.issued = 0  BY <2>2 DEF NoCodeBeforeResume
    <3>2. IdpResume(x, s) = Ans(Reply(303, NotJson, <<s, 1>>), [x EXCEPT !.stage = "resumed", !.issued = 1])
      BY <2>2, <3>1 DEF IdpResume
    <3>3. Reply(303, NotJson, <<s, 1>>) \in Replies  BY StageNames, CodeReply
    <3>4. QED BY <3>2, <3>3, StageNames, AnsIssue
  <2>3. CASE x.stage = "resumed" /\ ~ResumeOnce /\ x.issued < MaxCodes
    <3>1. IdpResume(x, s) = Ans(Reply(303, NotJson, <<s, x.issued + 1>>), [x EXCEPT !.stage = "resumed", !.issued = x.issued + 1])
      BY <2>3 DEF IdpResume
    <3>2. x.issued + 1 \in 1..MaxCodes /\ x.issued + 1 \in 0..MaxCodes  BY <2>3 DEF Interactions, MaxCodes
    <3>3. Reply(303, NotJson, <<s, x.issued + 1>>) \in Replies  BY <3>2, CodeReply
    <3>4. QED BY <3>1, <3>2, <3>3, AnsIssue
  <2>4. CASE ~(x.stage \in {"submitted", "consent"} /\ x.consent)
             /\ ~(x.stage = "consented" \/ (x.stage = "submitted" /\ ~x.consent))
             /\ ~(x.stage = "resumed" /\ ~ResumeOnce /\ x.issued < MaxCodes)
    <3>1. IdpResume(x, s) = Ans(Reply(400, None, None), x)  BY <2>4 DEF IdpResume
    <3>2. QED BY <3>1, <1>0, AnsKeep
  <2>5. QED BY <2>1, <2>2, <2>3, <2>4
<1>6. Answer(IdpConsent(x))
  <2>1. "consented" \in Stages  BY StageNames
  <2>2. QED BY <1>0, <2>1, AnsKeep, AnsStage DEF IdpConsent
<1>7. Answer(BackendExchange(x))  BY ReplyTypes, AnsKeep DEF BackendExchange
<1>8. Answer(Ans(Reply(200, NotJson, None), x))  BY <1>0, AnsKeep
<1>9. QED BY <1>1, <1>2, <1>3, <1>4, <1>5, <1>6, <1>7, <1>8

\* The token endpoint only marks a code redeemed.
LEMMA TokenAnswer ==
    ASSUME NEW x \in Interactions, NoCodeBeforeResume(x),
           NEW n \in 1..MaxCodes, NEW v
    PROVE  /\ Answer(IdpToken(x, n, v))
           /\ IdpToken(x, n, v).x.stage = x.stage
<1>1. CASE n \in 1..x.issued /\ n \notin x.redeemed /\ S256(v) = x.challenge
  <2> DEFINE y == [x EXCEPT !.redeemed = @ \cup {n}]
  <2>1. IdpToken(x, n, v) = Ans(Reply(200, "at", None), y)
    BY <1>1 DEF IdpToken
  <2>2. y \in Interactions /\ y.stage = x.stage /\ y.issued = x.issued  BY UpdRedeemed
  <2>3. NoCodeBeforeResume(y)  BY <2>2 DEF NoCodeBeforeResume
  <2>4. Reply(200, "at", None) \in Replies  BY ReplyTypes
  <2> HIDE DEF y
  <2>5. QED BY <2>1, <2>2, <2>3, <2>4 DEF Answer, Ans
<1>2. CASE ~(n \in 1..x.issued /\ n \notin x.redeemed /\ S256(v) = x.challenge)
  <2>1. IdpToken(x, n, v) = Ans(Reply(400, None, None), x)  BY <1>2 DEF IdpToken
  <2>2. QED BY <2>1, ReplyTypes, AnsKeep DEF Ans
<1>3. QED BY <1>1, <1>2

-----------------------------------------------------------------------------
(* Lemmas about the client's locals.                                       *)

\* The locals L that a step of p may give it without breaking IInv.
LocalOK(p, L) ==
    /\ L \in Locals
    /\ L.pc # "auth"
    /\ L.pc = "token" => L.code \in Codes
    /\ L.err = "InvalidCredentials" => ~pwOk[p]

Moves == Pcs \ {"auth", "token"}

LEMMA GoOK ==
    ASSUME TypeOK, InvalidCredentialsMeansWrongPassword, NEW p \in Procs,
           NEW q \in Moves, NEW st \in Statuses
    PROVE  LocalOK(p, [Go(p, q) EXCEPT !.status = st])
<1>1. cl[p] \in Locals  BY DEF TypeOK
<1>2. cl[p].err = "InvalidCredentials" => ~pwOk[p]
  BY DEF InvalidCredentialsMeansWrongPassword
<1>3. QED BY <1>1, <1>2 DEF LocalOK, Go, Locals, Moves

LEMMA RedirectOK ==
    ASSUME TypeOK, InvalidCredentialsMeansWrongPassword, NEW p \in Procs,
           NEW q \in Moves, NEW st \in Statuses, NEW rd \in {None, "resume"}
    PROVE  LocalOK(p, [[Go(p, q) EXCEPT !.redirect = rd] EXCEPT !.status = st])
<1>1. cl[p] \in Locals  BY DEF TypeOK
<1>2. cl[p].err = "InvalidCredentials" => ~pwOk[p]
  BY DEF InvalidCredentialsMeansWrongPassword
<1>3. QED BY <1>1, <1>2 DEF LocalOK, Go, Locals, Moves

LEMMA CodeOK ==
    ASSUME TypeOK, InvalidCredentialsMeansWrongPassword, NEW p \in Procs,
           NEW st \in Statuses, NEW c \in Codes
    PROVE  LocalOK(p, [[Go(p, "token") EXCEPT !.code = c] EXCEPT !.status = st])
<1>1. cl[p] \in Locals  BY DEF TypeOK
<1>2. cl[p].err = "InvalidCredentials" => ~pwOk[p]
  BY DEF InvalidCredentialsMeansWrongPassword
<1>3. QED BY <1>1, <1>2 DEF LocalOK, Go, Locals, Pcs

LEMMA StopOK ==
    ASSUME TypeOK, NEW p \in Procs, NEW q \in Moves, NEW st \in Statuses,
           NEW e \in Errors, e = "InvalidCredentials" => ~pwOk[p]
    PROVE  LocalOK(p, [Stop(p, q, e) EXCEPT !.status = st])
<1>1. cl[p] \in Locals  BY DEF TypeOK
<1>2. QED BY <1>1 DEF LocalOK, Stop, Locals, Moves

LEMMA ExitNames ==
    /\ {"put", "patch", "submit", "resume", "consentPage", "consentPost",
        "final", "exchange", "done", "failed", "crashed"} \subseteq Moves
    /\ {"AuthError", "UnexpectedSignIn", "NoCode", "NoLogtoToken",
        "ExchangeFailed", "NetworkError", "JSONDecodeError",
        "MissingSchema", "AttributeError"} \subseteq Errors \ {"InvalidCredentials"}
BY DEF Moves, Pcs, Errors

LEMMA RaisedOK ==
    ASSUME TypeOK, NEW p \in Procs, NEW r \in Replies
    PROVE  LocalOK(p, [Raised(p, r) EXCEPT !.status = r.status])
<1>1. r.status \in Statuses  BY DEF Replies
<1>2. QED BY <1>1, ExitNames, StopOK DEF Raised

\* A step of p that gives p locals L and the interaction of session s the
\* value y keeps IInv, when y keeps the stage of a session other than p's.
LEMMA StepPreserves ==
    ASSUME IInv, NEW p \in Procs, NEW s \in Procs,
           NEW y \in Interactions, NoCodeBeforeResume(y),
           s # p => y.stage = ia[s].stage,
           NEW L, LocalOK(p, L),
           ia' = [ia EXCEPT ![s] = y], cl' = [cl EXCEPT ![p] = L], pwOk' = pwOk
    PROVE  IInv'
<1>1. TypeOK'  BY DEF IInv, TypeOK, LocalOK
<1>2. \A q \in Procs : cl'[q].pc = "auth" => ia'[q].stage = "none"
  BY DEF IInv, TypeOK, LocalOK
<1>3. \A q \in Procs : cl'[q].pc = "token" => cl'[q].code \in Codes
  BY DEF IInv, TypeOK, LocalOK
<1>4. \A q \in Procs : NoCodeBeforeResume(ia'[q])
  BY DEF IInv, TypeOK
<1>5. InvalidCredentialsMeansWrongPassword'
  BY DEF IInv, TypeOK, LocalOK, InvalidCredentialsMeansWrongPassword
<1>6. QED BY <1>1, <1>2, <1>3, <1>4, <1>5 DEF IInv

-----------------------------------------------------------------------------
(* One lemma per action: each keeps IInv.                                  *)

\* The facts of IInv about process p that the actions use.
LEMMA SessionFacts ==
    ASSUME IInv, NEW p \in Procs
    PROVE  /\ ia[p] \in Interactions /\ NoCodeBeforeResume(ia[p])
           /\ cl[p] \in Locals
           /\ TypeOK /\ InvalidCredentialsMeansWrongPassword
BY DEF IInv, TypeOK

LEMMA StartAuthOK ==
    ASSUME IInv, NEW p \in Procs, StartAuth(p)
    PROVE  IInv'
<1>1. ia[p] \in Interactions /\ NoCodeBeforeResume(ia[p]) /\ ia[p].stage = "none"
  BY DEF StartAuth, IInv, TypeOK
<1>2. Answer(IdpAuth(ia[p], S256(Verifier(p))))  BY <1>1, IdpTypes DEF Verifier
<1>3. PICK a \in Answers(IdpAuth(ia[p], S256(Verifier(p))), ia[p]) :
        /\ ia' = [ia EXCEPT ![p] = a.x]
        /\ cl' = [cl EXCEPT ![p] = [IF a.r.status = NoResponse THEN Raised(p, a.r)
                                    ELSE Go(p, "put") EXCEPT !.status = a.r.status]]
        /\ pwOk' = pwOk
  BY DEF StartAuth, Call
<1>4. Answer(a)  BY <1>1, <1>2, AnswersType
<1>5. LocalOK(p, [IF a.r.status = NoResponse THEN Raised(p, a.r)
                  ELSE Go(p, "put") EXCEPT !.status = a.r.status])
  <2>1. a.r \in Replies /\ a.r.status \in Statuses  BY <1>4 DEF Answer, Replies
  <2>2. TypeOK /\ InvalidCredentialsMeansWrongPassword  BY SessionFacts
  <2>3. CASE a.r.status = NoResponse  BY <2>1, <2>2, <2>3, RaisedOK
  <2>4. CASE a.r.status # NoResponse  BY <2>1, <2>2, <2>4, ExitNames, GoOK
  <2>5. QED BY <2>3, <2>4
<1>6. QED BY <1>3, <1>4, <1>5, StepPreserves DEF Answer

LEMMA BeginSignInOK ==
    ASSUME IInv, NEW p \in Procs, BeginSignIn(p)
    PROVE  IInv'
<1>1. ia[p] \in Interactions /\ NoCodeBeforeResume(ia[p])  BY SessionFacts
<1>2. Answer(IdpPut(ia[p]))  BY <1>1, IdpTypes
<1>3. PICK a \in Answers(IdpPut(ia[p]), ia[p]) :
        /\ ia' = [ia EXCEPT ![p] = a.x]
        /\ cl' = [cl EXCEPT ![p] = [IF a.r.status = NoResponse THEN Raised(p, a.r)
                                    ELSE Go(p, "patch") EXCEPT !.status = a.r.status]]
        /\ pwOk' = pwOk
  BY DEF BeginSignIn, Call
<1>4. Answer(a)  BY <1>1, <1>2, AnswersType
<1>5. LocalOK(p, [IF a.r.status = NoResponse THEN Raised(p, a.r)
                  ELSE Go(p, "patch") EXCEPT !.status = a.r.status])
  <2>1. a.r \in Replies /\ a.r.status \in Statuses  BY <1>4 DEF Answer, Replies
  <2>2. TypeOK /\ InvalidCredentialsMeansWrongPassword  BY SessionFacts
  <2>3. CASE a.r.status = NoResponse  BY <2>1, <2>2, <2>3, RaisedOK
  <2>4. CASE a.r.status # NoResponse  BY <2>1, <2>2, <2>4, ExitNames, GoOK
  <2>5. QED BY <2>3, <2>4
<1>6. QED BY <1>3, <1>4, <1>5, StepPreserves DEF Answer

\* The provider answers 422 to the identifiers only for a wrong password.
LEMMA IdentifyRejects ==
    ASSUME NEW x, NEW ok \in BOOLEAN, IdpIdentify(x, ok).r.status = 422
    PROVE  ~ok
BY DEF IdpIdentify, Ans, Reply

\* A fault reply is never a 422.
LEMMA FaultStatus ==
    ASSUME NEW r \in FaultReplies
    PROVE  r.status # 422 /\ r.status \in {502, NoResponse}
BY DEF FaultReplies, Reply, NoResponse

LEMMA SubmitIdentifiersOK ==
    ASSUME IInv, NEW p \in Procs, SubmitIdentifiers(p)
    PROVE  IInv'
<1> DEFINE h == IdpIdentify(ia[p], pwOk[p])
           H(r) == IF r.status = NoResponse THEN Raised(p, r)
                   ELSE IF r.status = 422
                        THEN IF r.json = NotJson THEN Raised(p, r)
                             ELSE Stop(p, "failed", "InvalidCredentials")
                   ELSE IF ~Ok(r.status) THEN Stop(p, "failed", "AuthError")
                   ELSE Go(p, "submit")
<1>1. ia[p] \in Interactions /\ NoCodeBeforeResume(ia[p]) /\ pwOk[p] \in BOOLEAN
  BY DEF IInv, TypeOK
<1>2. Answer(h)  BY <1>1, IdpTypes
<1>3. PICK a \in Answers(h, ia[p]) :
        /\ ia' = [ia EXCEPT ![p] = a.x]
        /\ cl' = [cl EXCEPT ![p] = [H(a.r) EXCEPT !.status = a.r.status]]
        /\ pwOk' = pwOk
  BY DEF SubmitIdentifiers, Call
<1>4. Answer(a) /\ (a = h \/ a.r \in FaultReplies)  BY <1>1, <1>2, AnswersType
<1>5. LocalOK(p, [H(a.r) EXCEPT !.status = a.r.status])
  <2>1. a.r \in Replies /\ a.r.status \in Statuses  BY <1>4 DEF Answer, Replies
  <2>2. TypeOK /\ InvalidCredentialsMeansWrongPassword  BY SessionFacts
  <2>3. CASE a.r.status = NoResponse  BY <2>1, <2>2, <2>3, RaisedOK
  <2>4. CASE a.r.status = 422 /\ a.r.json = NotJson
    BY <2>1, <2>2, <2>4, RaisedOK DEF NoResponse
  <2>5. CASE a.r.status = 422 /\ a.r.json # NotJson
    <3>1. ~pwOk[p]  BY <1>1, <1>4, <2>5, IdentifyRejects, FaultStatus
    <3>2. "failed" \in Moves /\ "InvalidCredentials" \in Errors  BY ExitNames DEF Errors
    <3>3. QED BY <2>1, <2>2, <2>5, <3>1, <3>2, StopOK DEF NoResponse
  <2>6. CASE a.r.status \notin {NoResponse, 422} /\ ~Ok(a.r.status)
    BY <2>1, <2>2, <2>6, ExitNames, StopOK
  <2>7. CASE a.r.status \notin {NoResponse, 422} /\ Ok(a.r.status)
    BY <2>1, <2>2, <2>7, ExitNames, GoOK
  <2>8. QED BY <2>3, <2>4, <2>5, <2>6, <2>7
<1> HIDE DEF H, h
<1>6. QED BY <1>3, <1>4, <1>5, StepPreserves DEF Answer

\* The bodies the client can read as redirectTo: the honest ones of the
\* submit and consent endpoints, and those of the gateway.
LEMMA RedirectBodies ==
    ASSUME NEW x, NEW a, a = IdpSubmit(x) \/ a = IdpConsent(x) \/ a.r \in FaultReplies
    PROVE  a.r.json \in {NotJson, Null, None, "resume"}
BY DEF IdpSubmit, IdpConsent, Ans, Reply, FaultReplies

LEMMA SubmitSignInOK ==
    ASSUME IInv, NEW p \in Procs, SubmitSignIn(p)
    PROVE  IInv'
<1> DEFINE H(r) == IF r.json = NotJson THEN Raised(p, r)
                   ELSE IF Field(r.json) = None THEN Stop(p, "failed", "UnexpectedSignIn")
                   ELSE [Go(p, "resume") EXCEPT !.redirect = r.json]
<1>1. ia[p] \in Interactions /\ NoCodeBeforeResume(ia[p])  BY SessionFacts
<1>2. Answer(IdpSubmit(ia[p]))  BY <1>1, IdpTypes
<1>3. PICK a \in Answers(IdpSubmit(ia[p]), ia[p]) :
        /\ ia' = [ia EXCEPT ![p] = a.x]
        /\ cl' = [cl EXCEPT ![p] = [H(a.r) EXCEPT !.status = a.r.status]]
        /\ pwOk' = pwOk
  BY DEF SubmitSignIn, Call
<1>4. Answer(a) /\ (a = IdpSubmit(ia[p]) \/ a.r \in FaultReplies)  BY <1>1, <1>2, AnswersType
<1>5. LocalOK(p, [H(a.r) EXCEPT !.status = a.r.status])
  <2>1. a.r \in Replies /\ a.r.status \in Statuses  BY <1>4 DEF Answer, Replies
  <2>2. TypeOK /\ InvalidCredentialsMeansWrongPassword  BY SessionFacts
  <2>3. a.r.json \in {NotJson, Null, None, "resume"}  BY <1>4, RedirectBodies
  <2>4. CASE a.r.json = NotJson  BY <2>1, <2>2, <2>4, RaisedOK
  <2>5. CASE a.r.json # NotJson /\ Field(a.r.json) = None
    BY <2>1, <2>2, <2>5, ExitNames, StopOK
  <2>6. CASE a.r.json # NotJson /\ Field(a.r.json) # None
    <3>1. a.r.json = "resume"  BY <2>3, <2>6 DEF Field
    <3>2. QED BY <2>1, <2>2, <2>6, <3>1, ExitNames, RedirectOK
  <2>7. QED BY <2>4, <2>5, <2>6
<1> HIDE DEF H
<1>6. QED BY <1>3, <1>4, <1>5, StepPreserves DEF Answer

LEMMA FollowRedirectOK ==
    ASSUME IInv, NEW p \in Procs, FollowRedirect(p)
    PROVE  IInv'
<1> DEFINE H(r) == IF r.status = NoResponse THEN Raised(p, r)
                   ELSE IF r.loc = "consent" THEN Go(p, "consentPage")
                   ELSE Go(p, "final")
<1>1. ia[p] \in Interactions /\ NoCodeBeforeResume(ia[p])  BY SessionFacts
<1>2. Answer(IdpResume(ia[p], p))  BY <1>1, IdpTypes
<1>3. PICK a \in Answers(IdpResume(ia[p], p), ia[p]) :
        /\ ia' = [ia EXCEPT ![p] = a.x]
        /\ cl' = [cl EXCEPT ![p] = [H(a.r) EXCEPT !.status = a.r.status]]
        /\ pwOk' = pwOk
  BY DEF FollowRedirect, Call
<1>4. Answer(a)  BY <1>1, <1>2, AnswersType
<1>5. LocalOK(p, [H(a.r) EXCEPT !.status = a.r.status])
  <2>1. a.r \in Replies /\ a.r.status \in Statuses  BY <1>4 DEF Answer, Replies
  <2>2. TypeOK /\ InvalidCredentialsMeansWrongPassword  BY SessionFacts
  <2>3. CASE a.r.status = NoResponse  BY <2>1, <2>2, <2>3, RaisedOK
  <2>4. CASE a.r.status # NoResponse  BY <2>1, <2>2, <2>4, ExitNames, GoOK
  <2>5. QED BY <2>3, <2>4
<1> HIDE DEF H
<1>6. QED BY <1>3, <1>4, <1>5, StepPreserves DEF Answer

LEMMA OpenConsentOK ==
    ASSUME IInv, NEW p \in Procs, OpenConsent(p)
    PROVE  IInv'
<1>1. ia[p] \in Interactions /\ NoCodeBeforeResume(ia[p])  BY SessionFacts
<1>2. Answer(Ans(Reply(200, NotJson, None), ia[p]))  BY <1>1, IdpTypes
<1>3. PICK a \in Answers(Ans(Reply(200, NotJson, None), ia[p]), ia[p]) :
        /\ ia' = [ia EXCEPT ![p] = a.x]
        /\ cl' = [cl EXCEPT ![p] = [IF a.r.status = NoResponse THEN Raised(p, a.r)
                                    ELSE Go(p, "consentPost") EXCEPT !.status = a.r.status]]
        /\ pwOk' = pwOk
  BY DEF OpenConsent, Call
<1>4. Answer(a)  BY <1>1, <1>2, AnswersType
<1>5. LocalOK(p, [IF a.r.status = NoResponse THEN Raised(p, a.r)
                  ELSE Go(p, "consentPost") EXCEPT !.status = a.r.status])
  <2>1. a.r \in Replies /\ a.r.status \in Statuses  BY <1>4 DEF Answer, Replies
  <2>2. TypeOK /\ InvalidCredentialsMeansWrongPassword  BY SessionFacts
  <2>3. CASE a.r.status = NoResponse  BY <2>1, <2>2, <2>3, RaisedOK
  <2>4. CASE a.r.status # NoResponse  BY <2>1, <2>2, <2>4, ExitNames, GoOK
  <2>5. QED BY <2>3, <2>4
<1>6. QED BY <1>3, <1>4, <1>5, StepPreserves DEF Answer

LEMMA SubmitConsentOK ==
    ASSUME IInv, NEW p \in Procs, SubmitConsent(p)
    PROVE  IInv'
<1> DEFINE H(r) == IF r.json = NotJson THEN Raised(p, r)
                   ELSE [Go(p, "final") EXCEPT !.redirect = Field(r.json)]
<1>1. ia[p] \in Interactions /\ NoCodeBeforeResume(ia[p])  BY SessionFacts
<1>2. Answer(IdpConsent(ia[p]))  BY <1>1, IdpTypes
<1>3. PICK a \in Answers(IdpConsent(ia[p]), ia[p]) :
        /\ ia' = [ia EXCEPT ![p] = a.x]
        /\ cl' = [cl EXCEPT ![p] = [H(a.r) EXCEPT !.status = a.r.status]]
        /\ pwOk' = pwOk
  BY DEF SubmitConsent, Call
<1>4. Answer(a) /\ (a = IdpConsent(ia[p]) \/ a.r \in FaultReplies)  BY <1>1, <1>2, AnswersType
<1>5. LocalOK(p, [H(a.r) EXCEPT !.status = a.r.status])
  <2>1. a.r \in Replies /\ a.r.status \in Statuses  BY <1>4 DEF Answer, Replies
  <2>2. TypeOK /\ InvalidCredentialsMeansWrongPassword  BY SessionFacts
  <2>3. a.r.json \in {NotJson, Null, None, "resume"}  BY <1>4, RedirectBodies
  <2>4. CASE a.r.json = NotJson  BY <2>1, <2>2, <2>4, RaisedOK
  <2>5. CASE a.r.json # NotJson
    <3>1. Field(a.r.json) \in {None, "resume"}  BY <2>3, <2>5 DEF Field
    <3>2. QED BY <2>1, <2>2, <2>5, <3>1, ExitNames, RedirectOK
  <2>6. QED BY <2>4, <2>5
<1> HIDE DEF H
<1>6. QED BY <1>3, <1>4, <1>5, StepPreserves DEF Answer

LEMMA FollowNoneOK ==
    ASSUME IInv, NEW p \in Procs, FollowNone(p)
    PROVE  IInv'
<1>1. ia[p] \in Interactions /\ NoCodeBeforeResume(ia[p]) /\ cl[p] \in Locals
  BY SessionFacts
<1>2. ia' = [ia EXCEPT ![p] = ia[p]]  BY DEF FollowNone, IInv, TypeOK
<1>3. LocalOK(p, Stop(p, "crashed", "MissingSchema"))
  BY <1>1, ExitNames DEF LocalOK, Stop, Locals, Moves
<1>4. QED BY <1>1, <1>2, <1>3, StepPreserves DEF FollowNone

LEMMA FollowFinalOK ==
    ASSUME IInv, NEW p \in Procs, FollowFinal(p)
    PROVE  IInv'
<1> DEFINE H(r) == IF r.status = NoResponse THEN Raised(p, r)
                   ELSE IF r.loc \in Codes THEN [Go(p, "token") EXCEPT !.code = r.loc]
                   ELSE Stop(p, "failed", "NoCode")
<1>1. ia[p] \in Interactions /\ NoCodeBeforeResume(ia[p])  BY SessionFacts
<1>2. Answer(IdpResume(ia[p], p))  BY <1>1, IdpTypes
<1>3. PICK a \in Answers(IdpResume(ia[p], p), ia[p]) :
        /\ ia' = [ia EXCEPT ![p] = a.x]
        /\ cl' = [cl EXCEPT ![p] = [H(a.r) EXCEPT !.status = a.r.status]]
        /\ pwOk' = pwOk
  BY DEF FollowFinal, Call
<1>4. Answer(a)  BY <1>1, <1>2, AnswersType
<1>5. LocalOK(p, [H(a.r) EXCEPT !.status = a.r.status])
  <2>1. a.r \in Replies /\ a.r.status \in Statuses  BY <1>4 DEF Answer, Replies
  <2>2. TypeOK /\ InvalidCredentialsMeansWrongPassword  BY SessionFacts
  <2>3. CASE a.r.status = NoResponse  BY <2>1, <2>2, <2>3, RaisedOK
  <2>4. CASE a.r.status # NoResponse /\ a.r.loc \in Codes
    BY <2>1, <2>2, <2>4, CodeOK
  <2>5. CASE a.r.status # NoResponse /\ a.r.loc \notin Codes
    BY <2>1, <2>2, <2>5, ExitNames, StopOK
  <2>6. QED BY <2>3, <2>4, <2>5
<1> HIDE DEF H
<1>6. QED BY <1>3, <1>4, <1>5, StepPreserves DEF Answer

LEMMA ExchangeCodeOK ==
    ASSUME IInv, NEW p \in Procs, ExchangeCode(p)
    PROVE  IInv'
<1> DEFINE s == cl[p].code[1]
           n == cl[p].code[2]
           h == IdpToken(ia[s], n, Verifier(p))
           L(r) == [IF r.json = NotJson THEN Raised(p, r)
                    ELSE IF Field(r.json) = None THEN Stop(p, "failed", "NoLogtoToken")
                    ELSE Go(p, "exchange")
                    EXCEPT !.status = r.status]
<1>1. s \in Procs /\ n \in 1..MaxCodes
  BY DEF ExchangeCode, IInv, Codes
<1>2. ia[s] \in Interactions /\ NoCodeBeforeResume(ia[s])  BY <1>1, SessionFacts
<1>3. Answer(h) /\ h.x.stage = ia[s].stage  BY <1>1, <1>2, TokenAnswer
<1>4. PICK a \in Answers(h, ia[s]) :
        /\ ia' = [ia EXCEPT ![s] = a.x]
        /\ cl' = [cl EXCEPT ![p] = L(a.r)]
        /\ pwOk' = pwOk
  BY DEF ExchangeCode
<1>5. Answer(a) /\ a.x.stage = ia[s].stage
  <2>1. Answer(a) /\ (a = h \/ a.x \in {h.x, ia[s]})  BY <1>2, <1>3, AnswersType
  <2>2. QED BY <2>1, <1>3
<1>6. LocalOK(p, L(a.r))
  <2>1. a.r \in Replies /\ a.r.status \in Statuses  BY <1>5 DEF Answer, Replies
  <2>2. TypeOK /\ InvalidCredentialsMeansWrongPassword  BY SessionFacts
  <2>3. CASE a.r.json = NotJson  BY <2>1, <2>2, <2>3, RaisedOK
  <2>4. CASE a.r.json # NotJson /\ Field(a.r.json) = None
    BY <2>1, <2>2, <2>4, ExitNames, StopOK
  <2>5. CASE a.r.json # NotJson /\ Field(a.r.json) # None
    BY <2>1, <2>2, <2>5, ExitNames, GoOK
  <2>6. QED BY <2>3, <2>4, <2>5
<1> HIDE DEF L, h, s, n
<1>7. QED BY <1>1, <1>4, <1>5, <1>6, StepPreserves DEF Answer

LEMMA ExchangeTokenOK ==
    ASSUME IInv, NEW p \in Procs, ExchangeToken(p)
    PROVE  IInv'
<1> DEFINE H(r) == IF r.json = NotJson THEN Raised(p, r)
                   ELSE IF r.json = Null THEN Stop(p, "crashed", "AttributeError")
                   ELSE IF r.json = None THEN Stop(p, "failed", "ExchangeFailed")
                   ELSE Go(p, "done")
<1>1. ia[p] \in Interactions /\ NoCodeBeforeResume(ia[p])  BY SessionFacts
<1>2. Answer(BackendExchange(ia[p]))  BY <1>1, IdpTypes
<1>3. PICK a \in Answers(BackendExchange(ia[p]), ia[p]) :
        /\ ia' = [ia EXCEPT ![p] = a.x]
        /\ cl' = [cl EXCEPT ![p] = [H(a.r) EXCEPT !.status = a.r.status]]
        /\ pwOk' = pwOk
  BY DEF ExchangeToken, Call
<1>4. Answer(a)  BY <1>1, <1>2, AnswersType
<1>5. LocalOK(p, [H(a.r) EXCEPT !.status = a.r.status])
  <2>1. a.r \in Replies /\ a.r.status \in Statuses  BY <1>4 DEF Answer, Replies
  <2>2. TypeOK /\ InvalidCredentialsMeansWrongPassword  BY SessionFacts
  <2>3. CASE a.r.json = NotJson  BY <2>1, <2>2, <2>3, RaisedOK
  <2>4. CASE a.r.json # NotJson /\ a.r.json = Null
    BY <2>1, <2>2, <2>4, ExitNames, StopOK
  <2>5. CASE a.r.json \notin {NotJson, Null} /\ a.r.json = None
    BY <2>1, <2>2, <2>5, ExitNames, StopOK
  <2>6. CASE a.r.json \notin {NotJson, Null, None}
    BY <2>1, <2>2, <2>6, ExitNames, GoOK
  <2>7. QED BY <2>3, <2>4, <2>5, <2>6
<1> HIDE DEF H
<1>6. QED BY <1>3, <1>4, <1>5, StepPreserves DEF Answer

-----------------------------------------------------------------------------
(* The invariant.                                                          *)

LEMMA InitIInv == Init => IInv
<1> SUFFICES ASSUME Init PROVE IInv  OBVIOUS
<1> DEFINE Fresh == {[stage |-> "none", consent |-> b, challenge |-> None,
                      issued |-> 0, redeemed |-> {}] : b \in ConsentPrompt}
<1>1. ia \in [Procs -> Fresh]  BY DEF Init
<1>2. \A x \in Fresh : x \in Interactions /\ x.stage = "none" /\ x.issued = 0
  <2>1. SUFFICES ASSUME NEW b \in ConsentPrompt
                 PROVE  LET x == [stage |-> "none", consent |-> b, challenge |-> None,
                                  issued |-> 0, redeemed |-> {}]
                        IN  x \in Interactions /\ x.stage = "none" /\ x.issued = 0
    OBVIOUS
  <2>2. b \in BOOLEAN  BY ConstantsAssumption
  <2>3. QED BY <2>2 DEF Interactions, Stages, MaxCodes
<1>3. ia \in [Procs -> Interactions] /\ \A p \in Procs : ia[p].stage = "none" /\ ia[p].issued = 0
  BY <1>1, <1>2
<1>4. "auth" \in Pcs /\ None \in Errors  BY DEF Pcs, Errors
<1>5. cl \in [Procs -> Locals]  BY <1>4 DEF Init, Locals
<1>6. \A p \in Procs : cl[p].pc = "auth" /\ cl[p].err = None
  BY DEF Init
<1>7. "InvalidCredentials" # None  BY NoneAssumption
<1>8. pwOk \in [Procs -> BOOLEAN]  BY DEF Init
<1> HIDE DEF Fresh
<1>9. QED BY <1>3, <1>5, <1>6, <1>7, <1>8
      DEF IInv, TypeOK, NoCodeBeforeResume, InvalidCredentialsMeansWrongPassword

LEMMA NextIInv == IInv /\ [Next]_vars => IInv'
<1> SUFFICES ASSUME IInv, [Next]_vars PROVE IInv'  OBVIOUS
<1>1. CASE \E p \in Procs : Step(p)
  <2>1. PICK p \in Procs : Step(p)  BY <1>1
  <2>2. QED
    BY <2>1, StartAuthOK, BeginSignInOK, SubmitIdentifiersOK, SubmitSignInOK,
       FollowRedirectOK, OpenConsentOK, SubmitConsentOK, FollowNoneOK,
       FollowFinalOK, ExchangeCodeOK, ExchangeTokenOK
    DEF Step
<1>2. CASE Terminated
  BY <1>2 DEF Terminated, vars, IInv, TypeOK, InvalidCredentialsMeansWrongPassword
<1>3. CASE UNCHANGED vars
  BY <1>3 DEF vars, IInv, TypeOK, InvalidCredentialsMeansWrongPassword
<1>4. QED BY <1>1, <1>2, <1>3 DEF Next

\* IInv holds in every reachable state, for every set of processes and
\* every behaviour of the provider and of the network.
THEOREM IInvariant == Spec => []IInv
BY InitIInv, NextIInv, PTL DEF Spec

\* Type correctness of the login handshake (_logto_login, lines 69-167):
\* every local of every process and every interaction at the provider stays
\* in its type, whatever the gateway and the network do.
THEOREM TypeCorrect == Spec => []TypeOK
BY IInvariant, PTL DEF IInv

\* "Authentication failed" (line 111) is printed only to a user whose
\* password was wrong: the 422 of the PATCH of the identifiers cannot be
\* forged by a gateway fault or a lost reply, for every number of
\* concurrent invocations.
THEOREM InvalidCredentialsSound == Spec => []InvalidCredentialsMeansWrongPassword
BY IInvariant, PTL DEF IInv

=============================================================================
