----------------------------- MODULE LogtoLogin -----------------------------
(***************************************************************************)
(* The login handshake of src/scripts/alerting_config.py, _logto_login:    *)
(* OIDC authorization code + PKCE against Logto, then the exchange of the  *)
(* Logto access token for the backend JWT.  Each process p of Procs is one *)
(* CLI invocation running the function once; its requests.Session (line   *)
(* 77) is session p at the identity provider.                             *)
(*                                                                         *)
(* Every HTTP call of the function is one action: the request, the reply   *)
(* of the identity provider (or of the backend) and the client's handling  *)
(* of that reply, up to the next call.  The calls block and the sessions   *)
(* of different processes share nothing at the provider, so nothing is     *)
(* lost by making a call and its reply one step.                           *)
(*                                                                         *)
(* The provider is the environment.  It answers honestly, following the    *)
(* interaction stages of the Logto experience API; when Faults is TRUE it  *)
(* may instead answer with a gateway error (JSON or HTML body), or the     *)
(* transport may fail, and a failed call may or may not have been applied  *)
(* at the provider.  Bodies are abstracted to the one field the code       *)
(* reads, URLs to what the code distinguishes.                             *)
(***************************************************************************)
EXTENDS Naturals

CONSTANTS
    Procs,          \* concurrent CLI invocations
    ConsentPrompt,  \* whether the provider shows a consent screen: a subset of BOOLEAN
    ResumeOnce,     \* the resume URL (redirectTo) can be followed only once
    Faults,         \* the provider and the network may fail
    None            \* Python None: a header, field or variable with no value

ASSUME ConstantsAssumption ==
    /\ ConsentPrompt \subseteq BOOLEAN /\ ConsentPrompt # {}
    /\ ResumeOnce \in BOOLEAN
    /\ Faults \in BOOLEAN

VARIABLES
    pwOk,   \* pwOk[p]: the password given to process p is the user's one
    cl,     \* cl[p]: the local state of _logto_login in process p
    ia      \* ia[s]: the provider's interaction bound to session s

vars == <<pwOk, cl, ia>>

-----------------------------------------------------------------------------
(* Data.                                                                   *)

NoResponse == 0     \* status of a call that raised before any reply
Statuses == {NoResponse, 200, 204, 303, 400, 422, 502}
Ok(st) == st \in 1..399            \* requests' Response.ok

MaxCodes == 2       \* codes per session: the resume URL is followed at most twice
Codes == Procs \X (1..MaxCodes)    \* the code query parameter of a callback URL

NotJson == "notjson"  \* a body that r.json() cannot decode
Null == "null"        \* a field present with JSON null
Json == {NotJson, Null, None, "resume", "msg", "at", "jwt"}
\* The URL of a Location header: the sign-in page, the consent page, or the
\* redirect_uri callback carrying a code.
Locs == {None, "signin", "consent"} \cup Codes

\* The sign-in page and the consent page are not redirect_uri callbacks.
ASSUME PageAssumption == {"signin", "consent"} \cap Codes = {}

\* None is none of the values a field, a header or a variable can hold, and
\* no error: a process starts with no error recorded.
ASSUME NoneAssumption ==
    None \notin {NotJson, Null, "resume", "msg", "at", "jwt", "signin", "consent",
                 "InvalidCredentials"} \cup Codes

Reply(st, j, l) == [status |-> st, json |-> j, loc |-> l]
Replies == [status : Statuses, json : Json, loc : Locs]

\* PKCE (lines 80-85): the verifier is fresh in every call, the challenge is
\* its S256 hash, and the hash of a challenge is not the challenge.
Verifier(p) == p
S256(v) == <<"S256", v>>

Stages == {"none", "started", "signIn", "identified", "submitted",
           "consent", "consented", "resumed"}
Interactions == [stage : Stages, consent : BOOLEAN, challenge : {None} \cup {S256(p) : p \in Procs},
                 issued : 0..MaxCodes, redeemed : SUBSET (1..MaxCodes)]

Pcs == {"auth", "put", "patch", "submit", "resume", "consentPage",
        "consentPost", "final", "token", "exchange", "done", "failed", "crashed"}
Exited == {"done", "failed", "crashed"}
Errors == {None, "InvalidCredentials", "AuthError", "UnexpectedSignIn",
           "NoCode", "NoLogtoToken", "ExchangeFailed",
           "NetworkError", "JSONDecodeError", "MissingSchema", "AttributeError"}
Locals == [pc : Pcs, redirect : {None, "resume"}, code : {None} \cup Codes,
           status : Statuses \cup {None}, err : Errors]

-----------------------------------------------------------------------------
(* The environment: Logto's honest answers.  Each maps the session's       *)
(* interaction x to [r |-> the reply, x |-> the interaction after it].     *)

Ans(r, x) == [r |-> r, x |-> x]

\* GET /oidc/auth: a new interaction bound to the code challenge.
IdpAuth(x, ch) == Ans(Reply(303, NotJson, "signin"),
                      [x EXCEPT !.stage = "started", !.challenge = ch])

\* PUT /api/interaction {event: SignIn}
IdpPut(x) == IF x.stage = "started"
             THEN Ans(Reply(204, NotJson, None), [x EXCEPT !.stage = "signIn"])
             ELSE Ans(Reply(400, None, None), x)

\* PATCH /api/interaction/identifiers: 422 when the password is wrong.
IdpIdentify(x, ok) ==
    CASE x.stage = "signIn" /\ ok  -> Ans(Reply(204, NotJson, None), [x EXCEPT !.stage = "identified"])
      [] x.stage = "signIn" /\ ~ok -> Ans(Reply(422, "msg", None), x)
      [] x.stage # "signIn"        -> Ans(Reply(400, None, None), x)

\* POST /api/interaction/submit
IdpSubmit(x) == IF x.stage = "identified"
                THEN Ans(Reply(200, "resume", None), [x EXCEPT !.stage = "submitted"])
                ELSE Ans(Reply(400, None, None), x)

\* GET of the resume URL: to the consent page while consent is pending,
\* otherwise to the callback with a fresh code; once resumed, a second GET
\* finds no interaction when ResumeOnce.
IdpResume(x, s) ==
    LET code == Ans(Reply(303, NotJson, <<s, x.issued + 1>>),
                    [x EXCEPT !.stage = "resumed", !.issued = @ + 1])
    IN CASE x.stage \in {"submitted", "consent"} /\ x.consent
                -> Ans(Reply(303, NotJson, "consent"), [x EXCEPT !.stage = "consent"])
         [] x.stage = "consented" \/ (x.stage = "submitted" /\ ~x.consent) -> code
         [] x.stage = "resumed" /\ ~ResumeOnce /\ x.issued < MaxCodes -> code
         [] OTHER -> Ans(Reply(400, None, None), x)

\* POST /api/interaction/consent
IdpConsent(x) == IF x.stage = "consent"
                 THEN Ans(Reply(200, "resume", None), [x EXCEPT !.stage = "consented"])
                 ELSE Ans(Reply(400, None, None), x)

\* POST /oidc/token: a code is redeemed once, with the verifier of its challenge.
IdpToken(x, n, v) ==
    IF n \in 1..x.issued /\ n \notin x.redeemed /\ S256(v) = x.challenge
    THEN Ans(Reply(200, "at", None), [x EXCEPT !.redeemed = @ \cup {n}])
    ELSE Ans(Reply(400, None, None), x)

\* POST <backend>/auth/exchange: a valid Logto token gets {data: {token}}.
BackendExchange(x) == Ans(Reply(200, "jwt", None), x)

\* What the client may receive for honest answer h given interaction x: h,
\* or when Faults a gateway error or a transport failure, after which the
\* provider may or may not have applied the call.
FaultReplies == {Reply(502, j, None) : j \in {NotJson, None, Null}}
                  \cup {Reply(NoResponse, NotJson, None)}
Answers(h, x) == {h} \cup (IF Faults THEN [r : FaultReplies, x : {h.x, x}] ELSE {})

-----------------------------------------------------------------------------
(* The client.                                                             *)

\* The field the code reads; a JSON null is None to .get().
Field(j) == IF j = Null THEN None ELSE j

\* The process moves to pc q, or exits at q with error e.
Go(p, q) == [cl[p] EXCEPT !.pc = q]
Stop(p, q, e) == [cl[p] EXCEPT !.pc = q, !.err = e]

\* A call of p to its session at the provider with honest answer h; the
\* client's handling of the reply r is the locals Handle(r).
Call(p, h, Handle(_)) ==
    \E a \in Answers(h, ia[p]) :
        /\ ia' = [ia EXCEPT ![p] = a.x]
        /\ cl' = [cl EXCEPT ![p] = [Handle(a.r) EXCEPT !.status = a.r.status]]
        /\ UNCHANGED pwOk

\* requests raises before any reply; r.json() raises on a body that is not JSON.
Raised(p, r) == Stop(p, "crashed", IF r.status = NoResponse THEN "NetworkError" ELSE "JSONDecodeError")

\* Mutant of StartAuth: the verifier itself sent as the challenge.
StartAuthPlainChallenge(p) ==
    /\ cl[p].pc = "auth"
    /\ Call(p, IdpAuth(ia[p], Verifier(p)),
            LAMBDA r : IF r.status = NoResponse THEN Raised(p, r) ELSE Go(p, "put"))

\* Lines 77-102: the session is created and GET /oidc/auth sent with the
\* challenge; the reply is ignored.
StartAuth(p) ==
    /\ cl[p].pc = "auth"
    /\ Call(p, IdpAuth(ia[p], S256(Verifier(p))),
            LAMBDA r : IF r.status = NoResponse THEN Raised(p, r) ELSE Go(p, "put"))

\* Line 105: PUT /api/interaction, reply ignored.
BeginSignIn(p) ==
    /\ cl[p].pc = "put"
    /\ Call(p, IdpPut(ia[p]),
            LAMBDA r : IF r.status = NoResponse THEN Raised(p, r) ELSE Go(p, "patch"))

\* Mutant of SubmitIdentifiers: every error status reported as bad credentials.
SubmitIdentifiersAnyError(p) ==
    /\ cl[p].pc = "patch"
    /\ Call(p, IdpIdentify(ia[p], pwOk[p]),
            LAMBDA r : IF r.status = NoResponse THEN Raised(p, r)
                       ELSE IF ~Ok(r.status)
                            THEN IF r.json = NotJson THEN Raised(p, r)
                                 ELSE Stop(p, "failed", "InvalidCredentials")
                       ELSE Go(p, "submit"))

\* Lines 106-115: PATCH identifiers; 422 and any other error status exit.
SubmitIdentifiers(p) ==
    /\ cl[p].pc = "patch"
    /\ Call(p, IdpIdentify(ia[p], pwOk[p]),
            LAMBDA r : IF r.status = NoResponse THEN Raised(p, r)
                       ELSE IF r.status = 422
                            THEN IF r.json = NotJson THEN Raised(p, r)
                                 ELSE Stop(p, "failed", "InvalidCredentials")
                       ELSE IF ~Ok(r.status) THEN Stop(p, "failed", "AuthError")
                       ELSE Go(p, "submit"))

\* Lines 118-122: POST submit; redirectTo must be present.
SubmitSignIn(p) ==
    /\ cl[p].pc = "submit"
    /\ Call(p, IdpSubmit(ia[p]),
            LAMBDA r : IF r.json = NotJson THEN Raised(p, r)
                       ELSE IF Field(r.json) = None THEN Stop(p, "failed", "UnexpectedSignIn")
                       ELSE [Go(p, "resume") EXCEPT !.redirect = r.json])

\* Lines 125-126: GET redirect_to; a Location mentioning consent leads to the
\* consent screen, any other Location is dropped and redirect_to kept.
FollowRedirect(p) ==
    /\ cl[p].pc = "resume"
    /\ Call(p, IdpResume(ia[p], p),
            LAMBDA r : IF r.status = NoResponse THEN Raised(p, r)
                       ELSE IF r.loc = "consent" THEN Go(p, "consentPage")
                       ELSE Go(p, "final"))

\* Line 127: GET of the consent page, reply ignored.
OpenConsent(p) ==
    /\ cl[p].pc = "consentPage"
    /\ Call(p, Ans(Reply(200, NotJson, None), ia[p]),
            LAMBDA r : IF r.status = NoResponse THEN Raised(p, r) ELSE Go(p, "consentPost"))

\* Lines 128-129: POST consent; redirect_to becomes its redirectTo, unchecked.
SubmitConsent(p) ==
    /\ cl[p].pc = "consentPost"
    /\ Call(p, IdpConsent(ia[p]),
            LAMBDA r : IF r.json = NotJson THEN Raised(p, r)
                       ELSE [Go(p, "final") EXCEPT !.redirect = Field(r.json)])

\* Lines 132-138, redirect_to None: requests refuses the URL before sending.
FollowNone(p) ==
    /\ cl[p].pc = "final"
    /\ cl[p].redirect = None
    /\ cl' = [cl EXCEPT ![p] = Stop(p, "crashed", "MissingSchema")]
    /\ UNCHANGED <<pwOk, ia>>

\* Lines 132-138: GET redirect_to; the code is the callback's query parameter.
FollowFinal(p) ==
    /\ cl[p].pc = "final"
    /\ cl[p].redirect # None
    /\ Call(p, IdpResume(ia[p], p),
            LAMBDA r : IF r.status = NoResponse THEN Raised(p, r)
                       ELSE IF r.loc \in Codes THEN [Go(p, "token") EXCEPT !.code = r.loc]
                       ELSE Stop(p, "failed", "NoCode"))

\* Mutant of ExchangeCode: the challenge sent in place of the verifier.
ExchangeCodeWithChallenge(p) ==
    /\ cl[p].pc = "token"
    /\ LET s == cl[p].code[1] IN
       \E a \in Answers(IdpToken(ia[s], cl[p].code[2], S256(Verifier(p))), ia[s]) :
          /\ ia' = [ia EXCEPT ![s] = a.x]
          /\ cl' = [cl EXCEPT ![p] =
                [IF a.r.json = NotJson THEN Raised(p, a.r)
                 ELSE IF Field(a.r.json) = None THEN Stop(p, "failed", "NoLogtoToken")
                 ELSE Go(p, "exchange")
                 EXCEPT !.status = a.r.status]]
          /\ UNCHANGED pwOk

\* Lines 141-154: POST /oidc/token with the code and the verifier.  The
\* call is outside the session, the code names the interaction.
ExchangeCode(p) ==
    /\ cl[p].pc = "token"
    /\ LET s == cl[p].code[1] IN
       \E a \in Answers(IdpToken(ia[s], cl[p].code[2], Verifier(p)), ia[s]) :
          /\ ia' = [ia EXCEPT ![s] = a.x]
          /\ cl' = [cl EXCEPT ![p] =
                [IF a.r.json = NotJson THEN Raised(p, a.r)
                 ELSE IF Field(a.r.json) = None THEN Stop(p, "failed", "NoLogtoToken")
                 ELSE Go(p, "exchange")
                 EXCEPT !.status = a.r.status]]
          /\ UNCHANGED pwOk

\* Lines 157-167: POST the Logto token to the backend; data: null makes
\* .get("token") raise AttributeError.
ExchangeToken(p) ==
    /\ cl[p].pc = "exchange"
    /\ Call(p, BackendExchange(ia[p]),
            LAMBDA r : IF r.json = NotJson THEN Raised(p, r)
                       ELSE IF r.json = Null THEN Stop(p, "crashed", "AttributeError")
                       ELSE IF r.json = None THEN Stop(p, "failed", "ExchangeFailed")
                       ELSE Go(p, "done"))

\* Every process has exited.
Terminated == (\A p \in Procs : cl[p].pc \in Exited) /\ UNCHANGED vars

-----------------------------------------------------------------------------

Init ==
    /\ pwOk \in [Procs -> BOOLEAN]
    /\ cl = [p \in Procs |-> [pc |-> "auth", redirect |-> None, code |-> None,
                              status |-> None, err |-> None]]
    /\ ia \in [Procs -> {[stage |-> "none", consent |-> b, challenge |-> None,
                          issued |-> 0, redeemed |-> {}] : b \in ConsentPrompt}]

Step(p) ==
    \/ StartAuth(p) \/ BeginSignIn(p) \/ SubmitIdentifiers(p) \/ SubmitSignIn(p)
    \/ FollowRedirect(p) \/ OpenConsent(p) \/ SubmitConsent(p)
    \/ FollowNone(p) \/ FollowFinal(p) \/ ExchangeCode(p) \/ ExchangeToken(p)

Next == (\E p \in Procs : Step(p)) \/ Terminated

\* A CLI process runs its calls to the end: each call returns (the
\* environment answers) and the process goes on.
Spec == Init /\ [][Next]_vars /\ \A p \in Procs : WF_vars(Step(p))

-----------------------------------------------------------------------------
(* Properties.                                                             *)

TypeOK ==
    /\ pwOk \in [Procs -> BOOLEAN]
    /\ cl \in [Procs -> Locals]
    /\ ia \in [Procs -> Interactions]

\* "Authentication failed" (line 111) is printed only to a user whose
\* password was wrong, whatever the gateway and the network did to the
\* calls before and after the PATCH of the identifiers.
InvalidCredentialsMeansWrongPassword ==
    \A p \in Procs : cl[p].err = "InvalidCredentials" => ~pwOk[p]

\* Every login against an honest provider ends as the credentials say: a
\* right password yields the backend JWT, a wrong one "Authentication
\* failed".  This needs the whole chain of the function: the session kept
\* across the calls, the consent branch, the code taken from the final
\* callback and the verifier sent with it.
LoginOutcome ==
    \A p \in Procs :
        <>(cl[p].pc = IF pwOk[p] THEN "done" ELSE "failed")

\* Spec, sections 1 and 5: the login aborts on any error status; no call
\* follows a reply with an error status.
NoCallAfterErrorStatus ==
    \A p \in Procs : cl[p].status \in 400..599 => cl[p].pc \in Exited

\* Spec, section 7: every error is printed with its context before the
\* exit; the only exception that escapes is a transport failure.
FailuresAreReported ==
    \A p \in Procs : cl[p].pc = "crashed" => cl[p].err = "NetworkError"

=============================================================================
