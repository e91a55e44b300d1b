# TLA+ models of the alerting CLIs

This directory holds the formal models of the two command-line clients in
`src/scripts/`. It contains TLA+ modules, the TLC configurations that
model-check them, and TLAPS proofs.

## The system

`src/scripts/alerting_config.py` manages an organization's alerting
configuration through the MY backend. Each invocation runs one subcommand:
`get`, `set`, `delete` or `alerts`. The subcommands work in two parts.

- **Login** (`_logto_login`, lines 69-167). This is an OIDC authorization-code
  flow with PKCE against Logto, inside one `requests.Session`:
  1. GET `/oidc/auth` with the S256 challenge.
  2. PUT `/api/interaction`.
  3. PATCH the identifiers. A 422 exits with "Authentication failed"; any
     other error status exits with "Authentication error".
  4. POST submit, which returns `redirectTo`.
  5. GET the resume URL. If the `Location` header names the consent page,
     the code GETs that page, POSTs the consent, and takes the consent's
     `redirectTo`.
  6. GET the resume URL again and read the `code` from its callback
     `Location`.
  7. POST `/oidc/token` with the verifier.
  8. POST the Logto token to the backend's `/auth/exchange`, which returns
     the JWT.
- **Command** (`cmd_get`, `cmd_set`, `cmd_delete`, `cmd_alerts`, lines
  191-279). Each sends one request with the JWT, decodes the reply with
  `r.json()`, then checks `r.ok`. `cmd_set` reads its `--config` file first.

Concurrent invocations share nothing but the backend's configuration of the
organization. Each invocation has its own Logto session.

`src/scripts/alert.py` pushes, resolves, silences and lists alerts through an
Alertmanager proxy. Each invocation builds one request from its command
line (`parse_kv` turns the `--labels` and `--annotations` items into a
dict), sends it with HTTP Basic auth and a 30 s timeout, and prints a line
after looking at `resp.ok`:
- `push` POSTs one alert with the base labels `alertname`, `severity` and
  `system_key`, updated by `--labels`;
- `resolve` POSTs the same alert with `endsAt` now;
- `silence` POSTs a silence whose matchers are `alertname` and the extra
  labels, ending `--duration` minutes from now;
- `list` GETs the alerts and filters them by `--state` and `--severity`.
Concurrent invocations share the Alertmanager of the tenant.

## Modules

| module | models | source |
|---|---|---|
| `LogtoLogin` | `_logto_login`, one action per HTTP call | alerting_config.py 69-167 |
| `AlertingConfig` | the four commands and `main`'s dispatch, composed with `LogtoLogin` | alerting_config.py 191-324 |
| `LogtoLoginProofs` | TLAPS proofs about `LogtoLogin` | |
| `LoginAbstract` | what the login promises: JWT, Authentication failed or another error | |
| `LoginRefinement` | the refinement mapping from `LogtoLogin` to `LoginAbstract` and its invariant `RInv` | |
| `AlertingConfigProofs` | TLAPS proofs about `AlertingConfig` | |
| `LoginRefinementProofs` | TLAPS proof that `LogtoLogin` implements `LoginAbstract` | |
| `AlertCli` | `parse_kv`, push, resolve, silence, list and `main` of `alert.py`, with an Alertmanager environment | alert.py 46-233 |
| `AlertCliProofs` | TLAPS proofs about `AlertCli` | |
| `AlertAbstract` | what an invocation of `alert.py` promises: refuse, or request then succeed or fail; Alertmanager applies only a sent request, never a listing | |
| `AlertRefinement` | the refinement mapping from `AlertCli` to `AlertAbstract` and its invariant `RInv` | |
| `AlertRefinementProofs` | TLAPS proof that `AlertCli` implements `AlertAbstract` | |
| `MC_LogtoLogin`, `MC_AlertingConfig`, `MC_AlertCli` | model values, small sets and command lines for TLC | |

### LogtoLogin

**State:**
- `cl[p]` holds the locals of invocation `p`:
  - `pc`: the next call;
  - `redirect`: `redirect_to`;
  - `code`: the authorization code;
  - `status`: the status of the last reply;
  - `err`: the message or exception the process exited with.
- `ia[s]` is Logto's interaction for session `s`: its stage, whether it
  prompts for consent, the bound challenge, the codes issued and the codes
  redeemed.
- `pwOk[p]` says whether the password given to `p` is the right one.

**Actions.** Each HTTP call of the function is one action. It covers the
request, the answer of the environment, and the client's handling up to the
next call:

| action | call |
|---|---|
| `StartAuth` | GET `/oidc/auth` |
| `BeginSignIn` | PUT `/api/interaction` |
| `SubmitIdentifiers` | PATCH the identifiers |
| `SubmitSignIn` | POST submit |
| `FollowRedirect` | first GET of the resume URL |
| `OpenConsent` | GET of the consent page |
| `SubmitConsent` | POST consent |
| `FollowFinal` | final GET of the redirect |
| `FollowNone` | `session.get(None)`, which raises before sending |
| `ExchangeCode` | POST `/oidc/token` |
| `ExchangeToken` | POST `/auth/exchange` |

The handlers keep the code's order of checks:
- which statuses are ignored;
- where `r.json()` raises;
- which missing field exits with which message.

The calls block, and different processes share nothing at the provider, so
making a call and its reply one step loses no interleaving.

**The environment.** The `Idp*` operators model Logto's honest answers,
following the stages of its experience API.
- `ResumeOnce` says whether a resume URL can be followed only once. This is
  how oidc-provider consumes an interaction.
- When `Faults` is TRUE, any call may instead get one of:
  - a 502 with a JSON or HTML body;
  - no response at all.
- After a fault, the provider has or has not applied the call.

**Data abstraction.** Bodies are reduced to the one field the code reads,
which may be missing, null, or not JSON at all. URLs are reduced to what the
code tells apart: the sign-in page, the consent page, or a callback with a
code. The PKCE verifier of `p` is `p`, and its challenge is `<<"S256", p>>`.

### AlertingConfig

`AlertingConfig` EXTENDS `LogtoLogin` and adds three variables:
- `req[p]`: the subcommand, and the `--config` file (a configuration or an
  unreadable file);
- `co[p]`: the command's pc, its stdout output and its error;
- `be`: the stored configuration, plus the ghost set `applied` of invocations
  whose writes the backend applied.

A command runs once its login reached `done`.
- The backend may apply a request, or refuse it with a JSON 403. The 403
  stands for a role that may not manage the organization.
- With `Faults`, the backend may instead answer 502, or the reply may be
  lost. In both cases the write may or may not have been applied.
- `Failed` is the shared `data = r.json(); if not r.ok` block.

### LoginAbstract and LoginRefinement

`LoginAbstract` has one variable `st[p]` per invocation, "running" at first,
and the fixed truth `pwOk[p]` of each password. A running invocation may
become "done" only with a right password (`GetJwt`), "rejected" only with a
wrong one (`Reject`), and "failed" at any time (`Abort`: a gateway error, a
crash, a lost reply).

`LoginRefinement` maps `LogtoLogin` onto it: `LoginState[p]` is "done" at pc
`done`, "rejected" for an exit with `InvalidCredentials`, "failed" for any
other exit, and "running" otherwise; `pwOk` maps to itself.
`AbstractLogin == AbsLogin!AbsSpec` (with
`AbsLogin == INSTANCE LoginAbstract WITH st <- LoginState`) is checked as a
property by the `faults` run and proved.

### AlertCli

**State:**
- `args[p]`: the parsed command line of invocation `p` (fixed by `Init`,
  which stands for argparse): command, whether the secret is right, base
  labels, the `--labels` and `--annotations` items as sequences of pairs (or
  `Bad` for an item without `=`), duration (`Huge` overflows), list filters;
- `cli[p]`: pc (`start`, `sent`, `done`, `failed`, `crashed`), output, error;
- `net[p]`: the request in flight and the reply, separate so that a request
  can still be applied after the client gave up;
- `am`: the firing alerts (a set of label sets: Alertmanager merges alerts
  by label set and the last one to arrive decides), the silences
  (matchers and end time), and a ghost log of applied requests;
- `now`: the clock, in minutes, bounded by `MaxTime`.

**Actions.** `Invoke` is `main`'s dispatch to `PushOrResolve`,
`SilenceAlert` or `ListAlerts`: it runs `parse_kv` (which may exit), builds
the request and sends it. `Receive` applies the handling of `resp.ok` of
the command (`Outcome`), including the list filters (`Shown`). `TimedOut`
is the 30 s timeout: a request without a reply raises. The environment's
`Deliver` applies a request (`Process`: 401 for a wrong secret, 400 for a
silence ending in the past) and answers, or with `Faults` answers 502 after
applying or not, or applies and loses the reply; `Lose` drops a request.
`ResolveTimeout` lets a firing alert end by itself; `Tick` advances the
clock so silences expire.

`ParseKv` is the loop of lines 49-54 as a recursive function: `dict[i]` is
the result after the first `i` pairs, and `Put` is `result[k] = v`. It is
written this way, not with a fold, so that `AlertCli` reaches no RECURSIVE
operator and can be proved about.

## Runs

| run | cfg | checks | expect |
|---|---|---|---|
| honest | `honest.cfg` | `LoginOutcome` | pass (225 states) |
| faults | `faults.cfg` | `TypeOK`, `InvalidCredentialsMeansWrongPassword`, `AbstractLogin` | pass (22,801 states) |
| commands | `commands.cfg` | `CTypeOK`, `SuccessMeansApplied` | pass (688,563 states) |
| no_consent | `no_consent.cfg` | `LoginOutcome` | violation |
| abort_on_error | `abort_on_error.cfg` | `NoCallAfterErrorStatus` | violation |
| errors_reported | `errors_reported.cfg` | `FailuresAreReported` | violation |
| backend_errors | `backend_errors.cfg` | `BackendErrorsReported` | violation |
| alerts | `alerts.cfg` | `AlertTypeOK`, `SuccessMeansAccepted`, `NoDuplicateApplication`, `EveryInvocationEnds`, `AbstractAlerts` | pass (43,502 states) |
| key_override | `key_override.cfg` | `PushKeepsSystemKey` | violation |
| list_state | `list_state.cfg` | `ListShowsFiringAlerts` | violation |

What the runs show:
- **honest**: two concurrent logins against an honest Logto that always
  prompts for consent (the flow the code was written for). Each login ends
  as its password says: the JWT for a right password, "Authentication
  failed" for a wrong one. This needs the whole chain:
  - the same session for every call;
  - the consent branch;
  - the code taken from the final callback;
  - the verifier sent with it.
- **faults**: two logins, with faults on every call, consent prompted or
  not, and resume URLs that can be followed twice. "Authentication failed"
  is never printed to a user whose password is right. Only a real 422
  leads there, and a gateway 502 goes to "Authentication error" or to a
  crash. The login implements `LoginAbstract` (`AbstractLogin`): no JWT
  without the right password, no "Authentication failed" with it.
- **commands**: two concurrent invocations, with faults at Logto and at the
  backend. A success message of `set` or `delete` is printed only for a
  write of that invocation that the backend applied.
- **alerts**: two concurrent invocations of any of ten command lines (push
  with or without a bad annotation or a wrong secret, resolve, silence for
  1, 0 or an overflowing number of minutes or with a bad label, list with
  and without filters), with gateway faults, lost replies, timeouts,
  resolve timeouts and expiring silences. A success line is printed only
  for a request Alertmanager applied. A request is never on the wire again
  once Alertmanager applied it (`NoDuplicateApplication`): a timeout or a
  502 that may come after the application ends the process, it does not
  post again. Every invocation ends, and the client implements
  `AlertAbstract` (`AbstractAlerts`).

Each violation run records a disagreement between the code and the spec. The
findings in `PROJECT.json` give the details.
- **no_consent**: when Logto does not prompt for consent, the code throws
  away the callback of the first resume and follows the resume URL again.
  With a resume URL that can be followed once, a right password never logs
  in.
- **abort_on_error**: the status of GET `/oidc/auth` (and of six other calls)
  is ignored. Spec §§1 and 5 say the flow aborts on any non-2xx.
- **errors_reported**: `r.json()` on an HTML error page raises. So do
  `data: null` and a consent reply without `redirectTo`. Spec §7 says every
  error is printed with context.
- **backend_errors**: the commands decode the body before looking at the
  status, so a non-JSON error page crashes them.
- **key_override**: `--labels system_key=k2` replaces the authenticating
  key in the pushed alert's labels.
- **list_state**: `list --state firing`, as the help text suggests, prints
  "No alerts found." while an alert fires: Alertmanager's state is `active`.

Every property of a passing run has a mutant in `PROJECT.json`. The mutant
is a plausible bug in the code that TLC must find:

| mutant | breaks |
|---|---|
| the challenge sent as verifier | `LoginOutcome` |
| the plain verifier sent as challenge | `TypeOK` |
| every error status read as bad credentials | `InvalidCredentialsMeansWrongPassword` |
| the `--config` file sent without its `try` | `CTypeOK` |
| the status of the POST never checked | `SuccessMeansApplied` |
| any error status of the PATCH read as 422 | `AbstractLogin` |
| `--labels` replacing the base labels instead of updating them | `AlertTypeOK` |
| `resp.ok` never checked | `SuccessMeansAccepted` |
| a request without a timeout | `EveryInvocationEnds` |
| the subcommand retried after a timeout | `NoDuplicateApplication` |
| the annotations of push parsed after `requests.post` | `AbstractAlerts` |

**Bounds.**
- Two processes are enough for every interaction between invocations: one
  process's calls racing the other's.
- `MaxCodes = 2` lets a resume URL be followed twice when `ResumeOnce` is
  FALSE, which is the re-GET of line 132.
- Two configurations tell a process's own write from the other's.
- The violation runs use one process where one is enough.
- `alerts` uses `MaxTime = 2`: a silence of 1 minute is created, mutes, and
  expires; a silence of 0 minutes ends at once and is rejected.
- The lost reply after an application, followed by the timeout, needs
  `Faults`, so `alerts` runs with it.

**Fairness.** `Spec` assumes weak fairness of each process's steps. A CLI
process runs its calls to the end, and every call returns in the model: the
environment answers or the call fails. That the code sets no timeout on the
provider calls is listed as a hazard and not modelled. No fairness is
assumed of the environment's choice among answers.

In `AlertCli` weak fairness is assumed of each invocation's steps only
(`Invoke`, `Receive`, `TimedOut`). Every call of `alert.py` has
`timeout=30`, so a call with no reply ends in an exception: this is what
`EveryInvocationEnds` rests on, and no fairness of delivery is needed.

## Proofs

`LogtoLoginProofs` proves, for every set `Procs` and every value of
`ConsentPrompt`, `ResumeOnce` and `Faults`:

- `IInvariant`: `Spec => []IInv`;
- `TypeCorrect`: `Spec => []TypeOK`;
- `InvalidCredentialsSound`: `Spec => []InvalidCredentialsMeansWrongPassword`.

`TypeOK` alone is not inductive. The strengthening `IInv` adds four facts:
- an interaction issues no code before the stage "resumed". This is what
  makes code `issued + 1` a code.
- a process at `auth` finds its interaction fresh. GET `/oidc/auth` resets
  the stage.
- a process at `token` holds a code, whose session the token call reads.
- `InvalidCredentialsMeansWrongPassword` itself.

TLC checked `IInv` as an invariant first.

**Proof outline.**
- `InitIInv` shows that `Init` establishes `IInv`.
- `NextIInv` has one lemma per action (`StartAuthOK` ... `ExchangeTokenOK`).
  Each lemma picks the answer the environment gave, and shows that the new
  locals satisfy `LocalOK`.
- `StepPreserves` then gives `IInv'`. The only step that writes another
  process's session is the token call, and it keeps that session's stage
  (`TokenAnswer`).
- The key fact for the credentials property is `IdentifyRejects`: a 422 of
  the honest provider means a wrong password. `FaultStatus` adds that a
  fault reply is never 422.
- The constant assumptions used are `ConstantsAssumption` and
  `NoneAssumption` (None is no error name and no field value).

`LoginRefinementProofs` proves, for the same constants:

- `RInvariant`: `Spec => [](IInv /\ RInv)`;
- `Refinement`: `Spec => AbstractLogin`.

`RInv` adds three facts to `IInv`: an interaction past the identifier step
belongs to a right password; a process at `token` holds a code of its own
session; a process at `exchange` or `done` had the right password. The
refinement then follows the usual argument: `Init` maps to `AbsInit`
(`InitRefines`), and every step under `IInv /\ RInv` and its primed form
maps to a step of `LoginAbstract` or a stutter (`NextRefines`): a step of
another process leaves `LoginState[p]` alone (`StepShape`), an exit to
"done" is `GetJwt` since the exchange reached `done` only with the right
password, an exit with `InvalidCredentials` is `Reject` by
`IdentifyRejects`, and any other exit is `Abort`. It uses one more constant
assumption, `PageAssumption`: the sign-in and consent pages are not
callbacks carrying a code.

`AlertingConfigProofs` proves, for every set of invocations and of
configurations and the same provider choices:

- `CTypeCorrect`: `CSpec => []CTypeOK`;
- `SuccessMeansAppliedHolds`: `CSpec => []SuccessMeansApplied`.

The inductive invariant `CInv` is the login's `IInv` with the types of
`req`, `co` and `be` and `SuccessMeansApplied` itself. The property alone
is not inductive: it needs the backend's ghost set `applied` to never
shrink and the output to be set only from a typed reply. The argument:
- a step of the login changes no command variable, and a command step
  changes no login variable, so `IInv` is carried by `NextIInv`
  (`LoginView`);
- every answer of the backend, honest or a gateway fault, only grows
  `applied`, and a 2xx-3xx status comes only with the honest answer
  (`BeAnswer`); the honest 2xx-3xx answer to a POST or DELETE of `p` puts
  `p` in `applied` (`WriteApplied`);
- an exit or `Failed` keeps the output; `cmd_get` and `cmd_alerts` print
  no success line, which needs the assumption that no configuration is a
  success line (`ConfigAssumption`).

`AlertCliProofs` proves, for every set of invocations, every set of
command lines and either value of `Faults`:

- `AInvariant`: `Spec => []AInv`;
- `SuccessMeansAcceptedHolds`: `Spec => []SuccessMeansAccepted`.

`SuccessMeansAccepted` alone is not inductive: `Receive` reads the reply in
`net`, so the reply must already be backed by Alertmanager's log. `AInv`
adds that a request in flight is of its invocation's subcommand, and that a
2xx-3xx reply to anything but a list was given after Alertmanager applied
the request of that invocation (`Logged`); the rest is the shape of the
records. TLC checked `AInv` on the `alerts` instance first. The argument:
- `ProcessOK`: Alertmanager's processing only grows the log, and a 2xx-3xx
  answer to push, resolve or silence logs the invocation (401 and 400 are
  not 2xx-3xx, and a request of another kind is a list);
- `DeliverOK`: a 502 or a lost reply is never a success, so a 2xx-3xx reply
  in `net` is Alertmanager's own;
- `InvokeOK`, `SendOK`, `ExitOK`: `main` sends a request of its own
  subcommand, or exits before any request;
- `ReceiveOK`: `Outcome` prints a success line only for a 2xx-3xx reply.

It uses the assumption `AlertAssumption`, whose last clause says that every
command line has one of the four subcommands (argparse's
`required=True`, line 196).

`AlertAbstract` states what an invocation of `alert.py` promises. It
starts, then either exits before any request (`Refuse`: a bad key=value
item, an overflowing duration) or sends its one request (`Request`) and
then prints its result (`Succeed`) or exits with an error (`Fail`).
Alertmanager applies only a sent request and never a listing
(`Apply`), possibly after the invocation has failed. `Succeed` of push,
resolve or silence needs the request applied. `AlertRefinement` maps:
- the abstract state of an invocation onto its pc (`AlertState`);
- the sent set onto the invocations that reached `requests.post`
  (`Requested`: pc "sent" or "done", or an exit with HTTPError, an error
  reply, or NetworkError, the timeout);
- the applied set onto the invocations in Alertmanager's log (`Applied`).

`AlertRefinementProofs` proves, for the same constants:

- `RInvariant`: `Spec => [](AInv /\ RInv)`;
- `Refinement`: `Spec => AbstractAlerts`;
- `NoDuplicateApplicationHolds`: `Spec => []NoDuplicateApplication`, from
  the second conjunct of `RInv` (`RInvNoDuplicate`).

`Applied` is a set of invocations, so the refinement mapping cannot tell
one application from two; that a request is not applied twice is what
`NoDuplicateApplication` states.

`RInv` adds to `AInv` that an invocation at its start has no error and
nothing in the log, and that a request in flight belongs to an invocation
in `Requested` and not in `Applied`: each invocation sends one request, and
delivery takes it off the wire.
The argument has one lemma per action:
- `EarlyExitR` and `SendR` (through `InvokeR`): `main` refuses or requests;
- `ReceiveR`: a reply read is `Succeed` or `Fail`, and `Succeed` of a
  non-list has its request applied, by `AInv`;
- `TimedOutR`: `Fail`, with the request possibly still in flight;
- `DeliverR`: by `ProcessLog`, Alertmanager's processing either leaves the
  log, a stutter, or adds one entry of a non-list invocation, `Apply`;
- `EnvR`: a lost request, a resolve timeout and a tick are stutters.

It uses one more clause of `AlertAssumption`: `None`, the absence of an
error, is none of the error names.

**Only model-checked.**
- Liveness (`LoginOutcome`). TLAPS does not reason about fairness and
  ENABLED.
- `BackendErrorsReported` of `AlertingConfig`, and `PushKeepsSystemKey` and
  `ListShowsFiringAlerts` of `AlertCli` (all violated).
- `AlertTypeOK`: that a posted label set has the base labels and values of
  the right sets needs what `ParseKv` returns for every sequence of pairs,
  an induction over data that the provers cannot do.
- `EveryInvocationEnds` (liveness).

## Not modelled

- `_get_my_org` and `_resolve_org`: never called.
- Argument parsing, message wording and JSON rendering.
- The query parameters of the commands, which are passed through unchanged.
- The `state` parameter, which is generated and never checked.
- Alertmanager's internals beyond the merge by label set, the silence
  matching and the listing: grouping, inhibition, notification.
- Timestamps and `generatorURL` of `alert.py`: the clock is abstracted to
  minutes and Alertmanager's order of arrival.
- The order of the silence matchers: a set, since Alertmanager ANDs them.

## Plan

1. `AlertingConfig` over the abstract login, for a much smaller state space
   and larger instances.
2. Fairness of `AlertAbstract` (every invocation ends) and its
   implementation by `AlertCli`, which needs ENABLED and stays with TLC
   (`EveryInvocationEnds`).
