\* Two logins, faults on every call, consent prompted or not, resume URLs
\* reusable: types, the credentials message, and the abstract login.
CONSTANTS
    p1 = p1
    p2 = p2
    None = None
    Procs <- MCProcs2
    ConsentPrompt <- MCConsentEither
    ResumeOnce = FALSE
    Faults = TRUE
SPECIFICATION Spec
INVARIANT TypeOK
INVARIANT InvalidCredentialsMeansWrongPassword
PROPERTY AbstractLogin
