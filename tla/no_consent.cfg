CONSTANTS
    p1 = p1
    p2 = p2
    None = None
    Procs <- MCProcs1
    ConsentPrompt <- MCConsentEither
    ResumeOnce = TRUE
    Faults = FALSE
SPECIFICATION Spec
PROPERTY LoginOutcome
