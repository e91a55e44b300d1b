CONSTANTS
    p1 = p1
    p2 = p2
    None = None
    Procs <- MCProcs2
    ConsentPrompt <- MCConsentAlways
    ResumeOnce = TRUE
    Faults = FALSE
SPECIFICATION Spec
PROPERTY LoginOutcome
