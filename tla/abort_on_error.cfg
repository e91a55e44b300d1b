CONSTANTS
    p1 = p1
    p2 = p2
    None = None
    Procs <- MCProcs1
    ConsentPrompt <- MCConsentAlways
    ResumeOnce = TRUE
    Faults = TRUE
SPECIFICATION Spec
INVARIANT NoCallAfterErrorStatus
