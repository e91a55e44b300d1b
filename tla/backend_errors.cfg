CONSTANTS
    p1 = p1
    p2 = p2
    c1 = c1
    c2 = c2
    None = None
    Unreadable = Unreadable
    Blackhole = Blackhole
    Procs <- MCProcs1
    Configs <- MCConfigs
    ConsentPrompt <- MCConsent
    ResumeOnce = TRUE
    Faults = TRUE
SPECIFICATION CSpec
INVARIANT BackendErrorsReported
