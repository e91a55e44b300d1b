\* Two concurrent alert.py invocations with faults on the way to Alertmanager.
CONSTANTS
    p1 = p1
    p2 = p2
    Procs <- MCProcs
    Names <- MCNames
    Values <- MCValues
    Args <- MixedArgs
    Bad = Bad
    Huge = Huge
    None = None
    Faults = TRUE
    MaxTime = 2
SPECIFICATION Spec
INVARIANTS
    AlertTypeOK
    SuccessMeansAccepted
    NoDuplicateApplication
PROPERTIES
    EveryInvocationEnds
    AbstractAlerts
