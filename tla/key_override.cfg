CONSTANTS
    p1 = p1
    p2 = p2
    Procs <- MCProcs1
    Names <- MCNames
    Values <- MCValues
    Args <- OverrideArgs
    Bad = Bad
    Huge = Huge
    None = None
    Faults = FALSE
    MaxTime = 1
SPECIFICATION Spec
INVARIANT PushKeepsSystemKey
