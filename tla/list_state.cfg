CONSTANTS
    p1 = p1
    p2 = p2
    Procs <- MCProcs
    Names <- MCNames
    Values <- MCValues
    Args <- FiringListArgs
    Bad = Bad
    Huge = Huge
    None = None
    Faults = FALSE
    MaxTime = 1
SPECIFICATION Spec
INVARIANT ListShowsFiringAlerts
