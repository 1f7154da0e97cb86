SPECIFICATION Spec
CONSTANTS
    None = None
    MaxRequests = 2
    MaxOps = 4
    MaxBytes = 2
    Careless = {}
INVARIANTS
    NotifyWaitsForOwn
CHECK_DEADLOCK FALSE
