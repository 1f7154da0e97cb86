SPECIFICATION Spec
CONSTANTS
    None = None
    MaxRequests = 2
    MaxOps = 4
    MaxBytes = 2
    Careless = {}
INVARIANTS
    Understood
    AnswersWhole
    IdleMeansDelivered
    CutShows
CHECK_DEADLOCK FALSE
