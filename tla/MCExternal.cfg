CONSTANTS
    RestartCap = 3
    CapChoices <- MCCaps
    Costs = {1, 2}
SPECIFICATION Spec
INVARIANTS
    AttemptTypeOK
    AnswersMatch
    WorkerStops
    ReceiptAccepted
PROPERTIES
    NoLateCandidate
    AttemptEnds
CHECK_DEADLOCK FALSE
