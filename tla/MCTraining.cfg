CONSTANTS
    t1 = t1
    t2 = t2
    a = a
    b = b
    Trainers <- MCTrainers
    Outcomes <- MCOutcomes
    Total = 4
    MaxCrashes = 4
SPECIFICATION Spec
SYMMETRY Symmetry
INVARIANTS
    TrainingTypeOK
    HistoryIsTheModels
    OneFinalModel
PROPERTIES
    FinalFilesStay
    CheckpointOnlyGrows
CHECK_DEADLOCK FALSE
