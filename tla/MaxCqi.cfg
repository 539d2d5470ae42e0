\* run() stops for good when it returns or raises.
CHECK_DEADLOCK FALSE
CONSTANTS
    a = a
    b = b
    c = c
    r1 = r1
    r2 = r2
    NoUe = NoUe
    InitialState = "EmptySchedulerState"
    UeIds <- MCUeIds
    BlockIds <- MCBlockIds
    RunInputs <- MCRunInputs
    TtiInputs <- MCTtiInputs
    StepResults = {}
SPECIFICATION MaxCqiSpec
INVARIANT
    PicksBestChannel
