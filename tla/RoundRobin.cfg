\* run() stops for good when it returns or raises.
CHECK_DEADLOCK FALSE
CONSTANTS
    a = a
    b = b
    c = c
    r1 = r1
    r2 = r2
    r3 = r3
    r4 = r4
    NoUe = NoUe
    InitialState = NoUe
    UeIds <- MCUeIds
    BlockIds <- MCBlockIds
    RunInputs <- MCRunInputs
    TtiInputs <- MCTtiInputs
    StepResults = {}
SPECIFICATION RoundRobinSpec
INVARIANTS
    NeverRefused
    EvenSplit
    NoOvertaking
    WorkConserving
