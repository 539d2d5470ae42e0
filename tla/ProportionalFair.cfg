\* run() stops for good when it returns or raises.
CHECK_DEADLOCK FALSE
CONSTANTS
    a = a
    b = b
    r1 = r1
    NoUe = NoUe
    InitialState <- MCInitialState
    UeIds <- MCUeIds
    BlockIds <- MCBlockIds
    RunInputs <- MCRunInputs
    TtiInputs <- MCTtiInputs
    StepResults = {}
    MaxScore = 31
SPECIFICATION FairSpec
INVARIANTS
    BestScoreWins
    OnlyOverflowPassesTheNeverServed
    AveragesMatchHistory
