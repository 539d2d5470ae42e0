\* The check stops for good once it has given its verdict.
CHECK_DEADLOCK FALSE
CONSTANTS
    a = a
    b = b
    ghost = ghost
    r1 = r1
    r2 = r2
    NoUe = NoUe
    UeIds <- MCUeIds
    BlockIds <- MCBlockIds
    RunInputs <- MCRunInputs
    TtiInputs <- MCTtiInputs
    StepResults <- MCStepResults
    InitialState = "initial"
SPECIFICATION CheckSpec
INVARIANTS
    BlockGrantedOnce
    BacklogIsUnserved
    EveryTtiOnceInOrder
    ReplayAgreesWithLoop
    EmptyServiceIsReported
    ExactOnWholeServices
PROPERTY
    KeepsPromise
