\* The call stops for good when it ends.
CHECK_DEADLOCK FALSE
CONSTANTS
    Repetitions <- MCRepetitions
    MaxInterference = 5
SPECIFICATION Spec
INVARIANTS
    ResultIsComplete
    SpoiledSamplesTakeTwoSwitches
    PeakIsMeasured
    OwnTracingIsStopped
