\* The script may not be started again.
CHECK_DEADLOCK FALSE
CONSTANTS
    UeIds <- MCUeIds
    BlockIds <- MCBlockIds
    Repetitions <- MCRepetitions
    MaxInterference = 1
    MaxLaunches = 2
    NoUe = NoUe
    MaxScore = 1000
SPECIFICATION Spec
INVARIANTS
    ResultsMatchTheOracles
    MeasuredRunsAgree
    UndisturbedIsNotRefused
    FilesComeFromWholeRuns
