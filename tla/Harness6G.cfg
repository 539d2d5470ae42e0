\* The environment may leave the harness alone once it has stopped.
CHECK_DEADLOCK FALSE
CONSTANTS
    p1 = p1
    p2 = p2
    outside = outside
    good = good
    flaky = flaky
    unbuilt = unbuilt
    hanging = hanging
    binary = binary
    Missing = Missing
    Torn = Torn
    NoPath = NoPath
    Texts <- MCTexts
    Undecodable = {binary}
    Garbling = {flaky}
    KnownChecks <- MCKnownChecks
    Outcomes <- MCOutcomes
    Paths = {p1, p2, outside}
    InScope = {p1, p2}
    Tasks <- MCTasks
    Revisions <- MCRevisions
    Files <- MCFiles
    SameStamp = TRUE
    MaxRuns = 2
    MaxEdits = 1
    MaxCrashes = 1
SPECIFICATION Spec
INVARIANTS
    ObservationsExplainTheReason
    AcceptedPassedEveryCheck
    FrozenIsWhatPassed
    EvidenceMatchesTheCopy
    VerifiedWasFrozenWhole
    EvaluatedIsInTheEvidence
PROPERTY
    EveryRunStops
