\* A run stops for good when it ends.
CHECK_DEADLOCK FALSE
CONSTANTS
    good = good
    flaky = flaky
    unbuilt = unbuilt
    hanging = hanging
    binary = binary
    Missing = Missing
    Torn = Torn
    Texts <- MCTexts
    Undecodable = {binary}
    Garbling = {flaky}
    KnownChecks = {"conformance", "backlog"}
    Outcomes <- MCOutcomes
    Agents <- MCAgents
    ExposedChecks <- MCExposedChecks
    Configs <- MCConfigs
    OtherPaths = {"README.md", "build/out"}
    Unreported = {"build/out"}
SPECIFICATION Spec
INVARIANTS
    NothingLeftBehind
    AcceptedIsWhatTheAgentLeft
    NothingSubstituted
PROPERTY
    RunEnds
