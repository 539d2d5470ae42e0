\* The call stops for good when it has returned or raised.
CHECK_DEADLOCK FALSE
CONSTANTS
    Texts = {}
    Undecodable = {}
    Garbling = {}
    Missing = Missing
    Torn = Torn
    KnownChecks <- MCKnownChecks
    Outcomes = {}
    Requests <- MCRequests
SPECIFICATION Spec
INVARIANTS
    OneOutcomeExplainsIt
    ChecksAreIndependent
    PassedMeansCompleted
