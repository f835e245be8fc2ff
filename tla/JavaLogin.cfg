CONSTANTS
    Limit = 6
    Thresholds <- MCThresholds
    MaxPackets = 2
    MaxInFlight = 2
SPECIFICATION FairSpec
INVARIANTS EndsAgree AnswersInOrder ConfigurationComplete ReturnsCleanly
PROPERTIES LoginEnds PassesPhases
CHECK_DEADLOCK FALSE
