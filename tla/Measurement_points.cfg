SPECIFICATION FairSpec
CONSTANTS
    Full = 2
    None = None
    Plans <- MCPlans
    Settle = 2
    RampSteps = 1
    Troubles = {"mute", "disk", "hold"}
INVARIANTS RowsAreTheirPoints FilesHoldWholePoints
PROPERTIES LeftSafe RunsEnd
