SPECIFICATION FairSpec
CONSTANTS
    Full = 2
    None = None
    Plans <- Imaging
    Settle = 1
    RampSteps = 1
    Troubles = {}

PROPERTIES GateOpens
