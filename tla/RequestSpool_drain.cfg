\* Three requests of ten kinds, one disk fault, crash or decision of the window.
CONSTANTS
    None = None
    Operator = Operator
    Templates <- MCTemplates
    Caps = {"debug", "session"}
    Gates = {"active", "revoked"}
    DiskFaults = {"append", "unlink"}
    MaxRequests = 3
    MaxUpsets = 1
SPECIFICATION FairSpec
CHECK_DEADLOCK FALSE
INVARIANT OneTrueAnswer
PROPERTIES ActsByRight RequestsAreSettled
