SPECIFICATION Spec
CONSTANTS
    MaxExperiments = 2
    MaxWork = 2
    MaxCalls = 3
    MaxTroubles = 2
    MovedIn <- First
    Asked <- Default
INVARIANTS NothingSilentlyStale RecordsTellTheTruth NumbersAreUnique PolicyFollowsTheRecord
CHECK_DEADLOCK FALSE
