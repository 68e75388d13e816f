\* Requests may all have been made: then nothing more happens.
CHECK_DEADLOCK FALSE
CONSTANTS
    a1 = a1
    a2 = a2
    s1 = s1
    runA = runA
    runB = runB
    e1 = e1
    e2 = e2
    None = None
    Requests <- MCRequests
    Scripts <- MCScripts
    RunOf <- MCRunOf
    HomeOf <- MCHomeOf
    MaxFaults = 1
    MaxSwitches = 1
SPECIFICATION FairSpec
INVARIANTS OneEnding OwnVerdict
PROPERTIES WrongRecordUntouched EveryAnalysisEnds
