\* The magnet is found at zero, or two segments away from it.
CONSTANTS
    magnet = magnet
    other = other
    None = None
    VIs <- MCVIs
    Kinds <- MCKinds
    Top <- MCTop
    Goals <- MCGoals
    Flagged <- MCFlagged
    MaxAttempts = 2
    MaxUpsets = 1
    MaxStarts = 1
    MaxActions = 1
SPECIFICATION FairSpec
PROPERTIES EpisodeIsNotForgotten OthersKeepRamping RampsEnd HoldIsAnswered
