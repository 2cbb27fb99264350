CONSTANTS
    Names = {1, 2, 3}
    TailProbe = 2
    MaxProbe = 4
    MaxFiles = 3
    VerifyBudget = 8
    MaxCandidates = 2
    Depth = 3
    Change = 6
    Contents <- MCContents
    Shifts <- MCShifts
SPECIFICATION DirectorySpec
CHECK_DEADLOCK FALSE
INVARIANT AnchorReal
INVARIANT NothingHidden
