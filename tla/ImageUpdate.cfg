CONSTANTS
    NSect = 8
    SectSize = 2
    SpMaxLen = 1
    TagLen = 1
    Reserved = 4
    PsiSizes = {1, 2}
    Lens = {3, 4, 9, 10, 13, 14}
    Worn = {0, 5}
    MaxUpdates = 2
    Erased = Erased
    Settings = Settings
    Junk = Junk
    Garbage = Garbage
    NoNvram = NoNvram
SPECIFICATION UpdateFairSpec
INVARIANTS RunningImageKept SectionsOffImage ReservedKept
PROPERTY NewImageRuns
CHECK_DEADLOCK FALSE
