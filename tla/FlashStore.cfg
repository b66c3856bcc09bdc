CONSTANTS
    NSect = 6
    SectSize = 2
    SpMaxLen = 1
    Procs = {p1, p2}
    None = None
    d0 = d0
    d1 = d1
    Data = {d0, d1}
    Erased = Erased
    Zero = Zero
    Junk = Junk
    Loader = Loader
    ResetMark = ResetMark
    PsiSizes = {2, 3}
    DefaultPsi = 2
    KernelEnd = 3
    Calls <- AllCalls
    Worn = {5}
    MaxCrashes = 1
    MaxCalls = 2
SPECIFICATION StoreFairSpec
INVARIANTS SectorsHoldWhatWasSet OkMeansStored GetReturnsSet
PROPERTY EveryCallReturns
CHECK_DEADLOCK FALSE
