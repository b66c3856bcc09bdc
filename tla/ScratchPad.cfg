CONSTANTS
    a = a
    b = b
    c = c
    Tokens = {a, b, c}
    DataUnits <- MCDataUnits
    Lens = {0, 1, 3}
    PadLen = 14
    Align = 2
    Magic = Magic
    Version = Version
    Zero = Zero
    Erased = Erased
    Beyond = Beyond
    NoData = NoData
SPECIFICATION PadSpec
VIEW PadView
INVARIANTS GetSeesEveryToken TokensWellFormed
PROPERTY ImplementsMap
