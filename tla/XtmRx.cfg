CONSTANTS
    NULL = NULL
    d1 = d1
    d2 = d2
    m1 = m1
    Devs = {d1, d2}
    MatchIds = {m1}
    MaxRxQueues = 2
    RxSizes <- SmallRings
    RxVcids <- OneReceiver

SPECIFICATION RxFairSpec
INVARIANTS RxRingsConsistent PlaceForFreeBuffer NoStuckChannel ReceivedIsNoticed HeadersLast
PROPERTIES IrqLostOnlyByZeroing ReceivedIsTaken
