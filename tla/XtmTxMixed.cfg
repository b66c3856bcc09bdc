CONSTANTS
    NULL = NULL
    d1 = d1
    d2 = d2
    s1 = s1
    s2 = s2
    s3 = s3
    Devs = {d1, d2}
    Skbs = {s1, s2, s3}
    MaxDevCtxs = 1
    Ports = {0, 1}
    MaxPhyPorts = 2
    SubPrios = {0, 1, 2}
    MaxTxQueues = 2
    MaxQueueSize = 2
    TxQConfigs <- MixedRings
SYMMETRY Symmetry
SPECIFICATION TxSpec
INVARIANT TxRingsConsistent
PROPERTY ImplementsFifo
