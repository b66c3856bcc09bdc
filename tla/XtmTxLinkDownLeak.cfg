CONSTANTS
    NULL = NULL
    d1 = d1
    d2 = d2
    s1 = s1
    s2 = s2
    s3 = s3
    Devs = {d1}
    Skbs = {s1, s2}
    MaxDevCtxs = 1
    Ports = {0}
    MaxPhyPorts = 2
    SubPrios = {0, 1}
    MaxTxQueues = 2
    MaxQueueSize = 2
    TxQConfigs <- OneRing
SPECIFICATION TxSpec
INVARIANT NoSkbLeak
