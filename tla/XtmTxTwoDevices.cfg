CONSTANTS
    NULL = NULL
    d1 = d1
    d2 = d2
    s1 = s1
    s2 = s2
    s3 = s3
    Devs = {d1, d2}
    Skbs = {s1, s2}
    MaxDevCtxs = 2
    Ports = {0}
    MaxPhyPorts = 2
    SubPrios = {0, 1}
    MaxTxQueues = 1
    MaxQueueSize = 1
    TxQConfigs <- SmallRing
SPECIFICATION TxFairSpec
INVARIANTS TxTypeOK SkbInOnePlace RunningIffLinkUp StrayOnlyInRequest
PROPERTIES FreedAfterTransmit QueuedIsFreed
