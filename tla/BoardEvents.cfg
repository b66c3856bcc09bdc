CONSTANTS
    eth = eth
    usb = usb
    dsl = dsl
    Handlers = {eth, usb, dsl}
    Dsl = dsl
    ListHead = ListHead
    NULL = NULL
SPECIFICATION EventSpec
INVARIANTS ListIsRegistered GaspReachesAll
PROPERTIES DeadOnlyByRelease MonitorIsTold ButtonIsReported
CHECK_DEADLOCK FALSE
