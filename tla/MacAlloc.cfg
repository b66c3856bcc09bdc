CONSTANTS
    None = None
    u1 = u1
    u2 = u2
    u3 = u3
    x1 = x1
    x2 = x2
    Clients = {u1, u2, u3, x1, x2}
    XtmDevices = {x1, x2}
    Id <- UserAndXtmIds
    NumMacAddrs = 3
    Base <- LastBase
SPECIFICATION MacSpec
INVARIANTS IdsUnique OneHolder HeldCanBeReleased
PROPERTY FreshFirst
