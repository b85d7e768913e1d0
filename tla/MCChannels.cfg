CONSTANTS
    Clients = {c1, c2}
    InCap = 2
    OutCap = 1
    Window = 2
    MaxRequests = 2
    MaxSignals = 2
SPECIFICATION FairSpec
INVARIANTS EachRequestOnce SignalsInOrder
PROPERTIES OpenCallsEnd LeaversLeave
