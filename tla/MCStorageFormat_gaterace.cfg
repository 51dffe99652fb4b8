CONSTANTS
    NInstances = 2
    d1 = d1
    d2 = d2
    c1 = c1
    c2 = c2
    Device = {d1, d2}
    DevicesOf <- MCDevicesOf
    Client <- MCConcurrentClients
    MaxRequests = 2
    NilPci = NilPci
    Nil = Nil

SPECIFICATION FairSpec

CHECK_DEADLOCK FALSE
PROPERTY ImplementsStartupGate
