CONSTANTS
    NInstances = 2
    d1 = d1
    d2 = d2
    c1 = c1
    c2 = c2
    Device = {d1, d2}
    DevicesOf <- MCDevicesOf
    Client <- MCSerialClients
    MaxRequests = 2
    NilPci = NilPci
    Nil = Nil

SPECIFICATION FairSpec

INVARIANT TypeOK
PROPERTY ImplementsStartupGate
PROPERTY AllGatesFiredLeadsToStart

CHECK_DEADLOCK FALSE
