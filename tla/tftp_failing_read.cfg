CONSTANTS
    c1 = c1
    Clients <- MCClients
    MaxConnections = 2
    Retries = 3
    BlockMod = 65536
    BlockSize = 3
    ClientRetries = 2
    MaxFull = 2
    OldBlocks = {0}
    Ops <- ReadOnly
    MaxFaults = 1
SPECIFICATION Spec
INVARIANT DoneIsWhole
