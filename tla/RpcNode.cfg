SPECIFICATION FairSpec
CONSTANTS
    Address = {a, b, c}
    Neighbour = {a, b}
    Destination = {c}
    Direct = Direct
    None = None
    Rtt = {1, 2}
    MaxQueue = 2
INVARIANTS TypeOK DirectIffConnected SettledExact NoLostWakeup
PROPERTIES EndedIsRemoved WaiterReturns
