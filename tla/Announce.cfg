SPECIFICATION AnnounceSpec
CONSTANTS
    Address = {a, b, c}
    Direct = Direct
    None = None
    Rtt = {1, 2, 3}
    Destination = {a}
INVARIANTS AnnounceTypeOK InverseBalanced HeardExact LateJoinerAgrees
PROPERTIES ImplementsSplitHorizon
CHECK_DEADLOCK FALSE
