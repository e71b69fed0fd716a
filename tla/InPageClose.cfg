SPECIFICATION Spec
CONSTANTS
    Side = {injected, content}
    Connects = injected
    Disconnects = {injected}
    Port = {p1, p2}
    MaxMessages = 1
INVARIANTS CloseEnds
CHECK_DEADLOCK FALSE
