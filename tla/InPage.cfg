SPECIFICATION FairSpec
CONSTANTS
    Side = {injected, content}
    Connects = injected
    Disconnects = {injected, content}
    Port = {p1, p2}
    MaxMessages = 2
INVARIANTS TypeOK ReceivedInOrder ToldOnce
PROPERTIES DisconnectHeard
CHECK_DEADLOCK FALSE
