SPECIFICATION FairSpec
CONSTANTS
    Requests = 4
    Callback = {4}
    Malformed = {2}
    MaxStreams = 2
INVARIANTS TypeOK AnsweredOnce InOrder
PROPERTIES ImplementsAnswering
CHECK_DEADLOCK FALSE
