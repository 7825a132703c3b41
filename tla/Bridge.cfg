SPECIFICATION FairSpec
CONSTANTS
    w1 = w1
    w2 = w2
    Clients <- MCClients
    MaxEvents = 1
    MaxOutages = 1
    MaxCalls = 2
INVARIANTS
    TypeOK
    NoStuckWaiter
    StreamIsComplete
    RepeatedOnlyByNextBus
PROPERTIES
    WaitersGoOn
    LinkSpec
CHECK_DEADLOCK FALSE
