SPECIFICATION FairSpec
CONSTANTS
    w1 = w1
    w2 = w2
    Clients <- MCClients
    TokenRequired = TRUE
    BufferSize = 2
    MaxEvents = 3
    MaxRequests = 1
INVARIANTS
    TypeOK
    NoGap
    RepeatsOnlyWhileSubscribing
    EndedIsDiscarded
PROPERTY
    HandlersEnd
CHECK_DEADLOCK FALSE
