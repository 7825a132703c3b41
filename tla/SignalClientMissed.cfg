SPECIFICATION FairSpec
CONSTANTS
    b1 = b1
    b2 = b2
    b3 = b3
    b4 = b4
    t1 = t1
    t2 = t2
    c1 = c1
    a1 = a1
    w1 = w1
    w2 = w2
    Main = Main
    None = None
    Buses <- MCThreeBuses
    Tasks <- MCOneTask
    Calls <- MCNone
    Accounts <- MCNone
    Clients <- MCNone
    HandlerInTask = FALSE
    MaxNotices = 2
PROPERTY
    LastingOutageShows
