SPECIFICATION Spec
CONSTANTS
    w1 = w1
    w2 = w2
    w3 = w3
    Loop = Loop
    Clients <- MCClients
    MaxOutages = 3
SYMMETRY MCSymmetry
INVARIANTS
    TypeOK
    OneWhileConnected
    NeverUnsubscribed
    LeakIsBounded
