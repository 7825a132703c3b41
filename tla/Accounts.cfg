SPECIFICATION FairSpec
CONSTANTS
    a = a
    b = b
    Numbers <- MCNumbers
    Unset = Unset
    MaxRestarts = 1
    MaxChanges = 2
INVARIANTS
    TypeOK
    NeverAnotherAccount
    EventsNameTheirAccount
PROPERTIES
    DefaultKeepsLink
    ConfiguredInTheEnd
