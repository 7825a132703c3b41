SPECIFICATION Spec
CONSTANTS
    MaxOutages = 1
    MaxVariants = 3
    OddKinds <- MCOddKinds
INVARIANTS
    TypeOK
    RefusedIsUndone
    SilenceHasCause
    ValidIsAccepted
    WidestIsPublished
    EventsLookAsPublished
PROPERTY
    UnsentKeepsLink
CHECK_DEADLOCK FALSE
