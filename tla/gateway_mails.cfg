SPECIFICATION FairSpec
CONSTANTS
    None = None
    Mails <- ThreeMails
    Kinds <- AnyKind
    Attempts = 3
    MaxFaults = 1
    MaxRestarts = 1
    MaxRaises = 1
INVARIANTS
    TypeOK
    SeenMeansAnswered
    DuplicatesNeedFaults
    StaticNeverPosted
    InOrder
    BatchHandled
PROPERTIES
    Settles
    ImplementsMailRoom
