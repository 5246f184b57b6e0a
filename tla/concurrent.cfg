SPECIFICATION Spec
CONSTANTS
    Procs = {p1, p2}
    UploadIDs = {u1}
    Users = {alice}
    IdempotencyKeys = {k1}
    NoUser = NoUser
    NoKey = NoKey
    NoDoc = NoDoc
    NoID = NoID
    BucketConfigured = TRUE
    Sizes = {2}
    SessionTTL = 1
    SignedURLTTL = 1
    MaxHeld = 2
    MaxClock = 2
    Workload <- CoreOperations
SYMMETRY Symmetry
INVARIANTS
    TypeOK
    CompletedMeansUploaded
    RecordedProgressIsReal
    FullSizeIsNotCreated
    ExpiredMeansTTLElapsed
    AnswersAreTrue
    IInv
PROPERTIES
    LateWritersRunOut
    ShortCountsRunOut
    ImplementsLifecycle
