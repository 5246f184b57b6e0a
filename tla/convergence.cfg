SPECIFICATION PollingSpec
CONSTANTS
    Procs = {p1, p2}
    UploadIDs = {u1}
    Users = {alice}
    IdempotencyKeys = {}
    NoUser = NoUser
    NoKey = NoKey
    NoDoc = NoDoc
    NoID = NoID
    BucketConfigured = TRUE
    Sizes = {1}
    SessionTTL = 0
    SignedURLTTL = 1
    MaxHeld = 1
    MaxClock = 1
    Workload <- RefreshAndCancel
PROPERTIES
    SessionsEndExpired
    FinishedUploadsAreRecognised
