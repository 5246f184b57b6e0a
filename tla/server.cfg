SPECIFICATION Spec
CONSTANTS
    Conns = {c1, c2}
    alice = alice
    Users = {alice}
    NoUser = NoUser
    Arrivals <- MixedArrivals
    SpanQueue = 1
SYMMETRY Symmetry
INVARIANTS
    TypeOK
    ServiceActsForProvenUser
    AnsweredOnce
    
    PanicsAreRecovered
    StatusTellsWhatWasDone
    ServingIsReady
    OpenIsDeferred
    OrderlyEnd
    ServerInv
PROPERTIES
    RequestsRunOut
    FlushIsInTime
    KeepsContract
