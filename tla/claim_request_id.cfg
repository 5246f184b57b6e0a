SPECIFICATION Spec
CONSTANTS
    Conns = {c1}
    alice = alice
    Users = {alice}
    NoUser = NoUser
    Arrivals <- RejectedArrival
    SpanQueue = 1
INVARIANTS
    ErrorsNameTheirRequest
