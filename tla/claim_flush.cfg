SPECIFICATION Spec
CONSTANTS
    Conns = {c1}
    alice = alice
    Users = {alice}
    NoUser = NoUser
    Arrivals <- OneArrival
    SpanQueue = 1
INVARIANTS
    TeardownFlushes
