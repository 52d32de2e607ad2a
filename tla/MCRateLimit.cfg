\* Five requests of two clients with a limit of two: both clients can exceed
\* it, in one window and across two.
CONSTANTS
    Requests = {r1, r2, r3, r4, r5}
    Clients = {a, b}
    Limit = 2
    NoClient = NoClient
SYMMETRY Symmetry
SPECIFICATION Spec
INVARIANTS
    TypeOK
    WithinLimit
    RejectedForOwnRequests
    LastingOnlyAfterFailure
CHECK_DEADLOCK FALSE
