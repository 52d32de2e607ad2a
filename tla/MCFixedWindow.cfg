\* The first request of a client dies between INCR and EXPIRE.
CONSTANTS
    Requests = {r1, r2}
    Clients = {a}
    Limit = 1
    NoClient = NoClient
SPECIFICATION Spec
INVARIANT
    FixedWindow
CHECK_DEADLOCK FALSE
