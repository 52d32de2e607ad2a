\* Of a pool of three, one client leaves both probes a connection, two do not; a
\* probe may fail twice in a row.
SPECIFICATION FairSpec
CONSTANTS
    Clients = {alice, bob}
    PoolLimit = 3
    Threshold = 2
INVARIANTS
    TypeOK
    AnsweredAreCounted
PROPERTIES
    FailedProbesHaveACause
    Recovers
CHECK_DEADLOCK FALSE
