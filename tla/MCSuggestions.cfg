\* Three requests and jobs share two connections.  No symmetry: it is not
\* sound for a leads-to.
CONSTANTS
    Requests = {r1, r2, r3}
    PoolSize = 2
SPECIFICATION FairSpec
INVARIANTS
    TypeOK
    VisibleIsSettled
    AnswersAreStored
    PagesAreCounted
PROPERTY
    EveryRequestEnds
CHECK_DEADLOCK FALSE
