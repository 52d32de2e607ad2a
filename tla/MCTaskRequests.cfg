\* Three concurrent calls on one task, two tenants.  No symmetry: it is not sound
\* for liveness.
CONSTANTS
    Requests = {r1, r2, r3}
    acme = acme
    globex = globex
    Tenants = {acme, globex}
    Tasks = {k1}
    Titles = {draft, final}
    Calls <- RacingCalls
    None = None
SPECIFICATION FairSpec
INVARIANTS
    TypeOK
    CompletionAnnounced
    ServedOwnTenant
    ServedWasCommitted
    StaleOnlyForKnownReasons
PROPERTIES
    ChangesAreIntendedOrStale
    EveryRequestEnds
    EventuallyCoherent
CHECK_DEADLOCK FALSE
