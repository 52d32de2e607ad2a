\* Liveness and refinement: three requests compete for two connections.  No
\* symmetry: it is not sound for a leads-to.
CONSTANTS
    Requests = {r1, r2, r3}
    Tenants = {acme, globex}
    Connections = {c1, c2}
    RowIds = {i1}
    NoTenant = NoTenant
    NoConnection = NoConnection
    NoSession = NoSession
SPECIFICATION FairSpec
PROPERTIES
    EveryUnitOfWorkEnds
    ImplementsTenantDatabases
CHECK_DEADLOCK FALSE
