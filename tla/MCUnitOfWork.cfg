\* Safety: three requests of two tenants share two connections.
CONSTANTS
    Requests = {r1, r2, r3}
    Tenants = {acme, globex}
    Connections = {c1, c2}
    RowIds = {i1, i2, i3}
    NoTenant = NoTenant
    NoConnection = NoConnection
    NoSession = NoSession
SYMMETRY Symmetry
SPECIFICATION Spec
INVARIANTS
    TypeOK
    TenantIsolation
    IdleConnectionsUnbound
    AllOrNothing
CHECK_DEADLOCK FALSE
