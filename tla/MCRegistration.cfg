\* Two clients and two runs of the seeder, which restarts after a failure.
CONSTANTS
    acme = acme
    globex = globex
    admin = admin
    member = member
    Requests = {r1, r2}
    Runs = {s1, s2}
    Tenants = {acme, globex}
    Emails = {admin, member}
    Calls <- UsersOfAcme
    Seed <- DemoUsers
    None = None
SPECIFICATION FairSpec
INVARIANTS
    TypeOK
    EmailsAreUnique
    RefusedOnlyIfRegistered
    TenantsAreSeededWhole
PROPERTY
    EveryRegistrationEnds
CHECK_DEADLOCK FALSE
