\* The seeder dies between two tenants and runs again.
CONSTANTS
    acme = acme
    globex = globex
    admin = admin
    member = member
    Requests = {}
    Runs = {s1, s2}
    Tenants = {acme, globex}
    Emails = {admin, member}
    Calls <- UsersOfAcme
    Seed <- DemoUsers
    None = None
SPECIFICATION Spec
INVARIANT
    PresentMeansSeeded
CHECK_DEADLOCK FALSE
