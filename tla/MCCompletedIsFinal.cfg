\* An update that read the task before its completion committed reopens it.
CONSTANTS
    Requests = {r1, r2}
    acme = acme
    globex = globex
    Tenants = {acme}
    Tasks = {k1}
    Titles = {draft, final}
    Calls <- ApiCalls
    None = None
SPECIFICATION Spec
PROPERTY
    CompletedIsFinal
CHECK_DEADLOCK FALSE
