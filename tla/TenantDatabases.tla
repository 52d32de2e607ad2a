-------------------------- MODULE TenantDatabases --------------------------
(***************************************************************************)
(* What the unit of work promises its callers: every tenant has a database *)
(* of its own, a request belongs to one tenant, and it writes to that      *)
(* database at most once, atomically.  "ok" says the write happened;       *)
(* "error" says nothing about it: the answer to a commit may be lost.      *)
(***************************************************************************)
CONSTANTS Requests, Tenants, RowIds, NoTenant

VARIABLES
    databases,  \* the rows of each tenant
    home,       \* the tenant a request belongs to
    result      \* what a request was told

vars == <<databases, home, result>>

Init ==
    /\ databases = [t \in Tenants |-> {}]
    /\ home = [r \in Requests |-> NoTenant]
    /\ result = [r \in Requests |-> "none"]

Admit(r, t) ==
    /\ home[r] = NoTenant
    /\ result[r] = "none"
    /\ home' = [home EXCEPT ![r] = t]
    /\ UNCHANGED <<databases, result>>

Unused(S) == \A t \in Tenants : S \cap databases[t] = {}

Write(r, S, answer) ==
    /\ home[r] # NoTenant
    /\ result[r] = "none"
    /\ Unused(S)
    /\ databases' = [databases EXCEPT ![home[r]] = @ \cup S]
    /\ result' = [result EXCEPT ![r] = answer]
    /\ UNCHANGED home

\* Requests that end without a write; a crash ends several at once.
Fail(R) ==
    /\ \A r \in R : result[r] = "none"
    /\ result' = [r \in Requests |-> IF r \in R THEN "error" ELSE result[r]]
    /\ UNCHANGED <<databases, home>>

Next ==
    \/ \E r \in Requests :
         \/ \E t \in Tenants : Admit(r, t)
         \/ \E S \in SUBSET RowIds, answer \in {"ok", "error"} : Write(r, S, answer)
    \/ \E R \in SUBSET Requests : Fail(R)

Spec == Init /\ [][Next]_vars
=============================================================================
