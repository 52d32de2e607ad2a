---------------------------- MODULE Registration ----------------------------
(***************************************************************************)
(* Registration of users: RegisterUserCommand run by the API, by the CLI   *)
(* and, several times in one unit of work per tenant, by the seeder.  The  *)
(* command looks the email up and then inserts the user; the unique index  *)
(* decides between two that have both found it free.  Emails are in the    *)
(* form Email gives them (stripped, lower case).  A statement sees what    *)
(* is committed by then and what its own transaction has inserted.         *)
(***************************************************************************)
EXTENDS FiniteSets

CONSTANTS
    Requests,       \* registrations asked for by clients
    Runs,           \* executions of the seeder, one after the other
    Tenants, Emails,
    Calls,          \* what clients ask for: pairs of a tenant and an email
    Seed,           \* docker/mock-data/users.json: pairs of a tenant and an email
    None

Actors == Requests \cup Runs

ASSUME RunsAreNoRequests == Requests \cap Runs = {}
ASSUME PairsAreValid == Calls \cup Seed \subseteq Tenants \X Emails
ASSUME NoneIsNothing == None \notin Tenants /\ None \notin Emails

VARIABLES
    pc,       \* where each registration or run is
    left,     \* the tenants a run has not begun
    tenant,   \* the tenant of the open unit of work
    todo,     \* the emails it has still to register
    email,    \* the email that was found free and is being inserted
    staged,   \* the emails its transaction has inserted
    users,    \* the committed users, with who registered them
    outcome   \* how it ended

vars == <<pc, left, tenant, todo, email, staged, users, outcome>>

User == [tenant : Tenants, email : Emails, by : Actors]

TypeOK ==
    /\ pc \in [Actors -> {"new", "between", "checking", "adding", "committing", "done"}]
    /\ left \in [Actors -> SUBSET Tenants]
    /\ tenant \in [Actors -> Tenants \cup {None}]
    /\ todo \in [Actors -> SUBSET Emails]
    /\ email \in [Actors -> Emails \cup {None}]
    /\ staged \in [Actors -> SUBSET Emails]
    /\ users \in SUBSET User
    /\ outcome \in [Actors -> {"none", "ok", "conflict", "violation", "refused", "error"}]

Init ==
    /\ pc = [p \in Actors |-> "new"]
    /\ left = [p \in Actors |-> {}]
    /\ tenant = [p \in Actors |-> None]
    /\ todo = [p \in Actors |-> {}]
    /\ email = [p \in Actors |-> None]
    /\ staged = [p \in Actors |-> {}]
    /\ users = {}
    /\ outcome = [p \in Actors |-> "none"]

-----------------------------------------------------------------------------
Goto(p, stage) == pc' = [pc EXCEPT ![p] = stage]

End(p, result) ==
    /\ Goto(p, "done")
    /\ outcome' = [outcome EXCEPT ![p] = result]

\* Mutant: a failed transaction is left open.
FailLeaving(p, result) ==
    /\ left' = [left EXCEPT ![p] = {}]
    /\ email' = [email EXCEPT ![p] = None]
    /\ End(p, result)
    /\ UNCHANGED <<tenant, todo, staged, users>>

\* The unit of work rolls back; of the seeder, main() ends with it.
Fail(p, result) ==
    /\ left' = [left EXCEPT ![p] = {}]
    /\ email' = [email EXCEPT ![p] = None]
    /\ staged' = [staged EXCEPT ![p] = {}]
    /\ End(p, result)
    /\ UNCHANGED <<tenant, todo, users>>

\* POST /users and `users create-admin`: one registration in a unit of work.
Receive(r, t, e) ==
    /\ pc[r] = "new"
    /\ tenant' = [tenant EXCEPT ![r] = t]
    /\ todo' = [todo EXCEPT ![r] = {e}]
    /\ Goto(r, "checking")
    /\ UNCHANGED <<left, email, staged, users, outcome>>

\* Mutant: entries of the file where their emails are expected.
SeedEntriesOf(t) == {pair \in Seed : pair[1] = t}

SeedOf(t) == {e \in Emails : <<t, e>> \in Seed}

StartRun(p) ==
    /\ pc[p] = "new"
    /\ \A q \in Runs : pc[q] \in {"new", "done"}
    /\ left' = [left EXCEPT ![p] = {t \in Tenants : SeedOf(t) # {}}]
    /\ Goto(p, "between")
    /\ UNCHANGED <<tenant, todo, email, staged, users, outcome>>

BeginTenant(p, t) ==
    /\ pc[p] = "between"
    /\ t \in left[p]
    /\ left' = [left EXCEPT ![p] = @ \ {t}]
    /\ tenant' = [tenant EXCEPT ![p] = t]
    /\ todo' = [todo EXCEPT ![p] = SeedOf(t)]
    /\ Goto(p, "checking")
    /\ UNCHANGED <<email, staged, users, outcome>>

FinishRun(p) ==
    /\ pc[p] = "between"
    /\ left[p] = {}
    /\ End(p, "ok")
    /\ UNCHANGED <<left, tenant, todo, email, staged, users>>

-----------------------------------------------------------------------------
(***************************************************************************)
(* execute(): look the email up under the policy of the tenant, INSERT.    *)
(***************************************************************************)
\* Mutant: the lookup is not bound to the tenant.
RegisteredAnywhere(p, e) ==
    \/ \E u \in users : u.email = e
    \/ e \in staged[p]

Registered(p, e) ==
    \/ \E u \in users : u.tenant = tenant[p] /\ u.email = e
    \/ e \in staged[p]

FindFree(p, e) ==
    /\ pc[p] = "checking"
    /\ e \in todo[p]
    /\ ~Registered(p, e)
    /\ email' = [email EXCEPT ![p] = e]
    /\ Goto(p, "adding")
    /\ UNCHANGED <<left, tenant, todo, staged, users, outcome>>

\* EmailAlreadyRegisteredError: 409 for a client, "already present" for main().
Conflict(p, e) ==
    /\ pc[p] = "checking"
    /\ e \in todo[p]
    /\ Registered(p, e)
    /\ Fail(p, "conflict")

\* The name is blank, or there is no such role; the data of the seeder is valid.
Refuse(r) ==
    /\ pc[r] = "checking"
    /\ Fail(r, "refused")

\* The index makes an INSERT wait for a transaction that has inserted the same
\* key and not ended.
Blocked(p) ==
    \E q \in Actors \ {p} : tenant[q] = tenant[p] /\ email[p] \in staged[q]

\* Mutant: a schema without uq_users_tenant_email.
TakenNever(p) == FALSE

Taken(p) == \E u \in users : u.tenant = tenant[p] /\ u.email = email[p]

\* Mutant: the unit of work is inside the loop of _seed_tenant.
StageAfterInsertOne(p) == "committing"

\* The seeder creates the tasks of the tenant after its users, in the same
\* transaction and to the same end.
StageAfterInsert(p) == IF todo[p] = {email[p]} THEN "committing" ELSE "checking"

Insert(p) ==
    /\ pc[p] = "adding"
    /\ ~Blocked(p)
    /\ ~Taken(p)
    /\ staged' = [staged EXCEPT ![p] = @ \cup {email[p]}]
    /\ todo' = [todo EXCEPT ![p] = @ \ {email[p]}]
    /\ email' = [email EXCEPT ![p] = None]
    /\ Goto(p, StageAfterInsert(p))
    /\ UNCHANGED <<left, tenant, users, outcome>>

\* IntegrityError, which no handler maps: 500 for a client.
Violate(p) ==
    /\ pc[p] = "adding"
    /\ Taken(p)
    /\ Fail(p, "violation")

-----------------------------------------------------------------------------
TakeEffect(p) ==
    /\ users' = users \cup {[tenant |-> tenant[p], email |-> e, by |-> p] : e \in staged[p]}
    /\ staged' = [staged EXCEPT ![p] = {}]
    /\ UNCHANGED <<left, tenant, todo, email>>

Commit(p) ==
    /\ pc[p] = "committing"
    /\ TakeEffect(p)
    /\ \/ p \in Requests /\ End(p, "ok")
       \/ p \in Runs /\ Goto(p, "between") /\ UNCHANGED outcome

\* The commit is done and its answer lost.
CommitUnacknowledged(p) ==
    /\ pc[p] = "committing"
    /\ TakeEffect(p)
    /\ End(p, "error")

\* The database fails, the task is cancelled or the process dies.
Abort(p) ==
    /\ pc[p] \notin {"new", "done"}
    /\ Fail(p, "error")

-----------------------------------------------------------------------------
Step(p) ==
    \/ \E t \in Tenants : BeginTenant(p, t)
    \/ FinishRun(p)
    \/ \E e \in Emails : FindFree(p, e) \/ Conflict(p, e)
    \/ Insert(p)
    \/ Violate(p)
    \/ Commit(p)

Next ==
    \/ \E r \in Requests :
         \/ \E c \in Calls : Receive(r, c[1], c[2])
         \/ Refuse(r)
    \/ \E p \in Runs : StartRun(p)
    \/ \E p \in Actors : Step(p) \/ CommitUnacknowledged(p) \/ Abort(p)

Spec == Init /\ [][Next]_vars

\* What has started goes on: the server answers or the driver raises, and an
\* INSERT that waits is answered when the other transaction has ended.
FairSpec == Spec /\ \A p \in Actors : WF_vars(Step(p))

-----------------------------------------------------------------------------
\* An email belongs to one user of a tenant, however many registrations have
\* found it free at once (email_uniqueness.py, uq_users_tenant_email).
EmailsAreUnique ==
    \A u, v \in users : u.tenant = v.tenant /\ u.email = v.email => u = v

\* A client is turned away, with 409 or by the index, only if its email is by
\* then a user of its tenant that another registered: of registrations that
\* race for an email one succeeds, or all that did not have failed otherwise.
RefusedOnlyIfRegistered ==
    \A r \in Requests : outcome[r] \in {"conflict", "violation"} =>
        \E u \in users : u.tenant = tenant[r] /\ u.email \in todo[r] /\ u.by # r

\* The emails p has registered in tenant t.
RegisteredBy(p, t) == {e \in Emails : [tenant |-> t, email |-> e, by |-> p] \in users}

\* A run of the seeder registers all the users of a tenant or none of them,
\* wherever it fails, and a run that says it seeded has registered every one
\* (seed.py has one unit of work per tenant).
TenantsAreSeededWhole ==
    \A p \in Runs, t \in Tenants :
        /\ RegisteredBy(p, t) \in {{}, SeedOf(t)}
        /\ outcome[p] = "ok" => RegisteredBy(p, t) = SeedOf(t)

\* Registrations that wait for each other's index entry and the runs of the
\* seeder, which hold several at once, all end.
EveryRegistrationEnds == \A p \in Actors : pc[p] # "new" ~> pc[p] = "done"

\* p waits for the end of q, which has inserted the email p is inserting.
WaitsFor(p, q) ==
    pc[p] = "adding" /\ q # p /\ tenant[q] = tenant[p] /\ email[p] \in staged[q]

\* Whoever waits, waits for a transaction that is committing or for one that
\* waits for such a one: index entries never make a circle of waiting.
WaitsAreShort ==
    \A p, q, s \in Actors : WaitsFor(p, q) /\ WaitsFor(q, s) => pc[s] = "committing"

(***************************************************************************)
(* Refinement: the committed users are the directory, and what happens     *)
(* between a lookup and the commit is the one atomic step of an entry.     *)
(***************************************************************************)
Promise == INSTANCE UserDirectory WITH Clients <- Requests, entries <- users, answer <- outcome

ImplementsUserDirectory == Promise!Spec

(***************************************************************************)
(* What the documentation says and the code does not keep.                 *)
(***************************************************************************)
\* "Demo data already present; nothing to seed.": the users of every tenant are
\* there when a run says so.
PresentMeansSeeded ==
    \A p \in Runs : outcome[p] = "conflict" =>
        \A pair \in Seed : \E u \in users : u.tenant = pair[1] /\ u.email = pair[2]
=============================================================================
