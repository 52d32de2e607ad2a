----------------------------- MODULE UnitOfWork -----------------------------
(***************************************************************************)
(* The tenant-bound unit of work of one process: the request context, the  *)
(* session of contextvars, the connection pool of the engine and the row   *)
(* level security policies that read the setting `app.tenant_id` of the    *)
(* transaction.  Requests are asyncio tasks of one process; a step is what *)
(* a task does between two awaits.  The tables are one set of rows tagged  *)
(* with the tenant of the row and a fresh id: no statement of the code     *)
(* changes the tenant of a row, and which columns it writes is the matter  *)
(* of TaskRequests.  A caller always has a tenant (the API and the CLI     *)
(* bind a context, the seeder passes one), so begin() without one, which   *)
(* would open an unbound transaction, is not a behaviour of the program.   *)
(***************************************************************************)
EXTENDS FiniteSets

CONSTANTS
    Requests,     \* the asyncio tasks that open a unit of work
    Tenants,
    Connections,  \* the connections the pool may open (pool_size + max_overflow)
    RowIds,       \* fresh primary keys (uuid4)
    NoTenant, NoConnection, NoSession

ASSUME SentinelsAreDistinct ==
    /\ NoTenant \notin Tenants
    /\ NoConnection \notin Connections
    /\ NoSession \notin Requests

VARIABLES
    pc,         \* where each request is
    identity,   \* the tenant of the verified token, --tenant or the seed file
    context,    \* ContextVar request_context, as each task sees it
    effective,  \* the tenant begin() resolved
    session,    \* ContextVar scoped_session: whose session the task sees
    conn,       \* the connection a session has checked out
    setting,    \* app.tenant_id of the transaction open on a connection
    staged,     \* the rows the transaction of a request has inserted
    table,      \* the committed rows
    seen,       \* the rows the statements of a request returned
    outcome     \* what the caller was told

vars == <<pc, identity, context, effective, session, conn, setting, staged,
          table, seen, outcome>>

Row == [id : RowIds, tenant : Tenants]

Stages == {"new", "handling", "acquiring", "binding", "open", "committing",
           "rollingBack", "exiting", "ended"}

\* The stages in which the session of a request holds a connection.
Holding == {"binding", "open", "committing", "rollingBack"}

TypeOK ==
    /\ pc \in [Requests -> Stages]
    /\ identity \in [Requests -> Tenants \cup {NoTenant}]
    /\ context \in [Requests -> Tenants \cup {NoTenant}]
    /\ effective \in [Requests -> Tenants \cup {NoTenant}]
    /\ session \in [Requests -> Requests \cup {NoSession}]
    /\ conn \in [Requests -> Connections \cup {NoConnection}]
    /\ setting \in [Connections -> Tenants \cup {NoTenant}]
    /\ staged \in [Requests -> SUBSET Row]
    /\ table \in SUBSET Row
    /\ seen \in [Requests -> SUBSET Row]
    /\ outcome \in [Requests -> {"none", "ok", "error"}]

Init ==
    /\ pc = [r \in Requests |-> "new"]
    /\ identity = [r \in Requests |-> NoTenant]
    /\ context = [r \in Requests |-> NoTenant]
    /\ effective = [r \in Requests |-> NoTenant]
    /\ session = [r \in Requests |-> NoSession]
    /\ conn = [r \in Requests |-> NoConnection]
    /\ setting = [c \in Connections |-> NoTenant]
    /\ staged = [r \in Requests |-> {}]
    /\ table = {}
    /\ seen = [r \in Requests |-> {}]
    /\ outcome = [r \in Requests |-> "none"]

-----------------------------------------------------------------------------
Goto(r, stage) == pc' = [pc EXCEPT ![r] = stage]

(***************************************************************************)
(* The request context.  Each asyncio task has its own copy of a           *)
(* ContextVar, so binding changes what that task sees and nothing else.    *)
(***************************************************************************)
\* Mutant: a module global in place of the ContextVar.
BoundForAll(r, t) == [x \in Requests |-> t]

Bound(r, t) == [context EXCEPT ![r] = t]

BindContext(r, t) ==
    /\ pc[r] = "new"
    /\ identity' = [identity EXCEPT ![r] = t]
    /\ context' = Bound(r, t)
    /\ Goto(r, "handling")
    /\ UNCHANGED <<effective, session, conn, setting, staged, table, seen, outcome>>

\* No token, or one that does not verify: 401 before any context is bound.
RejectCredentials(r) ==
    /\ pc[r] = "new"
    /\ outcome' = [outcome EXCEPT ![r] = "error"]
    /\ Goto(r, "ended")
    /\ UNCHANGED <<identity, context, effective, session, conn, setting, staged, table, seen>>

\* The `with bind_context` of the request ends after its unit of work has.
ExitContext(r) ==
    /\ pc[r] = "exiting"
    /\ context' = Bound(r, NoTenant)
    /\ Goto(r, "ended")
    /\ UNCHANGED <<identity, effective, session, conn, setting, staged, table, seen, outcome>>

-----------------------------------------------------------------------------
(***************************************************************************)
(* begin(): resolve the tenant, check a connection out with the first      *)
(* statement (the engine opens at most pool_size + max_overflow; a request *)
(* that waits longer than the timeout of the pool gets an error), bind the *)
(* tenant to the transaction, publish the session to the task.             *)
(***************************************************************************)
\* Mutant: a comma for the `or`, which makes the tenant a pair.
EffectivePair(r, given) == <<given, context[r]>>

EffectiveTenant(r, given) == IF given # NoTenant THEN given ELSE context[r]

\* The API passes nothing, the CLI, the background job and the seeder pass
\* the tenant they were given.
Begin(r, given) ==
    /\ pc[r] = "handling"
    /\ effective' = [effective EXCEPT ![r] = EffectiveTenant(r, given)]
    /\ Goto(r, "acquiring")
    /\ UNCHANGED <<identity, context, session, conn, setting, staged, table, seen, outcome>>

Idle == {c \in Connections : \A r \in Requests : conn[r] # c}

Checkout(r) ==
    /\ pc[r] = "acquiring"
    /\ \E c \in Idle : conn' = [conn EXCEPT ![r] = c]
    /\ Goto(r, "binding")
    /\ UNCHANGED <<identity, context, effective, session, setting, staged, table, seen, outcome>>

PoolTimeout(r) ==
    /\ pc[r] = "acquiring"
    /\ Idle = {}
    /\ outcome' = [outcome EXCEPT ![r] = "error"]
    /\ Goto(r, "exiting")
    /\ UNCHANGED <<identity, context, effective, session, conn, setting, staged, table, seen>>

BindTenant(r) ==
    /\ pc[r] = "binding"
    /\ setting' = [setting EXCEPT ![conn[r]] = effective[r]]
    /\ session' = [session EXCEPT ![r] = r]
    /\ Goto(r, "open")
    /\ UNCHANGED <<identity, context, effective, conn, staged, table, seen, outcome>>

(***************************************************************************)
(* Statements of a repository run on the session the task sees, under the  *)
(* policy of the table: USING filters what is read, WITH CHECK refuses     *)
(* what is written.  A transaction reads what is committed and what it has *)
(* itself inserted.                                                        *)
(***************************************************************************)
Backend(r) == conn[session[r]]

\* For a role that is not a superuser, which no policy binds.
Policy(c, row) == row.tenant = setting[c]

Select(r) ==
    /\ pc[r] = "open"
    /\ seen' = [seen EXCEPT ![r] =
                  @ \cup {row \in table \cup staged[session[r]] : Policy(Backend(r), row)}]
    /\ UNCHANGED <<pc, identity, context, effective, session, conn, setting, staged, table, outcome>>

FreshIds == {id \in RowIds : \A row \in table \cup UNION {staged[r] : r \in Requests} : row.id # id}

\* Mutant: every statement commits by itself.
InsertAutocommit(r, id) ==
    LET row == [id |-> id, tenant |-> identity[r]] IN
    /\ pc[r] = "open"
    /\ id \in FreshIds
    /\ Policy(Backend(r), row)
    /\ staged' = [staged EXCEPT ![session[r]] = @ \cup {row}]
    /\ table' = table \cup {row}
    /\ UNCHANGED <<pc, identity, context, effective, session, conn, setting, seen, outcome>>

\* The row carries the tenant of the request the endpoint was given.
Insert(r, id) ==
    LET row == [id |-> id, tenant |-> identity[r]] IN
    /\ pc[r] = "open"
    /\ id \in FreshIds
    /\ Policy(Backend(r), row)
    /\ staged' = [staged EXCEPT ![session[r]] = @ \cup {row}]
    /\ UNCHANGED <<pc, identity, context, effective, session, conn, setting, table, seen, outcome>>

-----------------------------------------------------------------------------
(***************************************************************************)
(* The end of the unit of work.  The session leaves the contextvar first,  *)
(* then the transaction commits or rolls back; ending the transaction ends *)
(* its setting and gives the connection back to the pool.                  *)
(***************************************************************************)
LeaveBody(r) ==
    /\ pc[r] = "open"
    /\ session' = [session EXCEPT ![r] = NoSession]
    /\ Goto(r, "committing")
    /\ UNCHANGED <<identity, context, effective, conn, setting, staged, table, seen, outcome>>

\* A use case raises, a statement fails, or the task is cancelled.
RaiseInBody(r) ==
    /\ pc[r] \in {"binding", "open"}
    /\ session' = [session EXCEPT ![r] = NoSession]
    /\ outcome' = [outcome EXCEPT ![r] = "error"]
    /\ Goto(r, "rollingBack")
    /\ UNCHANGED <<identity, context, effective, conn, setting, staged, table, seen>>

\* Mutant: set_config(..., is_local => false), a setting of the session.
ReleaseKeepingSetting(r) ==
    /\ setting' = setting
    /\ conn' = [conn EXCEPT ![r] = NoConnection]

\* Mutant: a transaction that ends without giving its connection back.
ReleaseLeaking(r) ==
    /\ setting' = [setting EXCEPT ![conn[r]] = NoTenant]
    /\ conn' = conn

Release(r) ==
    /\ setting' = [setting EXCEPT ![conn[r]] = NoTenant]
    /\ conn' = [conn EXCEPT ![r] = NoConnection]

Commit(r) ==
    /\ pc[r] = "committing"
    /\ table' = table \cup staged[r]
    /\ outcome' = [outcome EXCEPT ![r] = "ok"]
    /\ Release(r)
    /\ Goto(r, "exiting")
    /\ UNCHANGED <<identity, context, effective, session, staged, seen>>

CommitFails(r) ==
    /\ pc[r] = "committing"
    /\ outcome' = [outcome EXCEPT ![r] = "error"]
    /\ Goto(r, "rollingBack")
    /\ UNCHANGED <<identity, context, effective, session, conn, setting, staged, table, seen>>

\* The server commits and the connection breaks before the answer arrives.
CommitUnacknowledged(r) ==
    /\ pc[r] = "committing"
    /\ table' = table \cup staged[r]
    /\ outcome' = [outcome EXCEPT ![r] = "error"]
    /\ Goto(r, "rollingBack")
    /\ UNCHANGED <<identity, context, effective, session, conn, setting, staged, seen>>

Rollback(r) ==
    /\ pc[r] = "rollingBack"
    /\ Release(r)
    /\ Goto(r, "exiting")
    /\ UNCHANGED <<identity, context, effective, session, staged, table, seen, outcome>>

Running == {r \in Requests : pc[r] \notin {"new", "ended"}}

\* The process dies with its contexts, sessions and connections; the server
\* rolls back what was open.  Requests not yet received reach a new process.
Crash ==
    /\ Running # {}
    /\ pc' = [r \in Requests |-> IF r \in Running THEN "ended" ELSE pc[r]]
    /\ context' = [r \in Requests |-> NoTenant]
    /\ session' = [r \in Requests |-> NoSession]
    /\ conn' = [r \in Requests |-> NoConnection]
    /\ setting' = [c \in Connections |-> NoTenant]
    /\ outcome' = [r \in Requests |->
                     IF r \in Running /\ outcome[r] = "none" THEN "error" ELSE outcome[r]]
    /\ UNCHANGED <<identity, effective, staged, table, seen>>

-----------------------------------------------------------------------------
Next ==
    \/ \E r \in Requests :
         \/ \E t \in Tenants : BindContext(r, t)
         \/ RejectCredentials(r)
         \/ \E given \in {NoTenant, identity[r]} : Begin(r, given)
         \/ Checkout(r)
         \/ PoolTimeout(r)
         \/ BindTenant(r)
         \/ Select(r)
         \/ \E id \in RowIds : Insert(r, id)
         \/ LeaveBody(r)
         \/ RaiseInBody(r)
         \/ Commit(r)
         \/ CommitFails(r)
         \/ CommitUnacknowledged(r)
         \/ Rollback(r)
         \/ ExitContext(r)
    \/ Crash

Spec == Init /\ [][Next]_vars

\* What the event loop, the server and the timeout of the pool guarantee to a
\* task that has started: its next step is taken in the end.  Nothing is
\* assumed of arrivals, failures, crashes or further statements.
Progress(r) ==
    \/ \E given \in {NoTenant, identity[r]} : Begin(r, given)
    \/ Checkout(r)
    \/ PoolTimeout(r)
    \/ BindTenant(r)
    \/ LeaveBody(r)
    \/ Commit(r)
    \/ Rollback(r)
    \/ ExitContext(r)

FairSpec == Spec /\ \A r \in Requests : WF_vars(Progress(r))

-----------------------------------------------------------------------------
\* No request ever gets to see, or stages, a row of another tenant, whatever
\* the requests of other tenants interleaved with it do to the contextvars and
\* to the connections they share (unit_of_work.py, the policies of RLS).
TenantIsolation ==
    \A r \in Requests : \A row \in seen[r] \cup staged[r] : row.tenant = identity[r]

\* A connection no open transaction uses carries no tenant: what the pool hands
\* out never starts under the tenant of the request that used it before.
IdleConnectionsUnbound ==
    \A c \in Connections :
        (\A r \in Requests : conn[r] = c => pc[r] = "binding") => setting[c] = NoTenant

\* Two sessions never run on one connection, and a session never holds a
\* connection outside its unit of work, crashes and pool timeouts included.
ExclusiveConnection ==
    \A r \in Requests :
        conn[r] # NoConnection => /\ pc[r] \in Holding
                                  /\ \A q \in Requests : conn[q] = conn[r] => q = r

\* A unit of work takes effect whole or not at all, and its rows are in no
\* table others read before it ends; a caller that was told it succeeded
\* finds every row it wrote.
AllOrNothing ==
    \A r \in Requests :
        /\ staged[r] \subseteq table \/ staged[r] \cap table = {}
        /\ outcome[r] = "ok" => staged[r] \subseteq table
        /\ pc[r] \in {"open", "committing"} => staged[r] \cap table = {}

\* Every request that reached its handler ends and returns its connection,
\* although more requests than connections compete for the pool.
EveryUnitOfWorkEnds ==
    \A r \in Requests : pc[r] = "handling" ~> (pc[r] = "ended" /\ conn[r] = NoConnection)
-----------------------------------------------------------------------------
(***************************************************************************)
(* Refinement: the shared tables, seen through the tenant of each row, are *)
(* the databases of TenantDatabases; a commit is its one write.            *)
(***************************************************************************)
RowsOf(t) == {row.id : row \in {x \in table : x.tenant = t}}

Promise == INSTANCE TenantDatabases
    WITH databases <- [t \in Tenants |-> RowsOf(t)], home <- identity, result <- outcome

\* Sharing tables, connections and contextvars between tenants gives each of
\* them the behaviour of a database of its own with one atomic write a request.
ImplementsTenantDatabases == Promise!Spec
=============================================================================
