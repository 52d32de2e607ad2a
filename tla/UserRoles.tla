----------------------------- MODULE UserRoles ------------------------------
(***************************************************************************)
(* Reading a user and changing a user's role through the API: requests     *)
(* that Authentication has admitted run get_user, through the read cache,  *)
(* or change_role against the users of one tenant.  A step is a statement, *)
(* a commit or a cache operation with the code up to the next await.  A    *)
(* row is the role of its user: nothing else in it ever changes.           *)
(***************************************************************************)
EXTENDS Authentication

CONSTANTS
    Users,    \* ids a call may name
    Roles     \* the members of the enumeration Role

\* "unknown" stands for any text that Role.parse does not know.
RoleCalls == [op : {"get"}, user : Users]
             \cup [op : {"change"}, user : Users, role : Roles \cup {"unknown"}]

ASSUME CallsAreRoleCalls == Calls \subseteq RoleCalls
ASSUME ChangesAreGated == AdminCalls = {c \in Calls : c.op = "change"}
ASSUME NoneIsNoRole == None \notin Roles /\ "unknown" \notin Roles

VARIABLES
    stage,       \* where each handler is
    loaded,      \* the role its first SELECT returned
    dirty,       \* whether its UPDATE sets the role
    table,       \* the committed rows
    cache,       \* Redis, by user
    outcome,     \* what the caller was told
    heldSince,   \* history: the roles its user has had since the handler loaded it
    owed,        \* history: requests that committed a role, until the entry is dropped
    staleFills   \* history: cached roles that were out of date when cached

handling == <<stage, loaded, dirty, table, cache, outcome>>
history == <<heldSince, owed, staleFills>>
userVars == <<handling, history>>
vars == <<authVars, userVars>>

Stages == {"waiting", "lookup", "load", "refetch", "flush", "commit", "fill",
           "invalidate", "done"}
Outcomes == {"none", "ok", "missing", "invalid", "error"}

TypeOK ==
    /\ AuthenticationTypeOK
    /\ stage \in [Requests -> Stages]
    /\ loaded \in [Requests -> Roles \cup {None}]
    /\ dirty \in [Requests -> BOOLEAN]
    /\ table \in [Users -> Roles \cup {None}]
    /\ cache \in [Users -> Roles \cup {None}]
    /\ outcome \in [Requests -> Outcomes]
    /\ heldSince \in [Requests -> SUBSET Roles]
    /\ owed \in SUBSET Requests
    /\ staleFills \in SUBSET Users

UserInit ==
    /\ stage = [r \in Requests |-> "waiting"]
    /\ loaded = [r \in Requests |-> None]
    /\ dirty = [r \in Requests |-> FALSE]
    /\ table \in [Users -> Roles \cup {None}]
    /\ cache = [u \in Users |-> None]
    /\ outcome = [r \in Requests |-> "none"]
    /\ heldSince = [r \in Requests |-> {}]
    /\ owed = {}
    /\ staleFills = {}

Init == AuthInit /\ UserInit

-----------------------------------------------------------------------------
Goto(r, next) == stage' = [stage EXCEPT ![r] = next]

End(r, result) ==
    /\ Goto(r, "done")
    /\ outcome' = [outcome EXCEPT ![r] = result]

Start(r) ==
    /\ stage[r] = "waiting"
    /\ verdict[r] = "admitted"
    /\ Goto(r, IF call[r].op = "get" THEN "lookup" ELSE "load")
    /\ UNCHANGED <<loaded, dirty, table, cache, outcome, history>>

\* cached(): a hit is the answer.
Lookup(r) ==
    /\ stage[r] = "lookup"
    /\ \/ cache[call[r].user] # None /\ End(r, "ok")
       \/ cache[call[r].user] = None /\ Goto(r, "load") /\ UNCHANGED outcome
    /\ UNCHANGED <<loaded, dirty, table, cache, history>>

\* Mutant: the command takes the role it is given for a Role.
LoadUnparsed(r) ==
    LET role == table[call[r].user] IN
    /\ stage[r] = "load"
    /\ \/ role = None /\ End(r, "missing")
       \/ role # None /\ call[r].op = "get" /\ Goto(r, "commit") /\ UNCHANGED outcome
       \/ role # None /\ call[r].op = "change" /\ Goto(r, "refetch") /\ UNCHANGED outcome
    /\ loaded' = [loaded EXCEPT ![r] = role]
    /\ heldSince' = [heldSince EXCEPT ![r] = {role} \ {None}]
    /\ UNCHANGED <<dirty, table, cache, owed, staleFills>>

\* repository.get; the command then parses the role it was given.
Load(r) ==
    LET role == table[call[r].user] IN
    /\ stage[r] = "load"
    /\ \/ role = None /\ End(r, "missing")
       \/ role # None /\ call[r].op = "get" /\ Goto(r, "commit") /\ UNCHANGED outcome
       \/ /\ role # None /\ call[r].op = "change"
          /\ \/ call[r].role \notin Roles /\ End(r, "invalid")
             \/ call[r].role \in Roles /\ Goto(r, "refetch") /\ UNCHANGED outcome
    /\ loaded' = [loaded EXCEPT ![r] = role]
    /\ heldSince' = [heldSince EXCEPT ![r] = {role} \ {None}]
    /\ UNCHANGED <<dirty, table, cache, owed, staleFills>>

\* Mutant: UserMapper.apply assigns every column but the role.
RefetchWithoutRole(r) ==
    /\ stage[r] = "refetch"
    /\ Goto(r, "commit")
    /\ UNCHANGED <<loaded, dirty, table, cache, outcome, history>>

\* repository.update gets the model again, which is the copy loaded before, if
\* the session still has it, or else the row as it is now; apply() assigns the
\* role, and the flush has something to send only where that differs.
Refetch(r) ==
    /\ stage[r] = "refetch"
    /\ \E role \in {loaded[r], table[call[r].user]} :
         dirty' = [dirty EXCEPT ![r] = call[r].role # role]
    /\ Goto(r, IF dirty'[r] THEN "flush" ELSE "commit")
    /\ UNCHANGED <<loaded, table, cache, outcome, history>>

\* The UPDATE waits for the lock of its row.
Flush(r) ==
    /\ stage[r] = "flush"
    /\ \A q \in Requests :
         ~(stage[q] = "commit" /\ dirty[q] /\ call[q].user = call[r].user)
    /\ Goto(r, "commit")
    /\ UNCHANGED <<loaded, dirty, table, cache, outcome, history>>

\* The row after the transaction of r: one without an UPDATE leaves it alone.
TakeEffect(r) ==
    LET u == call[r].user
        readers == {q \in Requests : stage[q] # "waiting" /\ call[q].user = u} IN
    /\ table' = [table EXCEPT ![u] = IF dirty[r] THEN call[r].role ELSE @]
    /\ heldSince' = [q \in Requests |->
                       heldSince[q] \cup IF q \in readers THEN {table'[u]} ELSE {}]
    /\ owed' = owed \cup {q \in {r} : dirty[q]}
    /\ UNCHANGED staleFills

\* Mutant: change_role answers without touching the cache.
StageAfterForgetting(r) == IF call[r].op = "get" THEN "fill" ELSE "done"

StageAfter(r) == IF call[r].op = "get" THEN "fill" ELSE "invalidate"

Commit(r) ==
    /\ stage[r] = "commit"
    /\ TakeEffect(r)
    /\ Goto(r, StageAfter(r))
    /\ UNCHANGED <<loaded, dirty, cache, outcome>>

\* The commit is done and its answer lost: the handler raises.
CommitUnacknowledged(r) ==
    /\ stage[r] = "commit"
    /\ TakeEffect(r)
    /\ End(r, "error")
    /\ UNCHANGED <<loaded, dirty, cache>>

Fill(r) ==
    LET u == call[r].user IN
    /\ stage[r] = "fill"
    /\ cache' = [cache EXCEPT ![u] = loaded[r]]
    /\ staleFills' = (staleFills \ {u}) \cup {v \in {u} : loaded[r] # table[v]}
    /\ End(r, "ok")
    /\ UNCHANGED <<loaded, dirty, table, heldSince, owed>>

\* The entry goes, and with it what the handlers that have ended left undone.
Drop(u) ==
    /\ cache' = [cache EXCEPT ![u] = None]
    /\ staleFills' = staleFills \ {u}
    /\ owed' = {r \in owed : call[r].user # u \/ stage'[r] # "done"}

Invalidate(r) ==
    /\ stage[r] = "invalidate"
    /\ End(r, "ok")
    /\ Drop(call[r].user)
    /\ UNCHANGED <<loaded, dirty, table, heldSince>>

\* An entry reaches its TTL.
Expire(u) ==
    /\ cache[u] # None
    /\ UNCHANGED <<stage, loaded, dirty, table, outcome, heldSince>>
    /\ Drop(u)

\* The database or Redis fails, or the process dies.
Abort(r) ==
    /\ stage[r] \notin {"waiting", "done"}
    /\ End(r, "error")
    /\ UNCHANGED <<loaded, dirty, table, cache, history>>

Handle(r) ==
    \/ Start(r) \/ Lookup(r) \/ Load(r) \/ Refetch(r) \/ Flush(r)
    \/ Commit(r) \/ CommitUnacknowledged(r) \/ Fill(r) \/ Invalidate(r) \/ Abort(r)

Next ==
    \/ AuthNext /\ UNCHANGED userVars
    \/ (\E r \in Requests : Handle(r)) /\ UNCHANGED authVars
    \/ (\E u \in Users : Expire(u)) /\ UNCHANGED authVars

Spec == Init /\ [][Next]_vars

-----------------------------------------------------------------------------
(***************************************************************************)
(* A role that change_role acknowledges was the user's role at some time   *)
(* between its read and its answer: a concurrent change may replace it,    *)
(* but the answer is never about a role the row did not have meanwhile.    *)
(***************************************************************************)
AcknowledgedRoleTookHold ==
    \A r \in Requests :
        (outcome[r] = "ok" /\ call[r].op = "change") => call[r].role \in heldSince[r]

(***************************************************************************)
(* The cache answers with a role the user no longer has only while the     *)
(* invalidation of a committed change is still to come, or was lost, or    *)
(* because a fill that had read before the change wrote after it.          *)
(***************************************************************************)
CachedRolesHaveCauses ==
    \A u \in Users : cache[u] \notin {None, table[u]} =>
        \/ \E r \in owed :
              /\ call[r].user = u
              /\ stage[r] = "invalidate" \/ outcome[r] = "error"
        \/ u \in staleFills
=============================================================================
