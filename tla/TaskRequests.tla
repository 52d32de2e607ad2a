---------------------------- MODULE TaskRequests ----------------------------
(***************************************************************************)
(* The commands and queries on tasks, as the handlers of the API and the   *)
(* CLI run them concurrently against one table and one cache: create, get  *)
(* by id through the cache, update and complete.  A request is the handler *)
(* of one call; a step is one statement, commit or cache operation with    *)
(* the code up to the next await, which runs without interleaving.  Tenant *)
(* binding and the connection pool are UnitOfWork: here a statement simply *)
(* sees the rows of its tenant (READ COMMITTED).  A row is its tenant, its *)
(* status and one column (title) for what update_details may change.       *)
(***************************************************************************)
EXTENDS FiniteSets

CONSTANTS
    Requests,  \* one handler execution each; all are started at most once
    Tenants, Tasks, Titles,
    Calls,     \* the calls clients may make
    None

Statuses == {"pending", "completed"}
Columns == {"title", "status"}
Writes == {"update", "complete"}
Row == [tenant : Tenants, title : Titles, status : Statuses]

\* The commands of the CLI on a single task; its list runs the query of Pages.
CliOps == {"create", "complete"}

\* Title None leaves the title as it is.
ValidCall(c) ==
    /\ c \in [op : Writes \cup {"create", "get"}, via : {"api", "cli"},
              tenant : Tenants, task : Tasks, title : Titles \cup {None}]
    /\ c.via = "cli" => c.op \in CliOps
    /\ c.op = "create" => c.title # None

ASSUME CallsAreValid == \A c \in Calls : ValidCall(c)
ASSUME NoneIsNoValue == None \notin Titles /\ None \notin Row /\ None \notin Calls

VARIABLES
    pc,          \* where each handler is
    call,        \* the call it serves
    loaded,      \* the row its first SELECT returned
    entity,      \* the Task in memory, after the domain method
    dirty,       \* the columns its UPDATE sets
    table,       \* the committed rows
    cache,       \* Redis, by <<tenant, task>>
    published,   \* the requests whose event reached the publisher
    reply,       \* the row a get answered with
    outcome,     \* what the caller was told
    owed,        \* history: committed writes that their cache entry is older than
    versions,    \* history: every row a task ever had committed
    staleFills   \* history: fills with a row already replaced, still cached

vars == <<pc, call, loaded, entity, dirty, table, cache, published, reply,
          outcome, owed, versions, staleFills>>
transaction == <<call, loaded, entity, dirty>>
history == <<owed, versions, staleFills>>

Stages == {"new", "lookup", "insert", "load", "refetch", "flush", "commit",
           "fill", "invalidate", "done"}
Keys == Tenants \X Tasks

TypeOK ==
    /\ pc \in [Requests -> Stages]
    /\ call \in [Requests -> Calls \cup {None}]
    /\ loaded \in [Requests -> Row \cup {None}]
    /\ entity \in [Requests -> Row \cup {None}]
    /\ dirty \in [Requests -> SUBSET Columns]
    /\ table \in [Tasks -> Row \cup {None}]
    /\ cache \in [Keys -> Row \cup {None}]
    /\ published \in SUBSET Requests
    /\ reply \in [Requests -> Row \cup {None}]
    /\ outcome \in [Requests -> {"none", "ok", "refused", "error"}]
    /\ owed \in SUBSET Requests
    /\ versions \in [Tasks -> SUBSET Row]
    /\ staleFills \in SUBSET Requests

\* Earlier calls may have created tasks; none is completed or cached yet.
Init ==
    /\ pc = [r \in Requests |-> "new"]
    /\ call = [r \in Requests |-> None]
    /\ loaded = [r \in Requests |-> None]
    /\ entity = [r \in Requests |-> None]
    /\ dirty = [r \in Requests |-> {}]
    /\ table \in [Tasks -> {None} \cup {row \in Row : row.status = "pending"}]
    /\ cache = [key \in Keys |-> None]
    /\ published = {}
    /\ reply = [r \in Requests |-> None]
    /\ outcome = [r \in Requests |-> "none"]
    /\ owed = {}
    /\ versions = [k \in Tasks |-> {table[k]} \ {None}]
    /\ staleFills = {}

-----------------------------------------------------------------------------
Goto(r, stage) == pc' = [pc EXCEPT ![r] = stage]
End(r, result) ==
    /\ Goto(r, "done")
    /\ outcome' = [outcome EXCEPT ![r] = result]

FirstStage(op) ==
    CASE op = "get" -> "lookup"
      [] op = "create" -> "insert"
      [] op \in Writes -> "load"

\* A new task gets a fresh id; the other calls may name any task.
Receive(r, c) ==
    /\ pc[r] = "new"
    /\ c.op = "create" =>
          /\ table[c.task] = None
          /\ \A q \in Requests : call[q] # None => call[q].task # c.task
    /\ call' = [call EXCEPT ![r] = c]
    /\ Goto(r, FirstStage(c.op))
    /\ UNCHANGED <<loaded, entity, dirty, table, cache, published, reply, outcome, history>>

(***************************************************************************)
(* cached(): answer from the cache, or run the query and fill the cache.   *)
(***************************************************************************)
\* Mutant: the key of a cache entry without its tenant.
KeyOfTask(c) == <<CHOOSE t \in Tenants : TRUE, c.task>>

Key(c) == <<c.tenant, c.task>>

CacheHit(r) ==
    /\ pc[r] = "lookup"
    /\ cache[Key(call[r])] # None
    /\ reply' = [reply EXCEPT ![r] = cache[Key(call[r])]]
    /\ End(r, "ok")
    /\ UNCHANGED <<transaction, table, cache, published, history>>

CacheMiss(r) ==
    /\ pc[r] = "lookup"
    /\ cache[Key(call[r])] = None
    /\ Goto(r, "load")
    /\ UNCHANGED <<transaction, table, cache, published, reply, outcome, history>>

Fill(r) ==
    LET key == Key(call[r]) IN
    /\ pc[r] = "fill"
    /\ cache' = [cache EXCEPT ![key] = loaded[r]]
    /\ reply' = [reply EXCEPT ![r] = loaded[r]]
    /\ staleFills' = {q \in staleFills : Key(call[q]) # key}
                     \cup {q \in {r} : loaded[r] # table[call[r].task]}
    /\ owed' = {q \in owed : Key(call[q]) # key}
    /\ End(r, "ok")
    /\ UNCHANGED <<transaction, table, published, versions>>

Drop(key) ==
    /\ cache' = [cache EXCEPT ![key] = None]
    /\ staleFills' = {q \in staleFills : Key(call[q]) # key}
    /\ owed' = {q \in owed : Key(call[q]) # key}

Invalidate(r) ==
    /\ pc[r] = "invalidate"
    /\ Drop(Key(call[r]))
    /\ End(r, "ok")
    /\ UNCHANGED <<transaction, table, published, reply, versions>>

\* Mutant: entries stored without `ex`.
NeverExpire(key) == FALSE /\ UNCHANGED vars

Expire(key) ==
    /\ cache[key] # None
    /\ Drop(key)
    /\ UNCHANGED <<pc, transaction, table, published, reply, outcome, versions>>

-----------------------------------------------------------------------------
(***************************************************************************)
(* The domain methods, and whether they record an event.                   *)
(***************************************************************************)
\* Mutant: a status the enumeration does not have.
CompleteAsDone(row) == [row EXCEPT !.status = "done"]

Complete(row) == [row EXCEPT !.status = "completed"]

\* Mutant: an edit reopens the task.
UpdateAndReopen(row, title) ==
    [row EXCEPT !.title = IF title = None THEN @ ELSE title, !.status = "pending"]

UpdateDetails(row, title) == [row EXCEPT !.title = IF title = None THEN @ ELSE title]

NewTask(c) == [tenant |-> c.tenant, title |-> c.title, status |-> "pending"]

Execute(c, row) ==
    CASE c.op = "get" -> row
      [] c.op = "update" -> UpdateDetails(row, c.title)
      [] c.op = "complete" -> Complete(row)

\* Mutant: the guard of complete() reads the status it has just assigned.
RecordsEventAfterAssignment(r) ==
    \/ call[r].op = "create"
    \/ call[r].op = "complete" /\ Complete(loaded[r]).status # "completed"

RecordsEvent(r) ==
    \/ call[r].op = "create"
    \/ call[r].op = "complete" /\ loaded[r].status # "completed"

\* publish_all: the bus has no subscriber that could fail or wait.
Publish(r) == published' = published \cup {q \in {r} : RecordsEvent(q)}

(***************************************************************************)
(* The statements of the transaction.                                      *)
(***************************************************************************)
Found(r) ==
    /\ table[call[r].task] # None
    /\ table[call[r].task].tenant = call[r].tenant

\* repository.get, to_entity and the domain method.
Load(r) ==
    /\ pc[r] = "load"
    /\ Found(r)
    /\ loaded' = [loaded EXCEPT ![r] = table[call[r].task]]
    /\ entity' = [entity EXCEPT ![r] = Execute(call[r], table[call[r].task])]
    /\ Goto(r, IF call[r].op = "get" THEN "commit" ELSE "refetch")
    /\ UNCHANGED <<call, dirty, table, cache, published, reply, outcome, history>>

\* 404 for a task that is absent or another tenant's; 422 for a blank title or,
\* on create, an owner that the users context does not have or has inactive.
Refuse(r) ==
    /\ \/ pc[r] = "load" /\ (Found(r) => call[r].op = "update" /\ call[r].title # None)
       \/ pc[r] = "insert"
    /\ End(r, "refused")
    /\ UNCHANGED <<transaction, table, cache, published, reply, history>>

\* CreateTaskCommand: INSERT, then publish.
Insert(r) ==
    /\ pc[r] = "insert"
    /\ entity' = [entity EXCEPT ![r] = NewTask(call[r])]
    /\ Publish(r)
    /\ Goto(r, "commit")
    /\ UNCHANGED <<call, loaded, dirty, table, cache, reply, outcome, history>>

(***************************************************************************)
(* repository.update gets the model a second time.  The session refers to  *)
(* it weakly: if the collector has taken the first copy (CPython does, at  *)
(* once) this is a new SELECT, otherwise it is the row as first loaded.    *)
(* apply() then assigns every column from the entity, and the flush sets   *)
(* the columns that differ from that row; without any, it sends nothing.   *)
(***************************************************************************)
Differing(r, row) == {c \in Columns : entity[r][c] # row[c]}

Refetch(r) ==
    /\ pc[r] = "refetch"
    /\ \E row \in {loaded[r], table[call[r].task]} :
         dirty' = [dirty EXCEPT ![r] = Differing(r, row)]
    /\ \/ /\ dirty'[r] = {}
          /\ Publish(r)
          /\ Goto(r, "commit")
       \/ /\ dirty'[r] # {}
          /\ Goto(r, "flush")
          /\ UNCHANGED published
    /\ UNCHANGED <<call, loaded, entity, table, cache, reply, outcome, history>>

\* Mutant: a failed transaction is left open, and its row locked.
LockHoldersLeaking(k) ==
    {r \in Requests : /\ pc[r] = "commit" \/ outcome[r] = "error"
                      /\ dirty[r] # {}
                      /\ call[r].task = k}

\* An UPDATE locks its row until session() has ended its transaction.
LockHolders(k) ==
    {r \in Requests : pc[r] = "commit" /\ dirty[r] # {} /\ call[r].task = k}

\* Mutant: the flush writes past the transaction, before it commits.
FlushThrough(r) ==
    /\ pc[r] = "flush"
    /\ LockHolders(call[r].task) = {}
    /\ Publish(r)
    /\ table' = [table EXCEPT ![call[r].task] = entity[r]]
    /\ Goto(r, "commit")
    /\ UNCHANGED <<transaction, cache, reply, outcome, history>>

Flush(r) ==
    /\ pc[r] = "flush"
    /\ LockHolders(call[r].task) = {}
    /\ Publish(r)
    /\ Goto(r, "commit")
    /\ UNCHANGED <<transaction, table, cache, reply, outcome, history>>

\* The row once the transaction of r commits: its UPDATE applies to the row as
\* it is by then and sets the dirty columns only.
Written(r) ==
    LET row == table[call[r].task]
        column(c) == IF c \in dirty[r] THEN entity[r][c] ELSE row[c] IN
    IF call[r].op = "create" THEN entity[r]
    ELSE [tenant |-> row.tenant, title |-> column("title"), status |-> column("status")]

HasWrite(r) == call[r].op = "create" \/ dirty[r] # {}

TakeEffect(r) ==
    LET k == call[r].task IN
    /\ table' = [table EXCEPT ![k] = Written(r)]
    /\ owed' = owed \cup {q \in {r} : HasWrite(q)}
    /\ versions' = [versions EXCEPT ![k] = @ \cup {Written(r)}]
    /\ UNCHANGED staleFills

\* Mutant: complete_task forgets to invalidate.
StageAfterForgetting(c) ==
    CASE c.op = "get" -> "fill"
      [] c.op = "update" -> "invalidate"
      [] OTHER -> "done"

\* What the handler does once its unit of work has committed.
StageAfter(c) ==
    CASE c.op = "get" -> "fill"
      [] c.op \in Writes /\ c.via = "api" -> "invalidate"
      [] OTHER -> "done"

Commit(r) ==
    /\ pc[r] = "commit"
    /\ TakeEffect(r)
    /\ \/ StageAfter(call[r]) = "done" /\ End(r, "ok")
       \/ StageAfter(call[r]) # "done" /\ Goto(r, StageAfter(call[r])) /\ UNCHANGED outcome
    /\ UNCHANGED <<transaction, cache, published, reply>>

\* The commit is done and its answer lost: the handler raises.
CommitUnacknowledged(r) ==
    /\ pc[r] = "commit"
    /\ TakeEffect(r)
    /\ End(r, "error")
    /\ UNCHANGED <<transaction, cache, published, reply>>

\* The database or Redis fails, the task is cancelled, or the process dies: the
\* open transaction, if there is one, is rolled back and nothing more is done.
Abort(r) ==
    /\ pc[r] \notin {"new", "done"}
    /\ End(r, "error")
    /\ UNCHANGED <<transaction, table, cache, published, reply, history>>

-----------------------------------------------------------------------------
Step(r) ==
    \/ CacheHit(r) \/ CacheMiss(r)
    \/ Load(r) \/ Refuse(r) \/ Insert(r) \/ Refetch(r) \/ Flush(r)
    \/ Commit(r) \/ Fill(r) \/ Invalidate(r)

Next ==
    \/ \E r \in Requests :
         \/ \E c \in Calls : Receive(r, c)
         \/ Step(r)
         \/ CommitUnacknowledged(r)
         \/ Abort(r)
    \/ \E key \in Keys : Expire(key)

Spec == Init /\ [][Next]_vars

\* A handler that is running goes on, and a cache entry expires; no failure and
\* no arrival is assumed.
FairSpec ==
    /\ Spec
    /\ \A r \in Requests : WF_vars(Step(r))
    /\ \A key \in Keys : WF_vars(Expire(key))

-----------------------------------------------------------------------------
TaskOf(r) == call[r].task

\* A completed task has been announced: no commit makes a task completed before
\* some request has published its TaskCompleted, whichever requests raced,
\* failed or found the work done (complete_task.py publishes before the unit of
\* work commits, Task.complete decides whether there is an event at all).
CompletionAnnounced ==
    \A k \in Tasks :
        table[k] # None /\ table[k].status = "completed" =>
            \E r \in published : call[r].op = "complete" /\ TaskOf(r) = k

\* A caller is never answered with, and a tenant's key of the cache never
\* holds, the row of another tenant (the key is "{tenant}:{task_id}").
ServedOwnTenant ==
    /\ \A r \in Requests : reply[r] # None => reply[r].tenant = call[r].tenant
    /\ \A t \in Tenants, k \in Tasks :
          cache[<<t, k>>] # None => cache[<<t, k>>].tenant = t

\* What a reader is answered and what the cache keeps was committed at some
\* time: no uncommitted, rolled back or mixed row is ever served.
ServedWasCommitted ==
    /\ \A r \in Requests : reply[r] # None => reply[r] \in versions[TaskOf(r)]
    /\ \A key \in Keys : cache[key] # None => cache[key] \in versions[key[2]]

\* A write that has committed since its cache entry was last filled or dropped,
\* and that the handler has not invalidated: one still on its way to it, one made
\* by the CLI, or one whose handler failed.
Uninvalidated(r) ==
    /\ r \in owed
    /\ call[r].op \in Writes
    /\ \/ pc[r] = "invalidate"
       \/ pc[r] = "done" /\ (call[r].via = "cli" \/ outcome[r] = "error")

\* There are three ways for a cache entry to be stale and no other: a writer that
\* came after the entry has not invalidated yet, it never will (the CLI, a failure
\* after the commit), or the reader that filled the entry had read before a write.
\* What happened to an earlier entry of the task explains nothing.
StaleOnlyForKnownReasons ==
    \A key \in Keys :
        cache[key] # None /\ cache[key] # table[key[2]] =>
            \E r \in Requests :
                call[r] # None /\ Key(call[r]) = key /\ (Uninvalidated(r) \/ r \in staleFills)

\* The step commits a request on k that was asked to change the column, or
\* whose snapshot had another value in it than the table has by now.
IntendedOrStale(k, c) ==
    \E r \in Requests :
        /\ pc[r] = "commit" /\ pc'[r] # "commit" /\ TaskOf(r) = k
        /\ \/ c = "title" /\ call[r].op = "update"
           \/ c = "status" /\ call[r].op = "complete"
           \/ loaded[r][c] # table[k][c]

\* A commit changes only what its call asked for, or what it read before
\* another commit changed it: every lost update has a stale snapshot behind it
\* (TaskMapper.apply assigns every column, whatever the command meant to change).
ChangesAreIntendedOrStale ==
    [][\A k \in Tasks : \A c \in Columns :
         table[k] # None /\ table'[k][c] # table[k][c] => IntendedOrStale(k, c)]_vars

\* Every request that is received is answered, although writers of one task
\* wait for each other's row lock and any of them may fail while holding it.
EveryRequestEnds == \A r \in Requests : pc[r] # "new" ~> pc[r] = "done"

\* Once no more calls arrive the cache agrees with the table for good, whatever
\* was left stale by races, failures and the CLI: every entry has a lifetime.
EventuallyCoherent ==
    <>[](\A key \in Keys : cache[key] # None => cache[key] = table[key[2]])

-----------------------------------------------------------------------------
(***************************************************************************)
(* Refinement: the statements, commits and cache operations of a handler   *)
(* are the one write or the one read of a request.                         *)
(***************************************************************************)
AnnouncedTasks ==
    {k \in Tasks : \E r \in published : call[r].op = "complete" /\ TaskOf(r) = k}

Told(r) == IF pc[r] = "invalidate" THEN "written" ELSE outcome[r]

Promise == INSTANCE TaskVersions
    WITH Rows <- Row, asked <- call, current <- table, past <- versions,
         announced <- AnnouncedTasks, answer <- reply, told <- [r \in Requests |-> Told(r)]

ImplementsTaskVersions == Promise!Spec

-----------------------------------------------------------------------------
(***************************************************************************)
(* What the documents and the tests say, and the code does not keep.       *)
(***************************************************************************)
\* A completed task stays completed: the domain refuses to start one again
\* (task.py, "Cannot start a completed task") and has no way to reopen it.
CompletedIsFinal ==
    [][\A k \in Tasks :
         table[k] # None /\ table[k].status = "completed" => table'[k].status = "completed"]_vars
=============================================================================
