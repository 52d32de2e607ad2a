# Formal models of the modular monolith

TLA+ models of the parts of this application in which concurrency, failure and
ordering decide whether it is right, the TLC configurations that check them on
small instances, and proofs, checked by TLAPS, that their safety properties
hold for every number of requests, tenants, connections, tasks, keys and clients.

All definitions are read off the code (`PROJECT.json`, `map`, names the lines of
each). Paths below are relative to `src/todo_app/` unless they start with
`docs/`, `tests/`, `infra/` or `migrations/`.

## 1. Inventory

The program is an asynchronous FastAPI service and a CLI over PostgreSQL
(SQLAlchemy 2 async, asyncpg) and Redis, three replicas in production. Every
tenant shares the tables; the policies of row level security (RLS) separate them
by a setting of the transaction. A *request* is one asyncio task. Everything
between two `await`s runs without interleaving; everything else interleaves.

| Component | State | Operations | Interacts with |
|---|---|---|---|
| Unit of work and tenant isolation: `contexts/shared/infrastructure/db/`, `contexts/shared/application/request_context.py`, `presentation/api/dependencies.py`, `migrations/policies/*.sql` | ContextVars of the request context and of the scoped session, the engine's pool, `app.tenant_id` of each transaction, the tables | bind and exit a context, `begin()`, checkout, `set_config`, statements under the policies, commit, rollback, release | every use case runs inside it |
| Tasks: `contexts/tasks/`, `presentation/api/v1/tasks/routers.py`, `presentation/api/caching.py`, `presentation/cli/commands/tasks.py` | table `tasks`, entities in memory, the cache in Redis | create, get by id, update, complete, list | the unit of work, the cache, the event publisher, the users context (owner check) |
| Domain events: `contexts/shared/infrastructure/messaging/in_memory_bus.py` | events recorded by an aggregate | record, collect, publish | called by commands before the commit; nobody subscribes |
| AI suggestions: `contexts/ai/`, `presentation/api/tasks.py`, `presentation/api/v1/ai/routers.py` | table `ai_suggestions`, queued background jobs | generate in the request or after the response, list | the tasks context, the model (Bedrock), the pool |
| Rate limit: `presentation/api/middleware/rate_limit.py` | counters in Redis, one per client | count, start a window, reject | Redis, in front of every request |
| Users: `contexts/users/`, `presentation/api/v1/users/routers.py` | table `users`, cached users | register, change role, get, list | the unit of work, the cache, the email uniqueness service, the gate on the admin group |
| Token verification: `contexts/users/infrastructure/auth/cognito.py`, `presentation/api/dependencies.py` | the cached key set | verify, refresh, require a role | Cognito, in front of every endpoint |
| Lists: the three `list` queries with their repositories, `presentation/api/pagination.py` | none of their own | one page with its total | rows that others insert and change between two pages |
| Seeder: `scripts/seed.py` | none of its own | one unit of work per tenant | registration and task creation |
| Server: `presentation/api/app.py`, `presentation/api/metrics.py`, `infra/k8s/helm/` | the pool, the stack of middleware, the counters of Prometheus | startup, `/health`, serve, shutdown | PostgreSQL, Redis, both probes of the kubelet |
| CORS and ids of requests, error mapping, serializers, DTOs, DI, configuration, logging, telemetry | none that influences behaviour | | |
| Migrations, infrastructure as code, charts, CI | declarations for other tools | | |

What is hard about them, and what makes them correct:

- **Unit of work.** Contexts of tenants are bound and unbound between any two
  awaits of another tenant's request; a pooled connection was last used by
  somebody else; a use case fails, is cancelled or dies between two statements;
  the answer to a COMMIT is lost; more requests than connections. Right is: a
  request sees and writes rows of its tenant only, a connection goes back without
  a tenant, no two sessions share one, a unit of work is atomic and durable once
  acknowledged, and every one that began ends. In one sentence: the shared tables
  behave as one database per tenant.
- **Tasks.** Two transactions read and write one row under READ COMMITTED with no
  version column; the mapper assigns every column of an entity read earlier;
  events go out before the commit; the cache is filled and invalidated outside
  the unit of work, and not at all by the CLI. Right is: nothing is answered or
  cached that another tenant owns or nobody committed, a completed task has been
  announced, a commit changes what its call asked for, and a stale cache entry
  has a known cause and an end.
- **AI suggestions.** A connection is held while a model thinks for seconds; a job
  runs after its response and catches what its use case raises; a page is two
  statements. Right is: nobody sees a pending row, a
  reply or a finished job has left its row, a page never shows more than it counts.
- **Rate limit.** Two commands of several replicas with expiry between them, and
  a Redis that fails open or loses its keys. Right is: no counter lets more than
  the limit through, nobody is rejected for the requests of others, no counter
  lives for ever.
- **Users, seeder.** An email is looked up and then inserted, by requests that race;
  a unique index makes the second INSERT wait for the first transaction; the seeder
  registers several users in one transaction per tenant, fails on a conflict, may die
  between two tenants and runs again. Right is: an email has one user in a tenant,
  nobody is refused without a user who has the email, a run leaves a tenant whole or
  untouched, and everyone who waits is answered.
- **Role change.** Two changes and a cached read of one user interleave; the
  repository reads the row twice, and sends nothing when the role is there already.
  Right is: a role that is acknowledged was the user's role meanwhile, and a stale
  cached role has a known cause.
- **Keys.** Concurrent requests find the key set too old, fetch it and store it in
  the order of their answers, while Cognito rotates keys. Right is: a withdrawn key is
  forgotten and a published one known after the lifetime of the set.
- **Lists.** Pages go by offset over rows ordered by the start time of the transaction
  that inserted them, which ties and is not the order of commits. A walk cannot show
  every row once; right is that there is no other reason for a miss or a repetition.
- **Server.** `/health` competes with requests for the pool and depends on Redis, and the
  liveness probe kills the process over it. Right is: a probe fails for a cause outside
  the probes themselves, a replica comes back once the cause is gone, and every answer is counted.

`PROJECT.json`, `hazards`, lists each of these at the line where it bites with
the properties that watch it.

## 2. Plan

1. `UnitOfWork` under everything else, with `TenantDatabases` as what it promises,
   its refinement and its proofs. *Done.*
2. `TaskRequests`: commands and queries by id against one table and one cache;
   proofs of all its safety properties. *Done.*
3. `Suggestions`: the command, the job, the page, with their proofs. *Done.*
4. `RateLimit` and its proofs. *Done.*
5. `Registration`: the race of registrations of one email and the seeder that runs
   again after a failure, with its proofs. *Done.*
6. `Authentication`: the key set, and `UserRoles`, the user endpoints composed with it;
   proofs of both and of the composition. *Done.*
7. `Pages`: the walk through a list while it changes, with its proofs. *Done.*
8. `ApiServer`: pool, probes, restarts, metrics, with the proofs of its safety. *Done.*
9. What the components promise to their callers, `TaskVersions`, `UserDirectory` and
   `SuggestionLog`, with the proofs that the handlers implement them. *Done.*
10. Left: an abstract specification for `UserRoles`, and the task handlers over
   `UnitOfWork` (`TaskVersions` with pool and tenant from `UnitOfWork`).

## 3. Modules

| Module | Models | Relation to others |
|---|---|---|
| `UnitOfWork` | one process: contexts, pool, transactions, RLS, failures, death of the process | instantiates `TenantDatabases` |
| `TenantDatabases` | the abstract specification: one database per tenant, one atomic write per request | |
| `UnitOfWorkProofs` | invariants and refinement, proved | extends `UnitOfWork` |
| `TaskRequests` | handlers of tasks, table and cache | instantiates `TaskVersions` |
| `TaskVersions` | the abstract specification: a task is a line of versions, a request writes or reads one | |
| `TaskRequestsProofs` | its safety and refinement, proved | extends `TaskRequests` |
| `Suggestions` | generation, jobs, page, pool | instantiates `SuggestionLog` |
| `SuggestionLog` | the abstract specification: suggestions appear at once with their answer and stay | |
| `SuggestionsProofs` | its safety and refinement, proved | extends `Suggestions` |
| `Registration` | registrations of clients and of the seeder, unique index | instantiates `UserDirectory` |
| `UserDirectory` | the abstract specification: entries are made by one atomic look and write | |
| `RegistrationProofs` | its safety and refinement, proved | extends `Registration` |
| `RateLimit` | the middleware and Redis | |
| `RateLimitProofs` | its safety, proved | extends `RateLimit` |
| `Authentication` | key set, verification, developer headers, admin gate | |
| `UserRoles` | reading a user, changing a role, the cache | extends `Authentication`: the handlers run for the requests it admits |
| `UserRolesProofs` | the properties of both, and that it implements `AuthSpec`, proved | extends `UserRoles` |
| `Pages` | the list endpoints over a changing table | |
| `PagesProofs` | its safety, proved | extends `Pages` |
| `ApiServer` | one replica: lifespan, stack, pool, `/health`, probes, restarts | |
| `ApiServerProofs` | its safety, proved | extends `ApiServer` |
| `MC*` | constants, calls and symmetry for TLC | extend the module they check |

### UnitOfWork

`context` and `session` are the two ContextVars as each task sees them, `effective`
is what `begin()` resolved, `conn` the connection of a session, `setting` the
value of `app.tenant_id` in the transaction open on a connection, `staged` and
`table` uncommitted and committed rows. `identity` is the tenant of the verified
token (or of `--tenant`, or of the seed file), the one the request is *for*; it is
never used to read.

Actions follow the code: `BindContext` / `RejectCredentials`
(`get_request_context`), `Begin` (`UnitOfWork.begin`, `tenant_id or
current_tenant()`), `Checkout` / `PoolTimeout` (the first statement of the session
takes the connection), `BindTenant` (`set_config(..., true)` and the scoped session
set after it), `Select` / `Insert` (a repository statement, filtered by
`Policy`), `LeaveBody` (the scoped session is reset before the commit), `RaiseInBody`
(an exception or a cancellation), `Commit`, `CommitFails`,
`CommitUnacknowledged`, `Rollback`, `ExitContext`, `Crash`. A statement that is
given nothing to find is `Select` without effect; an UPDATE of a row is, for this
module, a row written under a fresh id, since what it asks is which *tenant's*
rows a transaction touches and whether they appear together.

`Crash` ends every running request and lets the server roll back; requests not
yet received are served by the next process.

### TaskRequests

A request is one handler. `lookup` → (`CacheHit` | `CacheMiss`) → `load` → `commit` →
`fill` for a read; `load` → `refetch` → (`flush`) → `commit` → `invalidate` for a
write; `insert` → `commit` for a creation. `Load` is `repository.get` and the domain
method after it, `Refetch` the second `get` inside `repository.update`. Because the
identity map of a session is weak, that second `get` may return a newly selected
row or the one loaded before, depending on whether the first model object is still
alive; both are allowed. `dirty` is the set of columns the flush then sends
(`TaskMapper.apply` assigns all, SQLAlchemy writes those that differ). `LockHolders`
is the row lock an UPDATE takes until its transaction ends. Events are published in
the step of the INSERT or UPDATE, before the commit. `Abort` is any failure,
cancellation or crash at any await; `CommitUnacknowledged` is a lost answer.

A row has its tenant, its status and one column standing for those
`update_details` may change. `owed`, `versions` and `staleFills` are history
variables: they are read by properties only. `owed` and `staleFills` speak of the present
entry of a key: a fill and an invalidation begin it anew.

### Suggestions

`reading` → `adding` → `asking` → `updating` → `committing`, with a connection held all
the way. A failure *of the model* (`Ask`) marks the row failed, the UPDATE is
flushed and the exception raised again; `StageAfterCaught` is the difference
between the request (it leaves the unit of work, which rolls back) and the job
(`api/tasks.py` catches inside, which commits). A failure *of a statement*
(`StatementFails`) loses the transaction either way. `List` and `Count` are the two
statements of a page.

### Registration

An actor is a request (`POST /users`, `users create-admin`) or a run of the seeder; both
execute `RegisterUserCommand`, the run several times in each unit of work. `todo` are
the emails its unit of work has still to register, `staged` those its transaction has
inserted, `users` the committed rows with, for the properties, who registered them.
`FindFree` / `Conflict` is the lookup (`EmailUniquenessChecker.ensure_unique`), which sees
what is committed and what its own transaction has inserted. `Insert` / `Violate` is
the INSERT: it waits while another open transaction has inserted the same key
(`Blocked`), and violates the index if that one has committed (`Taken`). No handler
maps that error, so a client that loses there is answered 500 and not 409; both are
refusals for `RefusedOnlyIfRegistered`. `Refuse` is the domain turning down a name or a
role, `Abort` a failure, cancellation or death at any await.

A run begins the tenants in any order (a Python set) and takes the emails of a
tenant in any order, which contains the order of the file. A conflict or a violation
ends the run. Runs follow one another: the seeder is a single container that the
API waits for (`docker-compose.yml`), run again by hand (`task seed:demo`). The tasks
of a tenant are created after its users in the same transaction; they are not
represented, since they commit or vanish with it.

### RateLimit

`Count` is INCR with the code up to the next await, `StartWindow` EXPIRE. Either may
fail before or after Redis has run it, and the middleware lets the request pass, or the
request is cancelled or its replica dies at the same await (`CountUnanswered`,
`StartUnanswered`, with the two outcomes of `Unanswered`).
Time is abstract: a counter with a lifetime may expire at any moment, which
contains every real timing; `Restart` loses all keys. `window` is a history
variable: the requests that the present counter of a client has counted.

### Authentication and UserRoles

`jwks` is what the one authenticator of a process remembers, with the time it is dated
by. A request that finds it too old notes the time (`Fetch`), gets the keys of some
later moment (`Answer`) and stores them (`Resume`), over whatever others have stored
meanwhile, dated by its own start. `VerifyFromMemory` needs no await. `JudgeToken` is
`verify` after that: an unknown key is refused without another look, and for a known one
`jwt.decode` may say anything, as may the groups in the token. `FetchFails` is an error of
the endpoint, which raises out of the handler, or a body that is no JSON, which is taken for
an invalid token. `Anonymous` is the developer header, which counts in debug mode only.
Cognito is the environment: `Publish` and `Withdraw` change its keys, `Tick` moves
`time.monotonic()`.

`UserRoles` extends it: a handler starts when the verdict on its request is
"admitted", and neither part writes the variables of the other. The stages are those
of `TaskRequests`; a row is the role of its user, the only column that a request
changes. `Refetch` may find the copy loaded before or the row of now, and a flush without
a difference is none. `owed`, `heldSince` and `staleFills` are history variables.

### Pages

A transaction gets `startedAt` when it begins, and its rows appear when it ends;
`created_at` is that start. `PossiblePages` is the set of answers that ORDER BY,
OFFSET and LIMIT leave open: every choice among rows that tie. `ListPage` and `CountPage`
are the two statements of `list_*`; the client goes on while `total` promises more.
A task is completed, and becomes pending again by the update of section 7 (`Reopen`).
The three lists differ in order (newest suggestions first) and in the filter by status.
`steady`, `entered` and `gone` are history variables over the rows that match.

### ApiServer

A request climbs through `Stack`, holds a connection while it works and carries its
status outwards; `Respond` says which statuses pass the counter. Some requests are answered
without a connection (a missing token, a cached answer). `PingDatabase`, `EndPing` and
`PingRedis` are `check_dependencies`: the ping takes a connection or fails, holds it over
the awaits of `Database.ping`, and gives it back. The kubelet is read off the chart
(`infra/k8s/helm/`): it probes (`Send`), counts answers (`Answer`) and missing ones
(`TimeOut`), takes a replica out of the service (`Fail`) and ends it (`Terminate`). A probe
is refused (`Refuse`) while the startup still waits for the database; a startup that
waits for nothing is over before `initialDelaySeconds`.

`Healthy` says what a probe may count on: both dependencies answer, and the clients leave
as many connections as there are probes. One connection would not do, as the two probes are not
synchronised and one may find the other's ping in the last one. What a probe meets, and what holds
the pool, are separate state, so that a ping that keeps its connection refutes
`FailedProbesHaveACause` and `Recovers`.

A handler that the kubelet no longer waits for stays where it is (`late`). One thing is
coarser than the program: it stands for itself and those the kubelet sends after it
while it is still there. That its late answer is not taken for the next one's is in
`Answer`, which is the kubelet's doing and not the program's. `Watch` keeps the history
variable `troubled`.

## 4. Runs

All runs use model values for requests, tenants and so on. Deadlock is not checked: a
system in which every request has ended stops. (`ApiServer` never stops; what its
probes and requests must go on doing is `Recovers`.) Symmetry is used in runs without
liveness only.

| Run | Bounds | Shows |
|---|---|---|
| `uow_safety` | 3 requests, 2 tenants, 2 connections, 3 ids | isolation, unbound idle connections, atomicity |
| `uow_fair` | 3 requests, 2 tenants, 2 connections, 1 id | every unit of work ends; refinement of `TenantDatabases` |
| `tasks` | 3 calls on 1 task: every call of one tenant, with one edit, and reads of another | announced completions, own tenant, committed rows, causes of staleness, intended changes; every handler ends; the cache is coherent in the end |
| `suggestions` | 3 requests, 2 connections | settled rows, stored answers, pages; every request ends |
| `registration` | 2 clients, 2 runs of the seeder, 2 tenants, 2 emails, 3 users in the file | unique emails, just refusals, whole tenants; every registration ends |
| `rate_limit` | 5 requests, 2 clients, limit 2 | limit, just rejections, lasting counters only after a failure |
| `user_roles` | 2 requests, 1 user, 2 roles, 2 keys, 2 changes of them, lifetime 2, time up to 4 | withdrawn keys are forgotten, published ones known; acknowledged roles; causes of stale roles |
| `pages` | 3 rows, 3 transactions, 3 start times, pages of 1 or 2 | causes of skipped and of repeated rows |
| `api_server` | 2 clients, a pool of 3, 2 failures to a restart | failing probes have a cause, answers are counted, the replica recovers |
| `completed_is_final` | 2 calls through the API, 1 tenant, 1 task | finding, section 7 |
| `present_means_seeded` | 2 runs of the seeder, no client | finding |
| `fixed_window` | 2 requests, 1 client, limit 1 | finding |

Why these are enough to be interesting. Three requests are one more than the
connections, so requests wait, time out and reuse connections another tenant has
left. Three calls on one task are a reader, a writer and a second writer, the
most that any of the known races needs plus one; more tasks only multiply
independent rows. Five requests at a limit of two let a client exceed its limit in
one window and let a late EXPIRE reach the counter of a second window. A tenant with
two seeded users and one with a single one let a run hold one entry of the index
while it waits for another, and two runs let the second meet what the first has left;
the clients register the two users of the first tenant, so that a client waits for the
run while the run waits for the other client.
Two requests, two keys and two changes suffice for an old answer to overwrite a newer
one and for a key to be withdrawn, remembered and to expire; the clock starts at
the lifetime, so that the oldest set that can matter fits. Three rows in pages of one let
a row be pulled back or pushed on over a page boundary and leave one to find out;
three transactions let a tie, an order by time and a late commit occur together.
In a pool of three one client leaves a connection for each probe, two clients do not and
can fill it with one ping; two failures make a single missed probe differ from a restart.

All safety properties that the passing runs check are also proved without bounds (section 6).

Each request runs once: a retry by a client is another request. A request inserts
any number of rows while ids are left (`RowIds`), which is the bound of `Insert`.

Properties, in the words of the code, precede each definition in its module. Every
one has a mutant in `PROJECT.json`: a plausible mistake in one definition (a module
global for a ContextVar, `is_local => false`, a cache key without tenant, a
forgotten invalidation, a key set dated by its arrival, ...) under which the run refutes it.
Mutant operators stand directly above the definition they stand in for.

## 5. Fairness

- `UnitOfWork`, `TaskRequests`, `Suggestions`, `Registration`: weak fairness of the next step of
  each request that has started. The event loop schedules runnable tasks, the server
  and Redis answer or the driver raises, a wait for the pool ends after its timeout
  (30 s), and the client of the model has timeouts. In `TaskRequests` a writer waits
  for a row lock: weak fairness of its step suffices because every holder commits or
  aborts and a request holds at most one lock, so no cycle exists; there are
  finitely many requests. In `Registration` an INSERT waits for an entry of the index: a
  client holds none while it waits, and of the runs, which hold several, one is
  open at a time, so no cycle exists either (`OneWriterPerRow` and `NobodyWaitsInACircle`
  prove what these two arguments rest on).
- `TaskRequests` also assumes that a cache entry expires (`ex=300` of every SET).
- Nothing is assumed of arrivals, failures, cancellations, crashes or of a use case
  running another statement.
- `ApiServer`: weak fairness of the next step of each handler and of the startup (the event loop; a wait for
  the pool ends in a connection or in its timeout, one for Redis or PostgreSQL in an answer or
  an error), of each probe's next step and of restarts (the kubelet keeps its period).
  Nothing is assumed of PostgreSQL, Redis and clients: that they leave the replica in
  health from some time on is the hypothesis of `Recovers`.
- `Authentication`, `UserRoles` and `Pages` have no liveness property: their handlers wait
  for nothing that another request holds, except for the row lock of `Flush`, which the
  `tasks` run covers.
- `RateLimit` has no liveness property: with abstract time, "the window ends" is an
  assumption, and that there *is* an end to wait for is the safety property
  `LastingOnlyAfterFailure`.

`EventuallyCoherent` depends on expiry: some races leave an old row in the cache, and only its lifetime takes it out.

## 6. Proofs

| Theorem | Module | Statement |
|---|---|---|
| `Safe`, `TypesAreKept`, `RequestsStayInTheirTenant`, `PoolCarriesNoTenant`, `UnitsAreAtomic`, `ConnectionsAreNotShared` | `UnitOfWorkProofs` | the inductive invariant and `TypeOK`, `TenantIsolation`, `IdleConnectionsUnbound`, `AllOrNothing`; no two sessions share a connection (`ExclusiveConnection`) |
| `Refinement` | `UnitOfWorkProofs` | `Spec => ImplementsTenantDatabases` |
| `Safe`, `TypesAreKept`, `CompletionsArePublished`, `RepliesKeepToTheirTenant`, `RepliesWereCommitted`, `LostUpdatesAreStale`, `StalenessIsExplained` | `TaskRequestsProofs` | the inductive invariant and `TypeOK`, `CompletionAnnounced`, `ServedOwnTenant`, `ServedWasCommitted`, `ChangesAreIntendedOrStale`, `StaleOnlyForKnownReasons` |
| `OneWriterPerRow`, `RowsWaitForTheirWriter`, `TasksStayWithTheirTenant`, `Refinement` | `TaskRequestsProofs` | `LocksAreExclusive`, `LockedRowsAreStable`, `TasksKeepTheirTenant`; `Spec => ImplementsTaskVersions` |
| `Safe`, `TypesAreKept`, `RowsAppearSettled`, `AnswersAreKept`, `TotalsCoverPages` | `SuggestionsProofs` | the inductive invariant and `TypeOK`, `VisibleIsSettled`, `AnswersAreStored`, `PagesAreCounted` |
| `SeenRowsStay`, `Refinement` | `SuggestionsProofs` | `SettledRowsStay`; `Spec => ImplementsSuggestionLog` |
| `Safe`, `TypesAreKept`, `NoEmailTwice`, `RefusalsAreJust`, `SeedingIsWhole` | `RegistrationProofs` | the inductive invariant and `TypeOK`, `EmailsAreUnique`, `RefusedOnlyIfRegistered`, `TenantsAreSeededWhole` |
| `NobodyWaitsInACircle`, `Refinement` | `RegistrationProofs` | `WaitsAreShort`; `Spec => ImplementsUserDirectory` |
| `Safe`, `TypesAreKept`, `LimitIsKept`, `RejectionsAreJust`, `LastingCountersHaveACause` | `RateLimitProofs` | the inductive invariant and `TypeOK`, `WithinLimit`, `RejectedForOwnRequests`, `LastingOnlyAfterFailure` |
| `CountsAreExact`, `VerdictsAreExact` | `RateLimitProofs` | `CountersAreExact`, `VerdictsFitTheWindow` |
| `IInvHolds`, `TypesHold`, `RemovedKeysForgotten`, `KeysLearnedInTime` | `UserRolesProofs` | the inductive invariant, `AuthenticationTypeOK`, `RemovedKeysAreForgotten`, `KeysAreLearnedInTime` of `AuthSpec` |
| `ComposedAuthenticates` | `UserRolesProofs` | `Spec => AuthSpec`: the composition implements what it extends |
| `UserInvHolds`, `ComposedTypesHold`, `AcknowledgedRolesTookHold`, `CachedRolesAreExplained`, `ComposedKeysAreCurrent` | `UserRolesProofs` | the inductive invariant and `TypeOK`, `AcknowledgedRoleTookHold`, `CachedRolesHaveCauses`, `RemovedKeysAreForgotten`, `KeysAreLearnedInTime` of the composition |
| `PagesGoByPlace` | `PagesProofs` | a row that does not tie is on a page exactly if its place among the rows that match is |
| `Safe`, `TypesAreKept`, `SkipsHaveACause`, `RepetitionsHaveACause`, `QuietWalksShowTheList` | `PagesProofs` | the inductive invariant and `TypeOK`, `SkippedOnlyForKnownReasons`, `RepeatedOnlyForKnownReasons`, `QuietWalksAreExact` |
| `Safe`, `TypesAreKept`, `AnswersAreInTheCounter`, `ProbesFailForACause` | `ApiServerProofs` | the inductive invariant and `TypeOK`, `AnsweredAreCounted`, `FailedProbesHaveACause` |

Assumptions: the sentinels of `UnitOfWork` are no tenants, connections or requests
(`SentinelsAreDistinct`); the calls of `TaskRequests` are well-formed and `None` is no
value (`CallsAreValid`, `NoneIsNoValue`); clients are not runs, the pairs
of `Registration` are of a tenant and an email and `None` is neither
(`RunsAreNoRequests`, `PairsAreValid`, `NoneIsNothing`); the limit is positive, `NoClient` is no
client and the requests are finitely many (`LimitIsPositive`, `NoClientIsNone`,
`RequestsAreFinite`, the last also in `Suggestions`, whose pool is not empty, `PoolSizeIsPositive`); the calls of `UserRoles` are
well-formed, those behind `require_role` are the changes of a role, and `None` is no
call and no role (`AdminCallsAreCalls`, `NoneIsNoCall`, `CallsAreRoleCalls`,
`ChangesAreGated`, `NoneIsNoRole`); the lifetime is positive and the clock can reach it
(`TtlIsPositive`, `BoundsAreNatural`, `DebugIsBoolean`); the rows of `Pages` are finitely
many, its limits positive, its clock bounded, and `None` is no transaction and no list
(`RowsAreFinite`, `LimitsArePositive`, `TimeIsBounded`, `NoneIsApart`); the clients of
`ApiServer` are finitely many, and its pool and threshold positive (`ClientsAreFinite`,
`LimitsArePositive`). Nothing else is assumed: the sets may be of any size. TLC evaluates
each of them in the runs.

**UnitOfWork.** Isolation is not inductive: it holds of `seen` because the
connection a statement runs on carries the tenant of its request, which holds
because the setting was made from `effective` of the session's owner, which holds
because the context the task saw was its own. `IInv` says these one by one
(`ContextsAreOwn`, `SessionsAreOwn`, `ConnectionsAreHeld`, `SettingsAreOwn`), that a
request not yet started has touched nothing (`Untouched`), that ids are fresh
(`IdsAreFresh`, for atomicity: two requests stage no common row) and that the outcome
is set last (`OutcomesAreLast`). One lemma per action shows that the step keeps
each part. The refinement maps a commit to the one write of its request, a failing
end to `Fail`, a crash to `Fail` of all that ran, and everything else to a stutter;
`RowsOf` needs `TenantIsolation` of the staged rows, and `Unused` needs fresh ids.

**TaskRequests.** What is written at a commit depends on a row read several steps
before. `SnapshotOf` says what is still known of it: it was committed, it belongs to
the caller's tenant, the entity is the domain method applied to it, and its row is
still there with the same tenant. `CompletionsAreAnnounced` carries the
announcement from whoever completed the row through every snapshot of the
completed row to the no-op completion that finds the work done.
`ChangesAreIntendedOrStale` is an action property that follows from the invariant: a
dirty column that the command did not change holds its value of the snapshot.

**Registration.** `EmailsAreUnique` is a property of committed rows, decided when rows
were inserted: `StagedIsOwn` says that an email in an open transaction is in no
committed row of the tenant and in no other open transaction, which `Insert`
establishes (neither `Blocked` nor `Taken`) and a commit uses. `ClientsRegisterOnce`
keeps a client from meeting its own user, for `RefusedOnlyIfRegistered`. `Progress`
follows a run through a tenant: nothing of it committed while it is open,
`staged` and `todo` together all of its users, `todo` empty at the commit.

**RateLimit.** The counter of a client lies between two cardinalities: of the requests
it has counted and let through (`CountersBoundPassed`) and of all requests of the
client that may have reached Redis (`CountersAreCounted`). The first gives
`WithinLimit` when a request is served at `counter <= Limit`, the second
`RejectedForOwnRequests` when one is rejected. The steps are grouped into those that
leave the counters alone, those that count and those that forget.

**Staleness** (`TaskRequests`). `StaleInv` follows a reader from its SELECT to its fill: as
long as its row is the committed one, what it fills is current; a fill that is not is
recorded. A commit that makes an entry stale is of a request that owes its invalidation
(`owed`) until the entry is filled or dropped: an older write excuses nothing.

**Suggestions.** A visible row is settled because it was settled in its
transaction before the commit; the invariant says what a request at each stage has
staged and with which answer it will end. `PagesAreCounted` needs that rows are
only added and that the count is the second statement.

**Authentication.** A key set, in memory or still on its way, reflects the keys of some
moment not before its date: every key that it holds was published or has been withdrawn
since, every key it lacks was not or has been published since. `Fresh` then bounds the
age. The order of fetches does not enter, as a set overwrites another together with its
date. The two properties are actions and follow from the invariant at the step that judges.

**UserRoles.** A step of a handler stutters in `AuthSpec`, and one of authentication
changes nothing of the handlers, so the invariant of each part is kept by the steps of the
other. For `AcknowledgedRoleTookHold` the invariant says of a handler past `Refetch`
that an UPDATE not to be sent found the role in the row.

**Pages.** An offset counts rows, so the invariant speaks of the place of a row, the
number of rows before it among those that match. Where `created_at` orders a row, the
page that a statement returns contains it exactly if its place is in the window
(`PagesGoByPlace`, the one fact about the order and cardinalities, for every choice
among the rows that tie). A row not yet shown is ahead of the offset unless a row
before it left (`RowsAreAhead`), a shown one behind it unless another came in before it
(`RowsAreBehind`); a step of a writer moves a place down only with a row that left and
up only with one that came. A walk that meets neither shows the list.

**ApiServer.** What a caller is told was decided in earlier steps and further in: the
invariant follows a response from the layer that makes it, through the counter
(`CounterIsOutermost` reads the order off the stack), to the caller, and says of a probe
that carries bad news, or has waited too long, that it has met the trouble itself. A probe
that finds no connection proves that clients hold too many (`FullPoolIsTrouble`): by `TypeOK`
connections are held at two stages only, so all but the one of the other probe's ping are
theirs.

**Verdicts of the limiter.** The counter of a client is the cardinality of the requests
it has counted, so a verdict at an INCR depends on the present window alone: a bound in both
directions, where `WithinLimit` gives one and `RejectedForOwnRequests` looks back to the start.

**Rows and locks** (`TaskRequests`). A creation finds no row and an UPDATE always one, so
whoever changes a row that is there holds its lock. Nothing moves a row under an UPDATE, which is why
a lost update is always lost between the SELECT and the UPDATE.

**Refinements.** In all four the commit is the step that counts. `TaskVersions`: the flush (or the
second read that finds nothing to send) announces a completion, the commit writes the version, a hit or a
fill is the read, the invalidation tells "ok"; the invariant supplies that what is
written is of the caller's tenant, completed only if announced, and that what is read was
a version. `UserDirectory`: the lookup, the INSERT and its waiting are
stutters, since the unique index keeps a staged email free until the commit (`StagedIsOwn`);
a run has all users of its tenant staged by then (`TodoIsLeft`, `Progress`), and who is
turned away has somebody else's entry in front of it. `SuggestionLog`: the row is invisible
until it has its answer, and a page's total, counted some steps before its answer, is
still no more than there is (`TotalsAreShown`).

Proved, and checked by TLC on the instances of the runs before, but in no
configuration: `QuietWalksAreExact`, `LocksAreExclusive`, `LockedRowsAreStable`,
`TasksKeepTheirTenant`, `SettledRowsStay`, `WaitsAreShort`, `CountersAreExact`,
`VerdictsFitTheWindow`, `ImplementsTaskVersions`, `ImplementsUserDirectory`,
`ImplementsSuggestionLog`.

Model-checked only: liveness (`EveryUnitOfWorkEnds`, `EveryRequestEnds`,
`EventuallyCoherent`, `EveryRegistrationEnds`, `Recovers`), which needs ENABLED and fairness
and is out of the prover's reach. The refinements above are of safety: that a request
which was asked is also answered is the liveness of the runs.

## 7. Findings

- **A completed task can be reopened** (`completed_is_final`). An update that loaded
  the task as pending writes the old status back when a completion commits before
  its second `get`. `contexts/tasks/infrastructure/mappers/task_mapper.py:34-38`
  assigns every column; nothing (version column, row lock) orders the two.
- **A partly seeded database stays so** (`present_means_seeded`): a run that dies between
  two tenants leaves the first one committed; every later run conflicts on its first
  user and prints "Demo data already present; nothing to seed."
- **A counter can outlive its window** (`fixed_window`): a failure between INCR and
  EXPIRE leaves a key without lifetime, and the client is rejected for ever after.

What can leave the cache stale, a row skipped or a counter lasting is checked as
`StaleOnlyForKnownReasons`, `CachedRolesHaveCauses`, `SkippedOnlyForKnownReasons`,
`RepeatedOnlyForKnownReasons` and `LastingOnlyAfterFailure`: there is no other way.

Disagreements with the documents that were met while modelling and have no run of their own:

- A reader that read before a write fills the cache after the invalidation, so an entry
  may be stale for its lifetime; `docs/architecture/overview.md:27` says reads are
  invalidated on writes. (`staleFills` in `TaskRequests`.)
- A failed generation marks its row and raises, and the unit of work of the request
  rolls the row back; `tests/unit/ai/test_use_cases.py:39` has no transaction and
  expects it. (`StageAfterCaught` in `Suggestions`.)
- Redis being away lets every request pass the limiter, but makes `/health` answer 503,
  and both probes use it: after three failures the process is restarted.
- An exception that no handler maps is answered outside of `PrometheusMiddleware`, so
  `http_requests_total` ("Total HTTP requests") misses exactly the 500s.
- `users/domain/value_objects/role.py:1` says a role mirrors the Cognito group claim;
  `change_role` changes the row and no group, and the gate reads the group.
- `tasks list` and `users list` of the CLI iterate over a `Page`, which is not iterable,
  and end in a TypeError.

## 8. Not modelled

- `Task.start` and `repository.delete`: no use case calls them.
- Handlers of events: there is no subscriber in the code. Events are published before
  the commit, so one may announce what then fails to commit; nothing observes it.
- What is inside a token (signature, audience, expiry) and the Lambda that puts the
  groups into it: `JudgeToken` chooses among all outcomes.
- CORS and request ids, dependency injection, configuration, logging and telemetry:
  they set headers, wire objects and write lines, and change no state a property is about.
- Wording, serialisation and validation: a refusal is an outcome, a response a status.
- Values of columns beyond what a property tells apart; `updated_at`.
- Migrations and roles of the database. The policies are forced on the owner of the
  tables too (`migrations/policies/*.sql`), but bind no superuser. `Policy` of `UnitOfWork` is
  what they do for any other role. In the local deployment the application connects as a
  superuser: `infra/k8s/dependencies/base/postgres.yaml:21-22` makes its user the
  `POSTGRES_USER`. `TenantIsolation` says nothing of that deployment. The test of the policies
  takes a role of its own for this reason (`tests/integration/test_rls_isolation.py:55`).
- Requests without a tenant: every caller of `begin()` binds or passes one.
- Infrastructure as code and CI, except for the probes of the chart.
- Several replicas with one database, except in `RateLimit`: requests of `TaskRequests`,
  `Registration` and `UserRoles` do not share memory and may be on any of them.
- Clock values outside of `Authentication` and `Pages`: timeouts and lifetimes are
  events that may happen at any time.
