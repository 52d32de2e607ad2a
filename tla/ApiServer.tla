----------------------------- MODULE ApiServer ------------------------------
(***************************************************************************)
(* One replica of the API in its cluster: requests pass the middleware     *)
(* stack and hold a connection of the pool while their handler works, both *)
(* probes of the kubelet go to /health, which holds one of that same pool  *)
(* for its ping and then asks Redis, and the liveness probe restarts the   *)
(* process.  PostgreSQL and Redis fail and come back.  What a handler does *)
(* with its connection and how the limiter counts are other modules; the   *)
(* kubelet (Send, Answer, TimeOut, Terminate) is modelled from the chart.  *)
(***************************************************************************)
EXTENDS FiniteSets, Integers, Sequences

CONSTANTS
    Clients,    \* each sends one request after the other
    PoolLimit,  \* pool_size + max_overflow
    Threshold   \* failureThreshold of both probes

Probes == {"readiness", "liveness"}
Callers == Clients \cup Probes

ASSUME ClientsAreFinite == IsFiniteSet(Clients) /\ Clients \cap Probes = {}
ASSUME LimitsArePositive == PoolLimit \in Nat \ {0} /\ Threshold \in Nat \ {0}

VARIABLES
    process,    \* where the lifespan is
    database,   \* whether PostgreSQL answers
    redis,      \* whether Redis answers
    at,         \* where the request of each caller is
    holding,    \* the callers whose request has a connection of the pool
    status,     \* the response their request carries outwards
    counted,    \* the clients whose request http_requests_total includes
    told,       \* what the last request of a client was answered with
    failures,   \* consecutive failures of each probe
    late,       \* the probes that the kubelet no longer waits for
    ready,      \* whether the service sends clients to the replica
    troubled    \* history: probes that have met a replica that was not healthy

requests == <<at, holding, status, counted, told>>
kubelet == <<failures, late, ready>>
vars == <<process, database, redis, requests, kubelet, troubled>>

TypeOK ==
    /\ process \in {"starting", "serving", "stopping"}
    /\ database \in BOOLEAN /\ redis \in BOOLEAN /\ ready \in BOOLEAN
    /\ at \in [Callers -> {"idle", "limiter", "handler", "working", "pinging", "redis",
                          "answering"}]
    /\ holding = {c \in Callers : at[c] \in {"working", "pinging"}}
    /\ Cardinality(holding) <= PoolLimit
    /\ status \in [Callers -> {"none", "ok", "limited", "degraded", "crash"}]
    /\ counted \in SUBSET Clients
    /\ told \in [Clients -> {"none", "ok", "limited", "crash", "lost"}]
    /\ failures \in [Probes -> 0 .. Threshold]
    /\ late \in SUBSET Probes /\ troubled \in SUBSET Probes

Init ==
    /\ process = "starting"
    /\ database \in BOOLEAN
    /\ redis \in BOOLEAN
    /\ at = [c \in Callers |-> "idle"]
    /\ holding = {}
    /\ status = [c \in Callers |-> "none"]
    /\ counted = {}
    /\ told = [c \in Clients |-> "none"]
    /\ failures = [p \in Probes |-> 0]
    /\ late = {}
    /\ ready = FALSE
    /\ troubled = {}

-----------------------------------------------------------------------------
(***************************************************************************)
(* The lifespan, the middleware stack and the endpoints.                   *)
(***************************************************************************)
\* The startup pings the database and goes on whatever comes of it.
Startup ==
    /\ process = "starting"
    /\ process' = "serving"
    /\ UNCHANGED <<database, redis, requests, kubelet>>

\* Outermost first: what is added last.
Configured == <<"limiter", "handler">>
MountMetrics(stack) == <<"metrics">> \o stack

\* Mutant: the metrics added before the limiter, and so inside of it.
LimiterOutermost == <<"limiter", "metrics", "handler">>

\* create_api, which leaves the metrics for the end.
Stack == MountMetrics(Configured)

Depth(layer) == CHOOSE i \in DOMAIN Stack : Stack[i] = layer

Go(c, where) == at' = [at EXCEPT ![c] = where]

Free == Cardinality(holding) < PoolLimit

\* A response is made in a layer and counted on its way out.  An exception that
\* register_exception_handlers does not map passes the count by.
Respond(c, layer, s) ==
    /\ Go(c, "answering")
    /\ status' = [status EXCEPT ![c] = s]
    /\ counted' = counted \cup
                  {x \in {c} \cap Clients : s # "crash" /\ Depth("metrics") < Depth(layer)}

Arrive(c) ==
    /\ at[c] = "idle" /\ ready /\ process = "serving"
    /\ Go(c, "limiter")
    /\ told' = [told EXCEPT ![c] = "none"]
    /\ counted' = counted \ {c}
    /\ UNCHANGED <<process, database, redis, holding, status, kubelet>>

\* The limiter counts in Redis, and lets everyone pass without it.
Limit(c) ==
    /\ at[c] = "limiter"
    /\ \/ Go(c, "handler") /\ UNCHANGED <<status, counted>>
       \/ redis /\ Respond(c, "limiter", "limited")
    /\ UNCHANGED <<process, database, redis, holding, told, kubelet>>

\* The unit of work takes a connection.
Acquire(c) ==
    /\ c \in Clients /\ at[c] = "handler"
    /\ database /\ Free
    /\ holding' = holding \cup {c}
    /\ Go(c, "working")
    /\ UNCHANGED <<process, database, redis, status, counted, told, kubelet>>

\* It ends: served, or refused with a status, which a missing token or a cached
\* answer does without the database; or by any other exception, as when the
\* database is gone or the pool full for too long.
Finish(c) ==
    /\ c \in Clients
    /\ \/ at[c] = "handler" /\ Respond(c, "handler", "ok")
       \/ at[c] = "working" /\ database /\ Respond(c, "handler", "ok")
       \/ at[c] \in {"handler", "working"} /\ Respond(c, "handler", "crash")
    /\ holding' = holding \ {c}
    /\ UNCHANGED <<process, database, redis, told, kubelet>>

Tell(c) ==
    /\ c \in Clients /\ at[c] = "answering"
    /\ Go(c, "idle")
    /\ told' = [told EXCEPT ![c] = status[c]]
    /\ status' = [status EXCEPT ![c] = "none"]
    /\ UNCHANGED <<process, database, redis, holding, counted, kubelet>>

\* check_dependencies asks the database first: a connection of the pool, or an
\* error (the database is gone, the wait for the pool times out).
PingDatabase(p) ==
    /\ p \in Probes /\ at[p] = "handler"
    /\ \/ /\ database /\ Free
          /\ holding' = holding \cup {p}
          /\ Go(p, "pinging")
          /\ UNCHANGED status
       \/ /\ ~database \/ ~Free
          /\ status' = [status EXCEPT ![p] = "degraded"]
          /\ Go(p, "redis")
          /\ UNCHANGED holding
    /\ UNCHANGED <<process, database, redis, counted, told, kubelet>>

\* Mutant: ping() without the `async with` that gives the connection back.
EndPingLeaking(p) ==
    /\ at[p] = "pinging"
    /\ status' = [status EXCEPT ![p] = IF database THEN "none" ELSE "degraded"]
    /\ Go(p, "redis")
    /\ UNCHANGED <<process, database, redis, holding, counted, told, kubelet>>

\* SELECT 1 returns or raises, and the connection goes back either way.
EndPing(p) ==
    /\ at[p] = "pinging"
    /\ status' = [status EXCEPT ![p] = IF database THEN "none" ELSE "degraded"]
    /\ holding' = holding \ {p}
    /\ Go(p, "redis")
    /\ UNCHANGED <<process, database, redis, counted, told, kubelet>>

\* 200 only if both have answered.
Health(p) == IF redis /\ status[p] = "none" THEN "ok" ELSE "degraded"

\* Redis is asked whatever the database said.
PingRedis(p) ==
    /\ at[p] = "redis"
    /\ Respond(p, "handler", Health(p))
    /\ UNCHANGED <<process, database, redis, holding, told, kubelet>>

-----------------------------------------------------------------------------
(***************************************************************************)
(* The cluster.                                                            *)
(***************************************************************************)
\* The dependencies answer, and clients leave each of the probes a connection.
Healthy ==
    /\ database /\ redis
    /\ Cardinality(holding \cap Clients) + Cardinality(Probes) <= PoolLimit

DatabaseChanges ==
    /\ database' = ~database
    /\ UNCHANGED <<process, redis, requests, kubelet>>

RedisChanges ==
    /\ redis' = ~redis
    /\ UNCHANGED <<process, database, requests, kubelet>>

Succeed(p) ==
    /\ failures' = [failures EXCEPT ![p] = 0]
    /\ ready' = (ready \/ (p = "readiness" /\ process = "serving"))

\* The readiness probe takes the replica out of the service.
Fail(p) ==
    /\ failures' = [failures EXCEPT ![p] = IF @ < Threshold THEN @ + 1 ELSE @]
    /\ ready' = (ready /\ failures'["readiness"] < Threshold)

\* /health is exempt from the limit.
Send(p) ==
    /\ at[p] = "idle" /\ process = "serving"
    /\ failures["liveness"] < Threshold
    /\ Go(p, "handler")
    /\ UNCHANGED <<process, database, redis, holding, status, counted, told, kubelet>>

\* Nothing listens before the startup has ended.  It waits for nothing but the
\* database, and is over before the first probes (initialDelaySeconds) if that
\* answers.
Refuse(p) ==
    /\ process = "starting" /\ ~database
    /\ failures["liveness"] < Threshold
    /\ Fail(p)
    /\ UNCHANGED <<process, database, redis, requests, late>>

\* The answer of a probe, unless the kubelet has given up on it.
Answer(p) ==
    /\ at[p] = "answering"
    /\ \/ p \in late /\ UNCHANGED <<failures, ready>>
       \/ p \notin late /\ status[p] = "ok" /\ Succeed(p)
       \/ p \notin late /\ status[p] # "ok" /\ Fail(p)
    /\ late' = late \ {p}
    /\ Go(p, "idle")
    /\ status' = [status EXCEPT ![p] = "none"]
    /\ UNCHANGED <<process, database, redis, holding, counted, told>>

\* No answer within timeoutSeconds, because the handler waits for something.  The
\* handler stays in its queue, and the next probes queue behind it.
TimeOut(p) ==
    /\ \/ at[p] = "handler" /\ (~database \/ ~Free)
       \/ at[p] = "pinging" /\ ~database
       \/ at[p] = "redis" /\ ~redis
    /\ Fail(p)
    /\ late' = late \cup {p}
    /\ UNCHANGED <<process, database, redis, requests>>

\* The kubelet gives up on the process: it takes no more requests, and ends the
\* ones it has.
Terminate ==
    /\ failures["liveness"] = Threshold /\ process # "stopping"
    /\ process' = "stopping"
    /\ ready' = FALSE
    /\ UNCHANGED <<database, redis, requests, failures, late>>

\* The lifespan ends, disposing of the pool, or the grace period does: what is
\* still under way is lost.  A new process starts.
Exit ==
    /\ process = "stopping"
    /\ process' = "starting"
    /\ at' = [c \in Callers |-> "idle"]
    /\ holding' = {} /\ counted' = {} /\ late' = {}
    /\ status' = [c \in Callers |-> "none"]
    /\ told' = [c \in Clients |-> IF at[c] = "idle" THEN "none" ELSE "lost"]
    /\ failures' = [p \in Probes |-> 0]
    /\ UNCHANGED <<database, redis, ready>>

\* History: what the probes under way have met.
Watch ==
    troubled' = {p \in Probes : at'[p] # "idle" /\ (p \in troubled \/ ~Healthy \/ ~Healthy')}

Serve(c) ==
    \/ Limit(c) \/ Acquire(c) \/ Finish(c) \/ Tell(c)
    \/ PingDatabase(c) \/ EndPing(c) \/ PingRedis(c)

Step ==
    \/ Startup
    \/ \E c \in Clients : Arrive(c)
    \/ \E c \in Callers : Serve(c)
    \/ DatabaseChanges \/ RedisChanges
    \/ \E p \in Probes : Send(p) \/ Refuse(p) \/ Answer(p) \/ TimeOut(p)
    \/ Terminate \/ Exit

Next == Step /\ Watch

Spec == Init /\ [][Next]_vars

\* The event loop runs every handler on, and the kubelet goes on probing.
Fairness ==
    /\ WF_vars(Startup /\ Watch)
    /\ \A c \in Callers : WF_vars(Serve(c) /\ Watch)
    /\ \A p \in Probes : WF_vars((Send(p) \/ Answer(p)) /\ Watch)
    /\ WF_vars((Terminate \/ Exit) /\ Watch)

FairSpec == Spec /\ Fairness

-----------------------------------------------------------------------------
(***************************************************************************)
(* A probe fails, and with the liveness probe the process is killed in the *)
(* end, only if PostgreSQL or Redis was down, or clients left less of the  *)
(* pool than a connection for each probe, while it was under way: pings,   *)
(* late ones and those of the other probe included, do not wear it out.    *)
(***************************************************************************)
FailedProbesHaveACause ==
    [][\A p \in Probes : failures'[p] > failures[p] => p \in troubled \/ ~Healthy]_vars

(***************************************************************************)
(* http_requests_total includes every request that was answered by a       *)
(* handler or turned away by the limiter; what it misses are the crashes   *)
(* and what a restart has lost.                                            *)
(***************************************************************************)
AnsweredAreCounted ==
    \A c \in Clients : at[c] = "idle" /\ told[c] \in {"ok", "limited"} => c \in counted

(***************************************************************************)
(* Once the dependencies stay up and clients leave the probes their        *)
(* connections, the replica is back in the service for good, whatever its  *)
(* pings and restarts went through before.                                 *)
(***************************************************************************)
Recovers == <>[]Healthy => <>[]ready
=============================================================================
