-------------------------- MODULE ApiServerProofs ---------------------------
(***************************************************************************)
(* Safety of ApiServer for any number of clients, size of the pool and     *)
(* threshold of the probes.  What a caller is told was decided in earlier  *)
(* steps, so the invariant follows a response from the layer that makes it *)
(* to the caller: whether it has been counted, and what it has met.  That  *)
(* a full pool is trouble of the clients' making rests on TypeOK: nothing  *)
(* holds a connection but a handler at work and a ping under way.          *)
(***************************************************************************)
EXTENDS ApiServer, FiniteSetTheorems, SequenceTheorems, TLAPS

\* Where a request can be, and the status that it can carry there.
RequestsFit ==
    /\ \A c \in Clients :
         /\ at[c] \in {"idle", "limiter", "handler", "working", "answering"}
         /\ at[c] = "answering" => status[c] \in {"ok", "limited", "crash"}
    /\ \A p \in Probes :
         /\ at[p] \in {"idle", "handler", "pinging", "redis", "answering"}
         /\ at[p] \in {"idle", "handler", "pinging"} => status[p] = "none"
         /\ at[p] = "redis" => status[p] \in {"none", "degraded"}
         /\ at[p] = "answering" => status[p] \in {"ok", "degraded"}

\* A response that counts is in the counter before it is sent.
ResponsesAreCounted ==
    \A c \in Clients :
        at[c] = "answering" /\ status[c] \in {"ok", "limited"} => c \in counted

\* A probe carries bad news only of something that it has met.
TroubleIsMet == \A p \in Probes : status[p] = "degraded" => p \in troubled

IInv ==
    /\ TypeOK
    /\ RequestsFit
    /\ ResponsesAreCounted
    /\ AnsweredAreCounted
    /\ TroubleIsMet

USE ClientsAreFinite, LimitsArePositive

-----------------------------------------------------------------------------
(***************************************************************************)
(* Lemmas about the stack, the pool and the history.                       *)
(***************************************************************************)
\* The counter is outside of everything that makes a response.
LEMMA CounterIsOutermost ==
    /\ Depth("metrics") < Depth("limiter")
    /\ Depth("metrics") < Depth("handler")
<1>. DEFINE Layers == {"metrics", "limiter", "handler"}
<1>1. <<"metrics">> \in Seq(Layers) /\ <<"limiter", "handler">> \in Seq(Layers)
  OBVIOUS
<1>2. Stack \in Seq(Layers) /\ Len(Stack) = 3
  BY <1>1, ConcatProperties DEF Stack, MountMetrics, Configured
<1>3. Stack[1] = "metrics" /\ Stack[2] = "limiter" /\ Stack[3] = "handler"
  BY <1>1, ConcatProperties DEF Stack, MountMetrics, Configured
<1>4. Depth("metrics") = 1
  BY <1>2, <1>3 DEF Depth
<1>5. Depth("limiter") = 2
  BY <1>2, <1>3 DEF Depth
<1>6. Depth("handler") = 3
  BY <1>2, <1>3 DEF Depth
<1>. QED  BY <1>4, <1>5, <1>6

LEMMA CallersApart ==
    /\ Callers = Clients \cup Probes
    /\ \A c \in Clients, p \in Probes : c # p
  BY DEF Callers

LEMMA PoolIsBounded ==
    ASSUME TypeOK, NEW S \in SUBSET holding
    PROVE  IsFiniteSet(S) /\ Cardinality(S) \in Nat /\ Cardinality(S) <= PoolLimit
<1>1. IsFiniteSet(Probes)
  <2>1. IsFiniteSet({}) /\ Probes = ({} \cup {"readiness"}) \cup {"liveness"}
    BY FS_EmptySet DEF Probes
  <2>. QED  BY <2>1, FS_AddElement
<1>2. IsFiniteSet(Callers)
  BY <1>1, FS_Union DEF Callers
<1>3. IsFiniteSet(holding)
  BY <1>2, FS_Subset DEF TypeOK
<1>4. IsFiniteSet(S) /\ Cardinality(S) <= Cardinality(holding)
  BY <1>3, FS_Subset
<1>5. Cardinality(S) \in Nat /\ Cardinality(holding) \in Nat
  BY <1>3, <1>4, FS_CardinalityType
<1>. QED  BY <1>4, <1>5 DEF TypeOK

\* A probe that finds no connection misses one that clients should have left: all
\* others can hold at most the one of the other probe's ping.
LEMMA FullPoolIsTrouble ==
    ASSUME TypeOK, NEW p \in Probes, at[p] = "handler", ~Free
    PROVE  ~Healthy
<1>. DEFINE theirs == holding \cap Clients
<1>1. PICK q \in Probes : Probes = {p, q} /\ p # q
  BY DEF Probes
<1>2. Cardinality(Probes) = 2
  <2>1. IsFiniteSet({}) /\ Cardinality({}) = 0
    BY FS_EmptySet
  <2>2. IsFiniteSet({p}) /\ Cardinality({p}) = 1
    BY FS_Singleton
  <2>3. Cardinality({p} \cup {q}) = 2
    BY <1>1, <2>2, FS_AddElement
  <2>4. Probes = {p} \cup {q}
    BY <1>1
  <2>. QED  BY <2>3, <2>4
<1>3. holding \subseteq theirs \cup {q}
  BY <1>1 DEF TypeOK, Callers
<1>4. IsFiniteSet(theirs) /\ Cardinality(theirs) \in Nat /\ Cardinality(holding) \in Nat
  BY PoolIsBounded
<1>5. IsFiniteSet(theirs \cup {q}) /\ Cardinality(theirs \cup {q}) <= Cardinality(theirs) + 1
  <2>1. Cardinality(theirs \cup {q})
          = IF q \in theirs THEN Cardinality(theirs) ELSE Cardinality(theirs) + 1
    BY <1>4, FS_AddElement
  <2>2. IsFiniteSet(theirs \cup {q})
    BY <1>4, FS_AddElement
  <2>. QED  BY ONLY <1>4, <2>1, <2>2
<1>6. Cardinality(theirs \cup {q}) \in Nat
  BY <1>5, FS_CardinalityType
<1>7. Cardinality(holding) <= Cardinality(theirs) + 1
  <2>1. Cardinality(holding) <= Cardinality(theirs \cup {q})
    BY <1>3, <1>5, FS_Subset
  <2>. QED  BY <1>4, <1>5, <1>6, <2>1
<1>8. Cardinality(holding) >= PoolLimit
  BY <1>4 DEF Free
<1>. QED  BY <1>2, <1>4, <1>7, <1>8 DEF Healthy

\* Taking a free connection keeps the pool within its limit.
LEMMA OneMoreFits ==
    ASSUME TypeOK, NEW c \in Callers, Free
    PROVE  Cardinality(holding \cup {c}) <= PoolLimit
<1>1. IsFiniteSet(holding) /\ Cardinality(holding) \in Nat
  BY PoolIsBounded
<1>2. Cardinality(holding \cup {c})
        = IF c \in holding THEN Cardinality(holding) ELSE Cardinality(holding) + 1
  BY <1>1, FS_AddElement
<1>. QED  BY <1>1, <1>2 DEF Free

LEMMA TroubleStays ==
    ASSUME Watch, NEW p \in Probes, at'[p] # "idle", p \in troubled \/ ~Healthy \/ ~Healthy'
    PROVE  p \in troubled'
  BY DEF Watch

\* What Respond leaves behind, from a layer that makes responses.
LEMMA RespondCounts ==
    ASSUME TypeOK, NEW c \in Callers, NEW layer \in {"limiter", "handler"},
           NEW s \in {"ok", "limited", "degraded", "crash"}, Respond(c, layer, s)
    PROVE  /\ at' = [at EXCEPT ![c] = "answering"]
           /\ status' = [status EXCEPT ![c] = s]
           /\ counted' = counted \cup {x \in {c} \cap Clients : s # "crash"}
<1>1. Depth("metrics") < Depth(layer)
  BY CounterIsOutermost
<1>. QED  BY <1>1 DEF Respond, Go

-----------------------------------------------------------------------------
(***************************************************************************)
(* The initial states.                                                     *)
(***************************************************************************)
LEMMA InitEstablishes == Init => IInv
<1>. SUFFICES ASSUME Init PROVE IInv
  OBVIOUS
<1>1. holding = {} /\ Cardinality(holding) = 0
  BY FS_EmptySet DEF Init
<1>2. TypeOK
  <2>1. failures \in [Probes -> 0 .. Threshold]
    BY DEF Init
  <2>2. /\ holding = {c \in Callers : at[c] \in {"working", "pinging"}}
        /\ Cardinality(holding) <= PoolLimit
    BY <1>1 DEF Init
  <2>. QED  BY <2>1, <2>2, CallersApart DEF Init, TypeOK
<1>3. RequestsFit
  BY CallersApart DEF Init, RequestsFit
<1>4. ResponsesAreCounted /\ AnsweredAreCounted /\ TroubleIsMet
  BY CallersApart DEF Init, ResponsesAreCounted, AnsweredAreCounted, TroubleIsMet
<1>. QED  BY <1>2, <1>3, <1>4 DEF IInv

-----------------------------------------------------------------------------
(***************************************************************************)
(* The steps.  Each lemma is about one kind of caller or about the parts   *)
(* of the system that have no request of their own.                        *)
(***************************************************************************)
\* A verdict of the kubelet on a probe keeps its count and `ready` to their types.
LEMMA VerdictTypes ==
    ASSUME TypeOK, NEW p \in Probes, Succeed(p) \/ Fail(p)
    PROVE  failures' \in [Probes -> 0 .. Threshold] /\ ready' \in BOOLEAN
<1>1. CASE Succeed(p)
  <2>1. 0 \in 0 .. Threshold
    OBVIOUS
  <2>2. failures' \in [Probes -> 0 .. Threshold]
    BY <1>1, <2>1 DEF Succeed, TypeOK
  <2>3. ready' \in BOOLEAN
    BY <1>1 DEF Succeed, TypeOK
  <2>. QED  BY <2>2, <2>3
<1>2. CASE Fail(p)
  <2>1. failures[p] \in 0 .. Threshold
    BY DEF TypeOK
  <2>2. (IF failures[p] < Threshold THEN failures[p] + 1 ELSE failures[p]) \in 0 .. Threshold
    BY <2>1
  <2>3. failures' \in [Probes -> 0 .. Threshold]
    BY <1>2, <2>2 DEF Fail, TypeOK
  <2>4. ready' \in BOOLEAN
    BY <1>2 DEF Fail, TypeOK
  <2>. QED  BY <2>3, <2>4
<1>. QED  BY <1>1, <1>2

\* Steps that leave every request where it is.
LEMMA AroundRequests ==
    ASSUME IInv, Watch, UNCHANGED requests,
           \/ Startup \/ DatabaseChanges \/ RedisChanges \/ Terminate
           \/ \E p \in Probes : TimeOut(p) \/ Refuse(p)
    PROVE  IInv'
<1>1. TypeOK'
  <2>. USE DEF IInv, requests, kubelet
  <2>1. troubled' \in SUBSET Probes
    BY DEF Watch
  <2>2. CASE Startup \/ DatabaseChanges \/ RedisChanges \/ Terminate
    BY <2>1, <2>2 DEF TypeOK, Startup, DatabaseChanges, RedisChanges, Terminate
  <2>3. CASE \E p \in Probes : TimeOut(p) \/ Refuse(p)
    <3>1. PICK p \in Probes : TimeOut(p) \/ Refuse(p)
      BY <2>3
    <3>2. failures' \in [Probes -> 0 .. Threshold] /\ ready' \in BOOLEAN
      BY <3>1, VerdictTypes DEF TimeOut, Refuse
    <3>. QED  BY <2>1, <3>1, <3>2 DEF TypeOK, TimeOut, Refuse
  <2>. QED  BY <2>2, <2>3
<1>2. RequestsFit' /\ ResponsesAreCounted' /\ AnsweredAreCounted'
  BY DEF IInv, requests, RequestsFit, ResponsesAreCounted, AnsweredAreCounted
<1>3. TroubleIsMet'
  BY DEF IInv, RequestsFit, TroubleIsMet, requests, Watch
<1>. QED  BY <1>1, <1>2, <1>3 DEF IInv

\* A step of a client's request.
ServeClient(c) == Arrive(c) \/ Limit(c) \/ Acquire(c) \/ Finish(c) \/ Tell(c)

LEMMA ClientHolds ==
    ASSUME IInv, NEW c \in Clients, ServeClient(c)
    PROVE  /\ holding' = {x \in Callers : at'[x] \in {"working", "pinging"}}
           /\ Cardinality(holding') <= PoolLimit
<1>. USE DEF IInv, TypeOK, RequestsFit
<1>1. CASE Acquire(c)
  <2>1. holding' = holding \cup {c} /\ at' = [at EXCEPT ![c] = "working"]
    BY <1>1 DEF Acquire, Go
  <2>. QED  BY <1>1, <2>1, CallersApart, OneMoreFits DEF Acquire
<1>2. CASE Finish(c)
  <2>1. holding' = holding \ {c} /\ at' = [at EXCEPT ![c] = "answering"]
    BY <1>2 DEF Finish, Respond, Go
  <2>. QED  BY <2>1, CallersApart, PoolIsBounded
<1>3. CASE Arrive(c) \/ Limit(c) \/ Tell(c)
  <2>1. PICK stage \in {"idle", "limiter", "handler", "answering"} :
           at' = [at EXCEPT ![c] = stage]
    BY <1>3 DEF Arrive, Limit, Tell, Go, Respond
  <2>2. holding' = holding /\ at[c] \notin {"working", "pinging"}
    BY <1>3 DEF Arrive, Limit, Tell
  <2>. QED  BY <2>1, <2>2, CallersApart
<1>. QED  BY <1>1, <1>2, <1>3 DEF ServeClient

LEMMA ClientTypes ==
    ASSUME IInv, Watch, NEW c \in Clients, ServeClient(c)
    PROVE  TypeOK'
<1>1. troubled' \in SUBSET Probes
  BY DEF Watch
<1>2. /\ holding' = {x \in Callers : at'[x] \in {"working", "pinging"}}
      /\ Cardinality(holding') <= PoolLimit
  BY ClientHolds
<1>. USE DEF IInv, TypeOK, RequestsFit, kubelet
<1>3. CASE Arrive(c)
  BY <1>1, <1>2, <1>3, CallersApart DEF Arrive, Go
<1>4. CASE Limit(c) /\ Go(c, "handler") /\ UNCHANGED <<status, counted>>
  BY <1>1, <1>2, <1>4, CallersApart DEF Limit, Go
<1>5. CASE Limit(c) /\ Respond(c, "limiter", "limited")
  BY <1>1, <1>2, <1>5, CallersApart, RespondCounts DEF Limit
<1>6. CASE Acquire(c)
  BY <1>1, <1>2, <1>6, CallersApart DEF Acquire, Go
<1>7. CASE Finish(c)
  <2>1. PICK s \in {"ok", "crash"} : Respond(c, "handler", s)
    BY <1>7 DEF Finish
  <2>. QED  BY <1>1, <1>2, <1>7, <2>1, CallersApart, RespondCounts DEF Finish
<1>8. CASE Tell(c)
  BY <1>1, <1>2, <1>8, CallersApart DEF Tell, Go
<1>. QED  BY <1>3, <1>4, <1>5, <1>6, <1>7, <1>8 DEF ServeClient, Limit

LEMMA ClientPreserves ==
    ASSUME IInv, Watch, NEW c \in Clients, ServeClient(c)
    PROVE  IInv'
<1>1. TypeOK'
  BY ClientTypes
<1>2. \A x \in Callers \ {c} :
         /\ at'[x] = at[x] /\ status'[x] = status[x]
         /\ x \in counted' <=> x \in counted
         /\ x \in Clients => told'[x] = told[x]
  BY CallersApart DEF IInv, TypeOK, ServeClient, Arrive, Limit, Acquire, Finish, Tell, Go, Respond
<1>3. /\ at'[c] \in {"idle", "limiter", "handler", "working", "answering"}
      /\ at'[c] = "answering" => status'[c] \in {"ok", "limited", "crash"}
      /\ at'[c] = "answering" /\ status'[c] # "crash" => c \in counted'
      /\ at'[c] = "idle" /\ told'[c] \in {"ok", "limited"} => c \in counted'
  <2>. USE DEF IInv, TypeOK, RequestsFit, ResponsesAreCounted
  <2>1. CASE Arrive(c)
    BY <2>1, CallersApart DEF Arrive, Go
  <2>2. CASE Limit(c) /\ Go(c, "handler") /\ UNCHANGED <<status, counted>>
    BY <2>2, CallersApart DEF Limit, Go
  <2>3. CASE Limit(c) /\ Respond(c, "limiter", "limited")
    BY <2>3, CallersApart, RespondCounts
  <2>4. CASE Acquire(c)
    BY <2>4, CallersApart DEF Acquire, Go
  <2>5. CASE Finish(c)
    <3>1. PICK s \in {"ok", "crash"} : Respond(c, "handler", s)
      BY <2>5 DEF Finish
    <3>. QED  BY <3>1, CallersApart, RespondCounts
  <2>6. CASE Tell(c)
    BY <2>6, CallersApart DEF Tell, Go
  <2>. QED  BY <2>1, <2>2, <2>3, <2>4, <2>5, <2>6 DEF ServeClient, Limit
<1>4. RequestsFit'
  BY <1>2, <1>3, CallersApart DEF IInv, RequestsFit
<1>5. ResponsesAreCounted' /\ AnsweredAreCounted'
  BY <1>2, <1>3, CallersApart DEF IInv, ResponsesAreCounted, AnsweredAreCounted
<1>6. TroubleIsMet'
  BY <1>2, CallersApart DEF IInv, RequestsFit, TroubleIsMet, Watch
<1>. QED  BY <1>1, <1>4, <1>5, <1>6 DEF IInv

\* A step of a probe's request, which ends with the answer at the kubelet.
ServeProbe(p) == Send(p) \/ PingDatabase(p) \/ EndPing(p) \/ PingRedis(p) \/ Answer(p)

LEMMA ProbeHolds ==
    ASSUME IInv, NEW p \in Probes, ServeProbe(p)
    PROVE  /\ holding' = {x \in Callers : at'[x] \in {"working", "pinging"}}
           /\ Cardinality(holding') <= PoolLimit
<1>. USE DEF IInv, TypeOK, RequestsFit
<1>1. CASE PingDatabase(p) /\ at'[p] = "pinging"
  <2>1. holding' = holding \cup {p} /\ at' = [at EXCEPT ![p] = "pinging"] /\ Free
    BY <1>1, CallersApart DEF PingDatabase, Go
  <2>. QED  BY <2>1, CallersApart, OneMoreFits
<1>2. CASE EndPing(p)
  <2>1. holding' = holding \ {p} /\ at' = [at EXCEPT ![p] = "redis"]
    BY <1>2 DEF EndPing, Go
  <2>. QED  BY <2>1, CallersApart, PoolIsBounded
<1>3. CASE Send(p) \/ (PingDatabase(p) /\ at'[p] # "pinging") \/ PingRedis(p) \/ Answer(p)
  <2>1. PICK stage \in {"idle", "handler", "redis", "answering"} :
           at' = [at EXCEPT ![p] = stage]
    BY <1>3, CallersApart DEF Send, PingDatabase, PingRedis, Answer, Go, Respond
  <2>2. holding' = holding /\ at[p] \notin {"working", "pinging"}
    BY <1>3, CallersApart DEF Send, PingDatabase, PingRedis, Answer, Go
  <2>. QED  BY <2>1, <2>2, CallersApart
<1>. QED  BY <1>1, <1>2, <1>3 DEF ServeProbe

LEMMA ProbePreserves ==
    ASSUME IInv, Watch, NEW p \in Probes, ServeProbe(p)
    PROVE  IInv'
<1>. USE DEF IInv, TypeOK, RequestsFit, kubelet
<1>1. /\ troubled' \in SUBSET Probes
      /\ holding' = {x \in Callers : at'[x] \in {"working", "pinging"}}
      /\ Cardinality(holding') <= PoolLimit
  BY ProbeHolds DEF Watch
<1>2. TypeOK'
  <2>1. CASE Send(p)
    BY <1>1, <2>1, CallersApart DEF Send, Go
  <2>2. CASE PingDatabase(p)
    BY <1>1, <2>2, CallersApart DEF PingDatabase, Go
  <2>3. CASE EndPing(p)
    BY <1>1, <2>3, CallersApart DEF EndPing, Go
  <2>4. CASE PingRedis(p)
    <3>1. Respond(p, "handler", Health(p)) /\ Health(p) \in {"ok", "degraded"}
      BY <2>4 DEF PingRedis, Health
    <3>. QED  BY <1>1, <2>4, <3>1, CallersApart, RespondCounts DEF PingRedis
  <2>5. CASE Answer(p)
    <3>1. failures' \in [Probes -> 0 .. Threshold] /\ ready' \in BOOLEAN
      BY <2>5, VerdictTypes DEF Answer
    <3>. QED  BY <1>1, <2>5, <3>1, CallersApart DEF Answer, Go
  <2>. QED  BY <2>1, <2>2, <2>3, <2>4, <2>5 DEF ServeProbe
<1>3. \A x \in Callers \ {p} :
         /\ at'[x] = at[x] /\ status'[x] = status[x]
         /\ x \in counted' <=> x \in counted
  BY CallersApart DEF ServeProbe, Send, PingDatabase, EndPing, PingRedis, Answer, Go, Respond
<1>4. told' = told
  BY DEF ServeProbe, Send, PingDatabase, EndPing, PingRedis, Answer
<1>5. /\ at'[p] \in {"idle", "handler", "pinging", "redis", "answering"}
      /\ at'[p] \in {"idle", "handler", "pinging"} => status'[p] = "none"
      /\ at'[p] = "redis" => status'[p] \in {"none", "degraded"}
      /\ at'[p] = "answering" => status'[p] \in {"ok", "degraded"}
      /\ status'[p] = "degraded" => p \in troubled'
  <2>. USE DEF TroubleIsMet
  <2>1. CASE Send(p)
    BY <2>1, CallersApart DEF Send, Go
  <2>2. CASE PingDatabase(p)
    BY <2>2, CallersApart, FullPoolIsTrouble, TroubleStays DEF PingDatabase, Go, Healthy
  <2>3. CASE EndPing(p)
    BY <2>3, CallersApart, TroubleStays DEF EndPing, Go, Healthy
  <2>4. CASE PingRedis(p)
    <3>1. Respond(p, "handler", Health(p)) /\ Health(p) \in {"ok", "degraded"}
      BY <2>4 DEF PingRedis, Health
    <3>2. Health(p) = "degraded" => p \in troubled \/ ~Healthy
      BY <2>4 DEF PingRedis, Health, Healthy
    <3>. QED  BY <3>1, <3>2, CallersApart, RespondCounts, TroubleStays
  <2>5. CASE Answer(p)
    BY <2>5, CallersApart DEF Answer, Go
  <2>. QED  BY <2>1, <2>2, <2>3, <2>4, <2>5 DEF ServeProbe
<1>6. RequestsFit'
  BY <1>3, <1>5, CallersApart
<1>7. ResponsesAreCounted' /\ AnsweredAreCounted'
  BY <1>3, <1>4, CallersApart DEF ResponsesAreCounted, AnsweredAreCounted
<1>8. TroubleIsMet'
  BY <1>3, <1>5, CallersApart DEF TroubleIsMet, Watch
<1>. QED  BY <1>2, <1>6, <1>7, <1>8

LEMMA ExitPreserves ==
    ASSUME IInv, Watch, Exit
    PROVE  IInv'
<1>1. holding' = {} /\ Cardinality(holding') = 0
  BY FS_EmptySet DEF Exit
<1>2. TypeOK'
  BY <1>1, CallersApart DEF IInv, TypeOK, Exit, Watch
<1>3. RequestsFit' /\ ResponsesAreCounted' /\ AnsweredAreCounted' /\ TroubleIsMet'
  BY CallersApart
     DEF Exit, RequestsFit, ResponsesAreCounted, AnsweredAreCounted, TroubleIsMet
<1>. QED  BY <1>2, <1>3 DEF IInv

\* Every step is one of these.
LEMMA StepsByCaller ==
    ASSUME IInv, Step
    PROVE  \/ UNCHANGED requests /\ (Startup \/ DatabaseChanges \/ RedisChanges \/ Terminate)
           \/ \E p \in Probes : UNCHANGED requests /\ (TimeOut(p) \/ Refuse(p))
           \/ \E c \in Clients : ServeClient(c)
           \/ \E p \in Probes : ServeProbe(p)
           \/ Exit
<1>1. ASSUME NEW c \in Callers, Serve(c)
      PROVE  \/ c \in Clients /\ ServeClient(c)
             \/ c \in Probes /\ ServeProbe(c)
  BY <1>1, CallersApart
     DEF IInv, RequestsFit, Serve, ServeClient, ServeProbe, Limit, Acquire, Finish, Tell,
         PingDatabase, EndPing, PingRedis
<1>. QED
  BY <1>1 DEF Step, ServeClient, ServeProbe, Startup, DatabaseChanges, RedisChanges,
     Terminate, TimeOut, Refuse

LEMMA NextPreserves == IInv /\ [Next]_vars => IInv'
<1>. SUFFICES ASSUME IInv, [Next]_vars PROVE IInv'
  OBVIOUS
<1>1. CASE UNCHANGED vars
  BY <1>1 DEF vars, requests, kubelet, IInv, TypeOK, RequestsFit, ResponsesAreCounted,
     AnsweredAreCounted, TroubleIsMet
<1>2. CASE Next
  BY <1>2, StepsByCaller, AroundRequests, ClientPreserves, ProbePreserves, ExitPreserves
     DEF Next
<1>. QED  BY <1>1, <1>2

-----------------------------------------------------------------------------
(***************************************************************************)
(* The invariant that the results below rest on.                           *)
(***************************************************************************)
THEOREM Safe == Spec => []IInv
  BY InitEstablishes, NextPreserves, PTL DEF Spec

(***************************************************************************)
(* Every variable keeps to its type: in particular requests never hold     *)
(* more connections than the pool has.                                     *)
(***************************************************************************)
THEOREM TypesAreKept == Spec => []TypeOK
  BY Safe, PTL DEF IInv

(***************************************************************************)
(* http_requests_total includes every request that was answered by a       *)
(* handler or turned away by the limiter.                                  *)
(***************************************************************************)
THEOREM AnswersAreInTheCounter == Spec => []AnsweredAreCounted
  BY Safe, PTL DEF IInv

LEMMA FailingStep ==
    ASSUME IInv, Next, NEW p \in Probes, failures'[p] > failures[p]
    PROVE  p \in troubled \/ ~Healthy
<1>. USE DEF IInv, TypeOK, RequestsFit
<1>1. \/ \E q \in Probes : Answer(q)
      \/ \E q \in Probes : TimeOut(q)
      \/ \E q \in Probes : Refuse(q)
  <2>. SUFFICES ASSUME \A q \in Probes : ~Answer(q) /\ ~TimeOut(q) /\ ~Refuse(q)
                PROVE  failures' = failures \/ failures' = [q \in Probes |-> 0]
    OBVIOUS
  <2>. QED
    BY DEF Next, Step, Startup, Arrive, Serve, Limit, Acquire, Finish, Tell, PingDatabase,
       EndPing, PingRedis, DatabaseChanges, RedisChanges, Send, Terminate, Exit, kubelet
<1>2. CASE \E q \in Probes : Answer(q)
  <2>1. PICK q \in Probes : Answer(q)
    BY <1>2
  <2>2. p = q /\ at[p] = "answering" /\ status[p] # "ok"
    BY <2>1 DEF Answer, Succeed, Fail
  <2>. QED  BY <2>2 DEF TroubleIsMet
<1>3. CASE \E q \in Probes : TimeOut(q)
  <2>1. PICK q \in Probes : TimeOut(q)
    BY <1>3
  <2>. QED  BY <2>1, FullPoolIsTrouble DEF TimeOut, Healthy
<1>4. CASE \E q \in Probes : Refuse(q)
  BY <1>4 DEF Refuse, Healthy
<1>. QED  BY <1>1, <1>2, <1>3, <1>4

(***************************************************************************)
(* A probe fails only if PostgreSQL or Redis was down, or clients left the *)
(* probes less than a connection each, while it was under way, for any     *)
(* number of clients, size of the pool and threshold.                      *)
(***************************************************************************)
THEOREM ProbesFailForACause == Spec => FailedProbesHaveACause
<1>1. IInv /\ [Next]_vars =>
        [\A p \in Probes : failures'[p] > failures[p] => p \in troubled \/ ~Healthy]_vars
  BY FailingStep
<1>. QED  BY <1>1, Safe, PTL DEF Spec, FailedProbesHaveACause
=============================================================================
