----------------------------- MODULE RateLimit -----------------------------
(***************************************************************************)
(* RateLimitMiddleware: every request increments a counter in Redis under  *)
(* the key of its client; the one that finds it at 1 gives it the lifetime *)
(* of a window.  These are two commands with an await between, sent by     *)
(* any replica, so requests, failures and the end of a window come between *)
(* them.  Time is abstract: a counter with a lifetime expires at any time. *)
(***************************************************************************)
EXTENDS Naturals, FiniteSets

CONSTANTS
    Requests,
    Clients,   \* the addresses requests come from
    Limit,     \* rate_limit_requests
    NoClient

ASSUME LimitIsPositive == Limit \in Nat \ {0}
ASSUME NoClientIsNone == NoClient \notin Clients
ASSUME RequestsAreFinite == IsFiniteSet(Requests)

VARIABLES
    pc,        \* where dispatch() of each request is
    client,    \* the client of a request
    counter,   \* the counters in Redis; 0 is an absent key
    lifetime,  \* the counters that will expire
    outcome,   \* what dispatch() did with the request
    window     \* history: the requests counted by the counter of a client

vars == <<pc, client, counter, lifetime, outcome, window>>

\* Without an answer of Redis a request passes, or ends with its task.
Unanswered == {"unlimited", "aborted"}
Outcomes == {"none", "served", "rejected"} \cup Unanswered

TypeOK ==
    /\ pc \in [Requests -> {"new", "counting", "expiring", "done"}]
    /\ client \in [Requests -> Clients \cup {NoClient}]
    /\ counter \in [Clients -> Nat]
    /\ lifetime \in SUBSET Clients
    /\ outcome \in [Requests -> Outcomes]
    /\ window \in [Clients -> SUBSET Requests]

Init ==
    /\ pc = [r \in Requests |-> "new"]
    /\ client = [r \in Requests |-> NoClient]
    /\ counter = [c \in Clients |-> 0]
    /\ lifetime = {}
    /\ outcome = [r \in Requests |-> "none"]
    /\ window = [c \in Clients |-> {}]

-----------------------------------------------------------------------------
Goto(r, stage) == pc' = [pc EXCEPT ![r] = stage]

End(r, result) ==
    /\ Goto(r, "done")
    /\ outcome' = [outcome EXCEPT ![r] = result]

\* Mutant: one key for all clients.
SharedKey(c) == CHOOSE any \in Clients : TRUE

Key(c) == c

Receive(r, c) ==
    /\ pc[r] = "new"
    /\ client' = [client EXCEPT ![r] = c]
    /\ Goto(r, "counting")
    /\ UNCHANGED <<counter, lifetime, outcome, window>>

\* The limit is off, or the path is one of /health, /metrics and the docs.
ServeExempt(r) ==
    /\ pc[r] = "new"
    /\ End(r, "served")
    /\ UNCHANGED <<client, counter, lifetime, window>>

\* Mutant: an outcome of dispatch() the callers do not know.
VerdictLimited(count) == IF count > Limit THEN "limited" ELSE "served"

\* Mutant: an off-by-one in `count > limit`.
VerdictLate(count) == IF count > Limit + 1 THEN "rejected" ELSE "served"

Verdict(count) == IF count > Limit THEN "rejected" ELSE "served"

\* Mutant: every hit but the first gives the counter its lifetime.
StartsWindowLate(count) == count = 2

StartsWindow(count) == count = 1

Increment(r) ==
    LET key == Key(client[r]) IN
    /\ counter' = [counter EXCEPT ![key] = @ + 1]
    /\ window' = [window EXCEPT ![key] = @ \cup {r}]

\* INCR answers; what follows up to the next await is one step.
Count(r) ==
    LET count == counter[Key(client[r])] + 1 IN
    /\ pc[r] = "counting"
    /\ Increment(r)
    /\ \/ StartsWindow(count) /\ Goto(r, "expiring") /\ UNCHANGED outcome
       \/ ~StartsWindow(count) /\ End(r, Verdict(count))
    /\ UNCHANGED <<client, lifetime>>

\* EXPIRE of an absent key does nothing.
SetLifetime(key) == lifetime' = lifetime \cup {c \in {key} : counter[c] # 0}

StartWindow(r) ==
    /\ pc[r] = "expiring"
    /\ SetLifetime(Key(client[r]))
    /\ End(r, Verdict(1))
    /\ UNCHANGED <<client, counter, window>>

\* A command fails, or the request is cancelled or the replica dies at its await,
\* before the command runs or before its answer arrives: `except Exception` lets
\* the first pass and does not catch the others.
CountUnanswered(r) ==
    /\ pc[r] = "counting"
    /\ Increment(r) \/ UNCHANGED <<counter, window>>
    /\ \E result \in Unanswered : End(r, result)
    /\ UNCHANGED <<client, lifetime>>

StartUnanswered(r) ==
    /\ pc[r] = "expiring"
    /\ SetLifetime(Key(client[r])) \/ UNCHANGED lifetime
    /\ \E result \in Unanswered : End(r, result)
    /\ UNCHANGED <<client, counter, window>>

-----------------------------------------------------------------------------
\* Redis removes keys: the window is over, or the key was evicted.
Remove(c) ==
    /\ counter' = [counter EXCEPT ![c] = 0]
    /\ lifetime' = lifetime \ {c}
    /\ window' = [window EXCEPT ![c] = {}]
    /\ UNCHANGED <<pc, client, outcome>>

Expire(c) == c \in lifetime /\ Remove(c)

\* Redis restarts without its data.
Restart ==
    /\ \E c \in Clients : counter[c] # 0
    /\ counter' = [c \in Clients |-> 0]
    /\ lifetime' = {}
    /\ window' = [c \in Clients |-> {}]
    /\ UNCHANGED <<pc, client, outcome>>

Next ==
    \/ \E r \in Requests :
         \/ \E c \in Clients : Receive(r, c)
         \/ ServeExempt(r)
         \/ Count(r)
         \/ StartWindow(r)
         \/ CountUnanswered(r)
         \/ StartUnanswered(r)
    \/ \E c \in Clients : Expire(c)
    \/ Restart

Spec == Init /\ [][Next]_vars

-----------------------------------------------------------------------------
\* The requests counted by the counter of c that were let through.
Passed(c) == {r \in window[c] : outcome[r] = "served" \/ pc[r] = "expiring"}

\* Of the requests one counter has counted, over all replicas and whatever
\* order their commands reached Redis in, at most Limit are served.
WithinLimit == \A c \in Clients : Cardinality(Passed(c)) <= Limit

\* The requests of c whose INCR may have reached Redis.
Counted(c) == {r \in Requests : client[r] = c /\ pc[r] # "counting"}

\* A client is turned away for its own requests alone: at least Limit others of
\* the same client have been counted since the service started.
RejectedForOwnRequests ==
    \A r \in Requests :
        outcome[r] = "rejected" => Cardinality(Counted(client[r]) \ {r}) >= Limit

\* The one way for a counter to last for ever is a failure that hit a request
\* of its client; as long as none does, some request is about to set its life.
LastingOnlyAfterFailure ==
    \A c \in Clients :
        counter[c] # 0 /\ c \notin lifetime =>
            \E r \in Requests :
                client[r] = c /\ (pc[r] = "expiring" \/ outcome[r] \in Unanswered)

(***************************************************************************)
(* What the documentation says and the code does not keep.                 *)
(***************************************************************************)
\* A "fixed-window rate limit": a counter always has a window to its end, or a
\* request that is about to give it one.
FixedWindow ==
    \A c \in Clients :
        counter[c] # 0 /\ c \notin lifetime =>
            \E r \in Requests : client[r] = c /\ pc[r] = "expiring"
=============================================================================
