--------------------------- MODULE Authentication ---------------------------
(***************************************************************************)
(* Who may call the API: the key set that the one CognitoAuthenticator of  *)
(* a process keeps, the verification of bearer tokens against it by        *)
(* concurrent requests, and the gate on the admin group.  Cognito is the   *)
(* environment: it publishes and withdraws the keys it signs with.  The    *)
(* clock ticks between any two steps; the code between two awaits is one   *)
(* step.  What jwt.decode thinks of a token (signature, audience, issuer,  *)
(* expiry) and the groups in it are chosen freely when they are read.      *)
(***************************************************************************)
EXTENDS Integers

CONSTANTS
    Requests,    \* one HTTP request each
    Keys,        \* ids of signing keys
    Calls,       \* what a request asks for
    AdminCalls,  \* the calls behind require_role("admin")
    Ttl,         \* jwks_ttl
    Debug,       \* settings.debug
    MaxTime,     \* bound: the clock stops there
    MaxChanges,  \* bound: on the keys Cognito publishes and withdraws
    None

ASSUME AdminCallsAreCalls == AdminCalls \subseteq Calls
ASSUME NoneIsNoCall == None \notin Calls
ASSUME TtlIsPositive == Ttl \in Nat \ {0}
ASSUME BoundsAreNatural == MaxTime \in Nat /\ Ttl <= MaxTime /\ MaxChanges \in Nat
ASSUME DebugIsBoolean == Debug \in BOOLEAN

VARIABLES
    now,         \* time.monotonic()
    published,   \* the keys the JWKS endpoint serves
    since,       \* history: when each key was published last
    withdrawn,   \* history: when each key was withdrawn last
    changes,     \* how often the keys have changed, counted for the bound only
    jwks,        \* _jwks and _jwks_fetched_at of the authenticator
    phase,       \* where each request is
    call,        \* what it asks for
    credentials, \* what its headers say of the caller
    start,       \* `now` of its _get_jwks
    answer,      \* the key set of the response it waits for
    verdict      \* what became of it

environment == <<now, published, since, withdrawn, changes>>
authenticating == <<jwks, phase, call, credentials, start, answer, verdict>>
authVars == <<environment, authenticating>>

Times == 0 .. MaxTime
Phases == {"new", "verify", "fetch", "answered", "done"}
Verdicts == {"none", "admitted", "unauthenticated", "unknown_key", "forbidden", "error"}
KeySet == [keys : SUBSET Keys, at : Times]
Bearer == [kid : Keys]
\* Nothing of use, a token that does not parse, or X-Dev-Tenant and X-Dev-Roles,
\* the tenant perhaps no UUID.
Tokenless == [header : {"none", "malformed", "dev_admin", "dev_member", "dev_malformed"}]

AuthenticationTypeOK ==
    /\ now \in Times
    /\ published \in SUBSET Keys
    /\ since \in [Keys -> Times]
    /\ withdrawn \in [Keys -> Times]
    /\ changes \in 0 .. MaxChanges
    /\ jwks \in KeySet \cup {None}
    /\ phase \in [Requests -> Phases]
    /\ call \in [Requests -> Calls \cup {None}]
    /\ credentials \in [Requests -> Bearer \cup Tokenless \cup {None}]
    /\ start \in [Requests -> Times]
    /\ answer \in [Requests -> SUBSET Keys]
    /\ verdict \in [Requests -> Verdicts]

\* A fresh process.  At 0, longer ago than the key set lives, Cognito published
\* the keys it has, and no key has been withdrawn since.
AuthInit ==
    /\ now = Ttl
    /\ published \in SUBSET Keys
    /\ since = [k \in Keys |-> 0]
    /\ withdrawn = [k \in Keys |-> 0]
    /\ changes = 0
    /\ jwks = None
    /\ phase = [r \in Requests |-> "new"]
    /\ call = [r \in Requests |-> None]
    /\ credentials = [r \in Requests |-> None]
    /\ start = [r \in Requests |-> 0]
    /\ answer = [r \in Requests |-> {}]
    /\ verdict = [r \in Requests |-> "none"]

-----------------------------------------------------------------------------
(***************************************************************************)
(* The environment.                                                        *)
(***************************************************************************)
Tick ==
    /\ now < MaxTime
    /\ now' = now + 1
    /\ UNCHANGED <<published, since, withdrawn, changes, authenticating>>

Change ==
    /\ changes < MaxChanges
    /\ changes' = changes + 1
    /\ UNCHANGED <<now, authenticating>>

Publish(k) ==
    /\ k \notin published
    /\ published' = published \cup {k}
    /\ since' = [since EXCEPT ![k] = now]
    /\ Change
    /\ UNCHANGED withdrawn

Withdraw(k) ==
    /\ k \in published
    /\ published' = published \ {k}
    /\ withdrawn' = [withdrawn EXCEPT ![k] = now]
    /\ Change
    /\ UNCHANGED since

Environment == Tick \/ \E k \in Keys : Publish(k) \/ Withdraw(k)

-----------------------------------------------------------------------------
(***************************************************************************)
(* get_request_context and require_role.                                   *)
(***************************************************************************)
\* A token may name any key, the caller need not have it from Cognito.
Arrive(r, c) ==
    /\ phase[r] = "new"
    /\ \E given \in Bearer \cup Tokenless :
         credentials' = [credentials EXCEPT ![r] = given]
    /\ phase' = [phase EXCEPT ![r] = "verify"]
    /\ call' = [call EXCEPT ![r] = c]
    /\ UNCHANGED <<environment, jwks, start, answer, verdict>>

\* The request goes on with its verdict; what it was judged by is gone.
Judge(r, v) ==
    /\ verdict' = [verdict EXCEPT ![r] = v]
    /\ phase' = [phase EXCEPT ![r] = "done"]
    /\ credentials' = [credentials EXCEPT ![r] = None]
    /\ start' = [start EXCEPT ![r] = 0]
    /\ answer' = [answer EXCEPT ![r] = {}]

\* require_role, where the endpoint asks for it.
Gate(r, isAdmin) ==
    IF call[r] \in AdminCalls /\ ~isAdmin THEN "forbidden" ELSE "admitted"

\* Without a bearer token only the developer header counts, in debug mode.
Anonymous(r) ==
    LET header == credentials[r].header IN
    /\ phase[r] = "verify"
    /\ credentials[r] \in Tokenless
    /\ LET counts == Debug /\ header \notin {"none", "malformed"} IN
       \/ ~counts /\ Judge(r, "unauthenticated")
       \/ counts /\ header = "dev_malformed" /\ Judge(r, "error")
       \/ counts /\ header # "dev_malformed" /\ Judge(r, Gate(r, header = "dev_admin"))
    /\ UNCHANGED <<environment, jwks, call>>

\* verify, once it has the key set: a key that is not in it is not looked up
\* again, and a token that jwt.decode refuses is an invalid token.
JudgeToken(r, keys) ==
    \/ /\ credentials[r].kid \notin keys
       /\ Judge(r, "unknown_key")
    \/ /\ credentials[r].kid \in keys
       /\ \/ Judge(r, "unauthenticated")
          \/ \E isAdmin \in BOOLEAN : Judge(r, Gate(r, isAdmin))

\* Mutant: the key set is kept for as long as the process lives.
FreshForever(t) == jwks # None

Fresh(t) == jwks # None /\ t - jwks.at < Ttl

\* _get_jwks answers from memory.
VerifyFromMemory(r) ==
    /\ phase[r] = "verify"
    /\ credentials[r] \in Bearer
    /\ Fresh(now)
    /\ JudgeToken(r, jwks.keys)
    /\ UNCHANGED <<environment, jwks, call>>

\* _get_jwks notes the time and asks Cognito.
Fetch(r) ==
    /\ phase[r] = "verify"
    /\ credentials[r] \in Bearer
    /\ ~Fresh(now)
    /\ start' = [start EXCEPT ![r] = now]
    /\ phase' = [phase EXCEPT ![r] = "fetch"]
    /\ UNCHANGED <<environment, jwks, call, credentials, answer, verdict>>

\* The endpoint answers with the keys of that moment.
Answer(r) ==
    /\ phase[r] = "fetch"
    /\ answer' = [answer EXCEPT ![r] = published]
    /\ phase' = [phase EXCEPT ![r] = "answered"]
    /\ UNCHANGED <<environment, jwks, call, credentials, start, verdict>>

\* Mutant: the key set is dated by the time its response is handled.
StoreDatedOnArrival(r) == jwks' = [keys |-> answer[r], at |-> now]

\* Whatever another request has stored meanwhile is overwritten.
Store(r) == jwks' = [keys |-> answer[r], at |-> start[r]]

Resume(r) ==
    /\ phase[r] = "answered"
    /\ Store(r)
    /\ JudgeToken(r, answer[r])
    /\ UNCHANGED <<environment, call>>

\* No answer in time or an error status raises out of the handler; a body that
\* is no JSON is a ValueError, and so an invalid token.
FetchFails(r) ==
    /\ phase[r] \in {"fetch", "answered"}
    /\ Judge(r, "error") \/ Judge(r, "unauthenticated")
    /\ UNCHANGED <<environment, jwks, call>>

Authenticate(r) ==
    \/ \E c \in Calls : Arrive(r, c)
    \/ Anonymous(r) \/ VerifyFromMemory(r)
    \/ Fetch(r) \/ Answer(r) \/ Resume(r) \/ FetchFails(r)

AuthNext == Environment \/ \E r \in Requests : Authenticate(r)

AuthSpec == AuthInit /\ [][AuthNext]_authVars

-----------------------------------------------------------------------------
\* `now` of _get_jwks for the token judged in this step.
AskedAt(r) == IF phase[r] = "verify" THEN now ELSE start[r]

Ends(r, verdicts) ==
    credentials[r] \in Bearer /\ verdict[r] = "none" /\ verdict'[r] \in verdicts

(***************************************************************************)
(* A key that Cognito has withdrawn is trusted for less than jwks_ttl: a   *)
(* request that asks for the key set later than that is not let in by a    *)
(* token signed with it, however the fetches of others overtake its own.   *)
(***************************************************************************)
ForgetsRemovedKeys(r) ==
    Ends(r, {"admitted", "forbidden"}) =>
        \/ credentials[r].kid \in published
        \/ withdrawn[credentials[r].kid] > AskedAt(r) - Ttl

RemovedKeysAreForgotten == [][\A r \in Requests : ForgetsRemovedKeys(r)]_authVars

(***************************************************************************)
(* A new key is known after jwks_ttl: a request refused for a key that the *)
(* key set lacks asked for it less than that after the publication.        *)
(***************************************************************************)
LearnsKeys(r) ==
    Ends(r, {"unknown_key"}) =>
        \/ credentials[r].kid \notin published
        \/ since[credentials[r].kid] > AskedAt(r) - Ttl

KeysAreLearnedInTime == [][\A r \in Requests : LearnsKeys(r)]_authVars
=============================================================================
