-------------------------- MODULE UserRolesProofs ---------------------------
(***************************************************************************)
(* Safety of Authentication for every number of requests and keys, every   *)
(* life time of the key set and every bound.  A key set, in the memory of  *)
(* the authenticator or in a response under way, differs from what Cognito *)
(* publishes by changes that are no older than the time it is dated with:  *)
(* it is dated before the endpoint reads its keys.                         *)
(***************************************************************************)
EXTENDS UserRoles, TLAPS

\* keys is the published set but for changes made at t or later.
Reflects(keys, t) ==
    \A k \in Keys :
        /\ k \in keys => k \in published \/ withdrawn[k] >= t
        /\ k \notin keys => k \notin published \/ since[k] >= t

NothingIsDatedAhead ==
    /\ jwks # None => jwks.at <= now
    /\ \A r \in Requests : phase[r] \in {"fetch", "answered"} => start[r] <= now

JwksReflects == jwks # None => Reflects(jwks.keys, jwks.at)

AnswersReflect ==
    \A r \in Requests : phase[r] = "answered" => Reflects(answer[r], start[r])

\* Whoever waits for the key set sent a token.
FetchersHaveTokens ==
    \A r \in Requests : phase[r] \in {"fetch", "answered"} => credentials[r] \in Bearer

IInv ==
    /\ AuthenticationTypeOK
    /\ NothingIsDatedAhead
    /\ JwksReflects
    /\ AnswersReflect
    /\ FetchersHaveTokens

USE AdminCallsAreCalls, NoneIsNoCall, TtlIsPositive, BoundsAreNatural, DebugIsBoolean

-----------------------------------------------------------------------------
LEMMA InitEstablishes == AuthInit => IInv
  BY DEF AuthInit, IInv, AuthenticationTypeOK, Times, Phases, Verdicts, NothingIsDatedAhead,
     JwksReflects, AnswersReflect, FetchersHaveTokens

\* A change of the keys happens now, so no key set is dated after it.
LEMMA ChangesStayReflected ==
    ASSUME AuthenticationTypeOK, NEW keys \in SUBSET Keys, NEW t \in Times, t <= now,
           Reflects(keys, t), NEW k \in Keys, Publish(k) \/ Withdraw(k)
    PROVE  Reflects(keys, t)'
<1>1. CASE Publish(k)
  BY <1>1 DEF AuthenticationTypeOK, Times, Reflects, Publish, Change, authenticating
<1>2. CASE Withdraw(k)
  BY <1>2 DEF AuthenticationTypeOK, Times, Reflects, Withdraw, Change, authenticating
<1>. QED  BY <1>1, <1>2

LEMMA EnvironmentPreserves ==
    ASSUME IInv, Environment
    PROVE  IInv'
<1>1. CASE Tick
  <2>1. /\ now' = now + 1 /\ now < MaxTime
        /\ UNCHANGED <<published, since, withdrawn, changes, authenticating>>
    BY <1>1 DEF Tick
  <2>2. now \in Nat /\ now' \in Times /\ \A t \in Times : t <= now => t <= now'
    BY <2>1 DEF IInv, AuthenticationTypeOK, Times
  <2>3. AuthenticationTypeOK'
    BY <2>1, <2>2 DEF IInv, AuthenticationTypeOK, authenticating
  <2>4. NothingIsDatedAhead'
    BY <2>1, <2>2 DEF IInv, AuthenticationTypeOK, NothingIsDatedAhead, KeySet, authenticating
  <2>5. JwksReflects' /\ AnswersReflect' /\ FetchersHaveTokens'
    BY <2>1 DEF IInv, JwksReflects, AnswersReflect, FetchersHaveTokens, Reflects,
       authenticating
  <2>. QED  BY <2>3, <2>4, <2>5 DEF IInv
<1>2. CASE \E k \in Keys : Publish(k) \/ Withdraw(k)
  <2>. PICK k \in Keys : Publish(k) \/ Withdraw(k)
    BY <1>2
  <2>1. AuthenticationTypeOK'
    BY DEF IInv, AuthenticationTypeOK, Times, Publish, Withdraw, Change, authenticating
  <2>2. UNCHANGED <<now, authenticating>>
    BY DEF Publish, Withdraw, Change
  <2>3. NothingIsDatedAhead' /\ FetchersHaveTokens'
    BY <2>2 DEF IInv, NothingIsDatedAhead, FetchersHaveTokens, authenticating
  <2>4. JwksReflects'
    <3>1. ASSUME jwks # None
          PROVE  Reflects(jwks.keys, jwks.at)'
      <4>1. jwks.keys \in SUBSET Keys /\ jwks.at \in Times /\ jwks.at <= now
        BY <3>1 DEF IInv, AuthenticationTypeOK, NothingIsDatedAhead, KeySet
      <4>2. Reflects(jwks.keys, jwks.at)
        BY <3>1 DEF IInv, JwksReflects
      <4>3. \A keys \in SUBSET Keys, t \in Times :
              (t <= now /\ Reflects(keys, t)) =>
                \A x \in Keys :
                  /\ x \in keys => x \in published' \/ withdrawn'[x] >= t
                  /\ x \notin keys => x \notin published' \/ since'[x] >= t
        BY ChangesStayReflected DEF IInv, Reflects
      <4>. QED  BY <2>2, <4>1, <4>2, <4>3 DEF Reflects, authenticating
    <3>. QED  BY <2>2, <3>1 DEF JwksReflects, authenticating
  <2>5. AnswersReflect'
    <3>1. ASSUME NEW r \in Requests, phase[r] = "answered"
          PROVE  Reflects(answer[r], start[r])'
      <4>1. answer[r] \in SUBSET Keys /\ start[r] \in Times /\ start[r] <= now
        BY <3>1 DEF IInv, AuthenticationTypeOK, NothingIsDatedAhead
      <4>2. Reflects(answer[r], start[r])
        BY <3>1 DEF IInv, AnswersReflect
      <4>3. \A keys \in SUBSET Keys, t \in Times :
              (t <= now /\ Reflects(keys, t)) =>
                \A x \in Keys :
                  /\ x \in keys => x \in published' \/ withdrawn'[x] >= t
                  /\ x \notin keys => x \notin published' \/ since'[x] >= t
        BY ChangesStayReflected DEF IInv, Reflects
      <4>. QED  BY <2>2, <4>1, <4>2, <4>3 DEF Reflects, authenticating
    <3>. QED  BY <2>2, <3>1 DEF AnswersReflect, authenticating
  <2>. QED  BY <2>1, <2>3, <2>4, <2>5 DEF IInv
<1>. QED  BY <1>1, <1>2 DEF Environment

-----------------------------------------------------------------------------
\* Every way to judge a request.
LEMMA Judged ==
    ASSUME NEW r \in Requests,
           Anonymous(r) \/ VerifyFromMemory(r) \/ Resume(r) \/ FetchFails(r)
    PROVE  /\ \E v \in Verdicts \ {"none"} : Judge(r, v)
           /\ phase[r] \in {"verify", "fetch", "answered"}
           /\ UNCHANGED <<environment, call>>
           /\ Resume(r) \/ UNCHANGED jwks
<1>1. \A isAdmin \in BOOLEAN : Gate(r, isAdmin) \in {"forbidden", "admitted"}
  BY DEF Gate
<1>2. CASE Anonymous(r)
  <2>1. PICK v \in {"forbidden", "admitted", "unauthenticated", "error"} : Judge(r, v)
    BY <1>1, <1>2 DEF Anonymous
  <2>. QED  BY <2>1, <1>2 DEF Anonymous, Verdicts
<1>3. ASSUME NEW keys, JudgeToken(r, keys)
      PROVE  \E v \in Verdicts \ {"none"} : Judge(r, v)
  BY <1>1, <1>3 DEF JudgeToken, Verdicts
<1>4. CASE VerifyFromMemory(r)
  BY <1>3, <1>4 DEF VerifyFromMemory
<1>5. CASE Resume(r)
  BY <1>3, <1>5 DEF Resume, environment
<1>6. CASE FetchFails(r)
  BY <1>6 DEF FetchFails, Verdicts
<1>. QED  BY <1>2, <1>4, <1>5, <1>6

LEMMA JudgingPreserves ==
    ASSUME IInv, NEW r \in Requests,
           Anonymous(r) \/ VerifyFromMemory(r) \/ Resume(r) \/ FetchFails(r)
    PROVE  IInv'
<1>. PICK v \in Verdicts \ {"none"} : Judge(r, v)
  BY Judged
<1>1. UNCHANGED <<environment, call>> /\ phase[r] \in {"verify", "fetch", "answered"}
  BY Judged
<1>2. \/ UNCHANGED jwks
      \/ phase[r] = "answered" /\ jwks' = [keys |-> answer[r], at |-> start[r]]
  BY Judged DEF Resume, Store
<1>3. AuthenticationTypeOK'
  <2>1. jwks' \in KeySet \cup {None}
    BY <1>2 DEF IInv, AuthenticationTypeOK, KeySet
  <2>. QED
    BY <1>1, <2>1 DEF IInv, AuthenticationTypeOK, environment, Judge, Phases, Times
<1>4. NothingIsDatedAhead' /\ JwksReflects' /\ AnswersReflect' /\ FetchersHaveTokens'
  BY <1>1, <1>2
  DEF IInv, AuthenticationTypeOK, NothingIsDatedAhead, JwksReflects, AnswersReflect,
     FetchersHaveTokens, Reflects, environment, Judge
<1>. QED  BY <1>3, <1>4 DEF IInv

LEMMA AskingPreserves ==
    ASSUME IInv, NEW r \in Requests,
           (\E c \in Calls : Arrive(r, c)) \/ Fetch(r) \/ Answer(r)
    PROVE  IInv'
<1>1. CASE \E c \in Calls : Arrive(r, c)
  BY <1>1 DEF IInv, AuthenticationTypeOK, NothingIsDatedAhead, JwksReflects, AnswersReflect,
     FetchersHaveTokens, Reflects, environment, Arrive, Phases
<1>2. CASE Fetch(r)
  BY <1>2 DEF IInv, AuthenticationTypeOK, NothingIsDatedAhead, JwksReflects, AnswersReflect,
     FetchersHaveTokens, Reflects, environment, Fetch, Phases, Times
<1>3. CASE Answer(r)
  BY <1>3 DEF IInv, AuthenticationTypeOK, NothingIsDatedAhead, JwksReflects, AnswersReflect,
     FetchersHaveTokens, Reflects, environment, Answer, Phases
<1>. QED  BY <1>1, <1>2, <1>3

LEMMA NextPreserves == IInv /\ [AuthNext]_authVars => IInv'
<1>. SUFFICES ASSUME IInv, [AuthNext]_authVars
              PROVE  IInv'
  OBVIOUS
<1>1. CASE UNCHANGED authVars
  BY <1>1 DEF IInv, AuthenticationTypeOK, NothingIsDatedAhead, JwksReflects, AnswersReflect,
     FetchersHaveTokens, Reflects, authVars, environment, authenticating
<1>2. CASE Environment
  BY <1>2, EnvironmentPreserves
<1>3. CASE \E r \in Requests : Authenticate(r)
  BY <1>3, JudgingPreserves, AskingPreserves DEF Authenticate
<1>. QED  BY <1>1, <1>2, <1>3 DEF AuthNext

THEOREM IInvHolds == AuthSpec => []IInv
  BY InitEstablishes, NextPreserves, PTL DEF AuthSpec

(***************************************************************************)
(* Every variable keeps to its type, whatever the requests do.             *)
(***************************************************************************)
THEOREM TypesHold == AuthSpec => []AuthenticationTypeOK
  BY IInvHolds, PTL DEF IInv

-----------------------------------------------------------------------------
\* The key set a token is judged by, and how old it may be.
LEMMA JudgedByRecentKeys ==
    ASSUME IInv, NEW r \in Requests, AuthNext, Ends(r, {"admitted", "forbidden", "unknown_key"})
    PROVE  \E keys \in SUBSET Keys, t \in Times :
             /\ JudgeToken(r, keys)
             /\ t > AskedAt(r) - Ttl
             /\ Reflects(keys, t)
             /\ AskedAt(r) \in Times
<1>1. verdict'[r] # verdict[r] /\ credentials[r] \in Bearer /\ verdict[r] = "none"
      /\ verdict'[r] \in {"admitted", "forbidden", "unknown_key"}
  BY DEF Ends
<1>2. Authenticate(r)
  <2>1. ~Environment
    BY <1>1 DEF Environment, Tick, Publish, Withdraw, Change, authenticating
  <2>2. PICK q \in Requests : Authenticate(q)
    BY <2>1 DEF AuthNext
  <2>3. verdict' = verdict \/ \E v : verdict' = [verdict EXCEPT ![q] = v]
    BY <2>2, Judged DEF Authenticate, Arrive, Fetch, Answer, Judge
  <2>. QED  BY <1>1, <2>2, <2>3 DEF IInv, AuthenticationTypeOK
<1>3. ~FetchFails(r)
  BY <1>1 DEF IInv, AuthenticationTypeOK, FetchFails, Judge
<1>4. ~Anonymous(r)
  BY <1>1 DEF Anonymous, Bearer, Tokenless
<1>5. VerifyFromMemory(r) \/ Resume(r)
  BY <1>1, <1>2, <1>3, <1>4 DEF Authenticate, Arrive, Fetch, Answer
<1>6. CASE VerifyFromMemory(r)
  <2>1. jwks # None /\ now - jwks.at < Ttl /\ phase[r] = "verify" /\ JudgeToken(r, jwks.keys)
    BY <1>6 DEF VerifyFromMemory, Fresh
  <2>2. jwks.keys \in SUBSET Keys /\ jwks.at \in Times /\ now \in Times
    BY <2>1 DEF IInv, AuthenticationTypeOK, KeySet
  <2>3. AskedAt(r) = now
    BY <2>1 DEF AskedAt
  <2>4. jwks.at > AskedAt(r) - Ttl
    BY <2>1, <2>2, <2>3 DEF Times
  <2>5. Reflects(jwks.keys, jwks.at)
    BY <2>1 DEF IInv, JwksReflects
  <2>. QED  BY <2>1, <2>2, <2>3, <2>4, <2>5
<1>7. CASE Resume(r)
  <2>1. phase[r] = "answered" /\ JudgeToken(r, answer[r])
    BY <1>7 DEF Resume
  <2>2. answer[r] \in SUBSET Keys /\ start[r] \in Times
    BY DEF IInv, AuthenticationTypeOK
  <2>3. AskedAt(r) = start[r]
    BY <2>1 DEF AskedAt
  <2>4. start[r] > AskedAt(r) - Ttl
    BY <2>2, <2>3 DEF Times
  <2>5. Reflects(answer[r], start[r])
    BY <2>1 DEF IInv, AnswersReflect
  <2>. QED  BY <2>1, <2>2, <2>3, <2>4, <2>5
<1>. QED  BY <1>5, <1>6, <1>7

\* What the verdict says of the key.
LEMMA VerdictTellsOfKey ==
    ASSUME IInv, NEW r \in Requests, NEW keys, JudgeToken(r, keys)
    PROVE  /\ verdict'[r] \in {"admitted", "forbidden"} => credentials[r].kid \in keys
           /\ verdict'[r] = "unknown_key" => credentials[r].kid \notin keys
<1>1. \A isAdmin \in BOOLEAN : Gate(r, isAdmin) \in {"forbidden", "admitted"}
  BY DEF Gate
<1>2. \A v : Judge(r, v) => verdict'[r] = v
  BY DEF IInv, AuthenticationTypeOK, Judge
<1>. QED  BY <1>1, <1>2 DEF JudgeToken

LEMMA StepForgets ==
    ASSUME IInv, AuthNext, NEW r \in Requests
    PROVE  ForgetsRemovedKeys(r)
<1>. SUFFICES ASSUME Ends(r, {"admitted", "forbidden"})
              PROVE  \/ credentials[r].kid \in published
                     \/ withdrawn[credentials[r].kid] > AskedAt(r) - Ttl
  BY DEF ForgetsRemovedKeys
<1>. DEFINE kid == credentials[r].kid
<1>1. kid \in Keys /\ verdict'[r] \in {"admitted", "forbidden"}
  BY DEF Ends, Bearer
<1>2. Ends(r, {"admitted", "forbidden", "unknown_key"})
  BY DEF Ends
<1>3. PICK keys \in SUBSET Keys, t \in Times :
        /\ JudgeToken(r, keys)
        /\ t > AskedAt(r) - Ttl
        /\ Reflects(keys, t)
        /\ AskedAt(r) \in Times
  BY <1>2, JudgedByRecentKeys
<1>4. kid \in keys
  BY <1>1, <1>3, VerdictTellsOfKey
<1>5. kid \in published \/ withdrawn[kid] >= t
  BY <1>1, <1>3, <1>4 DEF Reflects
<1>6. withdrawn[kid] \in Times
  BY <1>1 DEF IInv, AuthenticationTypeOK
<1>. QED
  <2>. HIDE DEF kid
  <2>1. kid \in published \/ withdrawn[kid] > AskedAt(r) - Ttl
    BY <1>3, <1>5, <1>6 DEF Times
  <2>. QED  BY <2>1 DEF kid

LEMMA StepLearns ==
    ASSUME IInv, AuthNext, NEW r \in Requests
    PROVE  LearnsKeys(r)
<1>. SUFFICES ASSUME Ends(r, {"unknown_key"})
              PROVE  \/ credentials[r].kid \notin published
                     \/ since[credentials[r].kid] > AskedAt(r) - Ttl
  BY DEF LearnsKeys
<1>. DEFINE kid == credentials[r].kid
<1>1. kid \in Keys /\ verdict'[r] = "unknown_key"
  BY DEF Ends, Bearer
<1>2. Ends(r, {"admitted", "forbidden", "unknown_key"})
  BY DEF Ends
<1>3. PICK keys \in SUBSET Keys, t \in Times :
        /\ JudgeToken(r, keys)
        /\ t > AskedAt(r) - Ttl
        /\ Reflects(keys, t)
        /\ AskedAt(r) \in Times
  BY <1>2, JudgedByRecentKeys
<1>4. kid \notin keys
  BY <1>1, <1>3, VerdictTellsOfKey
<1>5. kid \notin published \/ since[kid] >= t
  BY <1>1, <1>3, <1>4 DEF Reflects
<1>6. since[kid] \in Times
  BY <1>1 DEF IInv, AuthenticationTypeOK
<1>. QED
  <2>. HIDE DEF kid
  <2>1. kid \notin published \/ since[kid] > AskedAt(r) - Ttl
    BY <1>3, <1>5, <1>6 DEF Times
  <2>. QED  BY <2>1 DEF kid

(***************************************************************************)
(* A withdrawn key opens no door to a request that asks for the key set    *)
(* jwks_ttl or more after its withdrawal, for any number of requests that  *)
(* fetch and store key sets concurrently.                                  *)
(***************************************************************************)
THEOREM RemovedKeysForgotten == AuthSpec => RemovedKeysAreForgotten
<1>1. IInv /\ [AuthNext]_authVars => [\A r \in Requests : ForgetsRemovedKeys(r)]_authVars
  BY StepForgets
<1>. QED  BY <1>1, IInvHolds, PTL DEF AuthSpec, RemovedKeysAreForgotten

(***************************************************************************)
(* A published key is known to every request that asks for the key set     *)
(* jwks_ttl or more after its publication.                                 *)
(***************************************************************************)
THEOREM KeysLearnedInTime == AuthSpec => KeysAreLearnedInTime
<1>1. IInv /\ [AuthNext]_authVars => [\A r \in Requests : LearnsKeys(r)]_authVars
  BY StepLearns
<1>. QED  BY <1>1, IInvHolds, PTL DEF AuthSpec, KeysAreLearnedInTime

-----------------------------------------------------------------------------
(***************************************************************************)
(* Safety of UserRoles for any number of requests, users and roles: a      *)
(* handler knows the roles its user has had since it read the row, and     *)
(* whoever makes a cached role stale owes an invalidation.  As every step  *)
(* of the composition is a step of Authentication or leaves it alone, what *)
(* is proved of Authentication holds here too.                             *)
(***************************************************************************)

\* Where a handler can be, given what its request asks for.
StagesFit ==
    \A r \in Requests :
        /\ phase[r] # "new" => call[r] \in Calls
        /\ verdict[r] # "none" => phase[r] = "done"
        /\ stage[r] # "waiting" => phase[r] = "done"
        /\ outcome[r] # "none" => stage[r] = "done"
        /\ stage[r] \in {"lookup", "fill"} => call[r].op = "get"
        /\ stage[r] \in {"refetch", "flush", "invalidate"} => call[r].op = "change"
        /\ stage[r] \in {"refetch", "flush", "commit", "fill", "invalidate"} =>
              loaded[r] \in Roles /\ table[call[r].user] \in Roles
        /\ (stage[r] \in {"refetch", "flush", "commit", "invalidate"} /\ call[r].op = "change")
              => call[r].role \in Roles
        /\ stage[r] \in {"waiting", "lookup", "load", "refetch"} => ~dirty[r]
        /\ (stage[r] # "waiting" /\ call[r].op = "get") => ~dirty[r]
        /\ stage[r] = "flush" => dirty[r]

\* What a handler has read, its row and what it acknowledges were held since.
HeldSinceFits ==
    \A r \in Requests :
        /\ stage[r] \in {"refetch", "flush", "commit"} =>
              {loaded[r], table[call[r].user]} \subseteq heldSince[r]
        /\ (stage[r] = "commit" /\ call[r].op = "change" /\ ~dirty[r]) =>
              call[r].role \in heldSince[r]
        /\ stage[r] = "invalidate" => call[r].role \in heldSince[r]

OwingFits ==
    \A r \in owed : call[r].op = "change" /\ stage[r] \in {"invalidate", "done"}

UserInv ==
    /\ TypeOK
    /\ StagesFit
    /\ HeldSinceFits
    /\ OwingFits
    /\ AcknowledgedRoleTookHold
    /\ CachedRolesHaveCauses

USE CallsAreRoleCalls, ChangesAreGated, NoneIsNoRole

LEMMA CallFields ==
    ASSUME NEW c \in Calls
    PROVE  /\ c.op \in {"get", "change"}
           /\ c.user \in Users
           /\ c.op = "change" => c.role \in Roles \cup {"unknown"}
  BY DEF RoleCalls

LEMMA UserInitEstablishes == Init => UserInv
<1>. SUFFICES ASSUME Init PROVE UserInv
  OBVIOUS
<1>1. AuthenticationTypeOK
  BY InitEstablishes DEF Init, IInv
<1>2. TypeOK
  BY <1>1 DEF Init, UserInit, TypeOK, Stages, Outcomes
<1>3. StagesFit /\ HeldSinceFits /\ OwingFits /\ AcknowledgedRoleTookHold
      /\ CachedRolesHaveCauses
  BY DEF Init, AuthInit, UserInit, StagesFit, HeldSinceFits, OwingFits,
     AcknowledgedRoleTookHold, CachedRolesHaveCauses
<1>. QED  BY <1>2, <1>3 DEF UserInv

-----------------------------------------------------------------------------
(* Authentication goes on beside the handlers. *)

\* It assigns a call to new requests only, and a verdict is for good.
LEMMA AuthStepKeepsCalls ==
    ASSUME AuthenticationTypeOK, AuthNext, NEW r \in Requests
    PROVE  /\ phase[r] # "new" => call'[r] = call[r] /\ phase'[r] # "new"
           /\ phase'[r] # "new" => phase[r] # "new" \/ call'[r] \in Calls
           /\ phase[r] = "done" => phase'[r] = "done"
           /\ verdict'[r] # verdict[r] => phase'[r] = "done"
<1>1. CASE Environment
  BY <1>1 DEF Environment, Tick, Publish, Withdraw, Change, authenticating
<1>2. CASE \E q \in Requests : Authenticate(q)
  <2>. PICK q \in Requests : Authenticate(q)
    BY <1>2
  <2>1. CASE \E c \in Calls : Arrive(q, c)
    BY <2>1 DEF AuthenticationTypeOK, Arrive
  <2>2. CASE Fetch(q) \/ Answer(q)
    BY <2>2 DEF AuthenticationTypeOK, Fetch, Answer
  <2>3. CASE Anonymous(q) \/ VerifyFromMemory(q) \/ Resume(q) \/ FetchFails(q)
    <3>1. PICK v \in Verdicts \ {"none"} : Judge(q, v)
      BY <2>3, Judged
    <3>2. call' = call /\ phase[q] \in {"verify", "fetch", "answered"}
      BY <2>3, Judged
    <3>. QED  BY <3>1, <3>2 DEF AuthenticationTypeOK, Judge
  <2>. QED  BY <2>1, <2>2, <2>3 DEF Authenticate
<1>. QED  BY <1>1, <1>2 DEF AuthNext

LEMMA AuthStepPreserves ==
    ASSUME UserInv, AuthNext, AuthenticationTypeOK', UNCHANGED userVars
    PROVE  UserInv'
<1>1. TypeOK'
  BY DEF UserInv, TypeOK, userVars, handling, history
<1>2. \A r \in Requests : stage[r] # "waiting" => call'[r] = call[r]
  BY AuthStepKeepsCalls DEF UserInv, TypeOK, StagesFit
<1>3. StagesFit'
  BY <1>2, AuthStepKeepsCalls
  DEF UserInv, TypeOK, StagesFit, userVars, handling, history
<1>4. HeldSinceFits' /\ OwingFits' /\ AcknowledgedRoleTookHold'
  BY <1>2 DEF UserInv, TypeOK, StagesFit, HeldSinceFits, OwingFits, AcknowledgedRoleTookHold,
     userVars, handling, history
<1>5. CachedRolesHaveCauses'
  BY <1>2 DEF UserInv, TypeOK, OwingFits, CachedRolesHaveCauses, userVars, handling, history
<1>. QED  BY <1>1, <1>3, <1>4, <1>5 DEF UserInv

-----------------------------------------------------------------------------
(* The steps of a handler, with Authentication standing still. *)

LEMMA TypesKept ==
    ASSUME UserInv, UNCHANGED authVars, NEW r \in Requests, Handle(r)
    PROVE  TypeOK'
<1>1. AuthenticationTypeOK'
  BY DEF UserInv, TypeOK, AuthenticationTypeOK, authVars, environment, authenticating
<1>2. stage[r] # "waiting" \/ Start(r)
  BY DEF Handle, Lookup, Load, Refetch, Flush, Commit, CommitUnacknowledged, Fill,
     Invalidate, Abort
<1>3. stage[r] # "waiting" => call[r] \in Calls /\ call[r].user \in Users
  BY CallFields DEF UserInv, StagesFit
<1>4. CASE Start(r) \/ Flush(r) \/ Abort(r) \/ Lookup(r)
  BY <1>1, <1>4 DEF UserInv, TypeOK, Stages, Outcomes, Start, Flush, Abort, Lookup, Goto,
     End, history
<1>5. CASE Load(r)
  BY <1>1, <1>3, <1>5
  DEF UserInv, TypeOK, Stages, Outcomes, Load, Goto, End
<1>6. CASE Refetch(r)
  <2>1. dirty' \in [Requests -> BOOLEAN]
    BY <1>6 DEF UserInv, TypeOK, Refetch
  <2>. QED  BY <1>1, <1>6, <2>1 DEF UserInv, TypeOK, Stages, Refetch, Goto, history
<1>7. CASE Commit(r) \/ CommitUnacknowledged(r)
  <2>1. stage[r] = "commit" /\ TakeEffect(r)
    BY <1>7 DEF Commit, CommitUnacknowledged
  <2>2. table[call[r].user] \in Roles /\ (dirty[r] => call[r].role \in Roles)
    BY <1>3, <2>1, CallFields DEF UserInv, TypeOK, StagesFit
  <2>3. table' \in [Users -> Roles \cup {None}] /\ table'[call[r].user] \in Roles
    BY <1>3, <2>1, <2>2 DEF UserInv, TypeOK, TakeEffect
  <2>4. heldSince' \in [Requests -> SUBSET Roles] /\ owed' \in SUBSET Requests
    BY <2>1, <2>3 DEF UserInv, TypeOK, TakeEffect
  <2>. QED
    BY <1>1, <1>7, <2>3, <2>4
    DEF UserInv, TypeOK, Stages, Outcomes, Commit, CommitUnacknowledged, TakeEffect,
       StageAfter, Goto, End
<1>8. CASE Fill(r)
  BY <1>1, <1>3, <1>8 DEF UserInv, TypeOK, StagesFit, Stages, Outcomes, Fill, Goto, End
<1>9. CASE Invalidate(r)
  BY <1>1, <1>3, <1>9 DEF UserInv, TypeOK, Stages, Outcomes, Invalidate, Drop, Goto, End
<1>. QED  BY <1>4, <1>5, <1>6, <1>7, <1>8, <1>9 DEF Handle

\* A transaction without an UPDATE, or an UPDATE of an existing row.
LEMMA CommitKeepsRows ==
    ASSUME UserInv, NEW r \in Requests, stage[r] = "commit", TakeEffect(r)
    PROVE  /\ call[r] \in Calls /\ call[r].user \in Users
           /\ dirty[r] => call[r].op = "change"
           /\ table'[call[r].user] = IF dirty[r] THEN call[r].role ELSE table[call[r].user]
           /\ \A u \in Users : u # call[r].user => table'[u] = table[u]
           /\ \A u \in Users : table[u] \in Roles => table'[u] \in Roles
           /\ \A q \in Requests : heldSince[q] \subseteq heldSince'[q]
           /\ \A q \in Requests : (stage[q] # "waiting" /\ call[q].user = call[r].user)
                 => table'[call[r].user] \in heldSince'[q]
<1>1. call[r] \in Calls /\ call[r].user \in Users
  BY CallFields DEF UserInv, StagesFit
<1>2. dirty[r] => call[r].op = "change" /\ call[r].role \in Roles
  BY <1>1, CallFields DEF UserInv, StagesFit
<1>. QED  BY <1>1, <1>2 DEF UserInv, TypeOK, TakeEffect

LEMMA StagesKept ==
    ASSUME UserInv, UNCHANGED authVars, NEW r \in Requests, Handle(r)
    PROVE  StagesFit'
<1>. call' = call /\ phase' = phase /\ verdict' = verdict
  BY DEF authVars, authenticating
<1>1. \A q \in Requests : stage[q] # "waiting" =>
        /\ call[q] \in Calls /\ call[q].user \in Users /\ call[q].op \in {"get", "change"}
        /\ call[q].op = "change" => call[q].role \in Roles \cup {"unknown"}
  BY CallFields DEF UserInv, StagesFit
<1>2. CASE Start(r)
  <2>1. phase[r] = "done" /\ call[r] \in Calls /\ call[r].op \in {"get", "change"}
    BY <1>2, CallFields DEF UserInv, StagesFit, Start
  <2>2. ~dirty[r]
    BY <1>2 DEF UserInv, StagesFit, Start
  <2>. QED  BY <1>2, <2>1, <2>2 DEF UserInv, TypeOK, StagesFit, Start, Goto, history
<1>3. CASE Lookup(r) \/ Flush(r) \/ Abort(r)
  BY <1>1, <1>3 DEF UserInv, TypeOK, StagesFit, Lookup, Flush, Abort, Goto, End, history
<1>4. CASE Load(r)
  BY <1>1, <1>4 DEF UserInv, TypeOK, StagesFit, Load, Goto, End
<1>5. CASE Refetch(r)
  BY <1>1, <1>5 DEF UserInv, TypeOK, StagesFit, Refetch, Goto, history
<1>6. CASE Commit(r) \/ CommitUnacknowledged(r)
  <2>1. stage[r] = "commit" /\ TakeEffect(r)
    BY <1>6 DEF Commit, CommitUnacknowledged
  <2>2. \A u \in Users : table[u] \in Roles => table'[u] \in Roles
    BY <2>1, CommitKeepsRows
  <2>. QED
    BY <1>1, <1>6, <2>1, <2>2
    DEF UserInv, TypeOK, StagesFit, Commit, CommitUnacknowledged, StageAfter, Goto, End
<1>7. CASE Fill(r) \/ Invalidate(r)
  BY <1>1, <1>7 DEF UserInv, TypeOK, StagesFit, Fill, Invalidate, Drop, Goto, End
<1>. QED  BY <1>2, <1>3, <1>4, <1>5, <1>6, <1>7 DEF Handle

LEMMA HeldKept ==
    ASSUME UserInv, UNCHANGED authVars, NEW r \in Requests, Handle(r)
    PROVE  HeldSinceFits' /\ AcknowledgedRoleTookHold'
<1>. call' = call
  BY DEF authVars, authenticating
<1>1. CASE Start(r) \/ Lookup(r) \/ Flush(r) \/ Abort(r)
  BY <1>1 DEF UserInv, TypeOK, StagesFit, HeldSinceFits, AcknowledgedRoleTookHold, Start,
     Lookup, Flush, Abort, Goto, End, history
<1>2. CASE Load(r)
  BY <1>2 DEF UserInv, TypeOK, StagesFit, HeldSinceFits, AcknowledgedRoleTookHold, Load,
     Goto, End
<1>3. CASE Refetch(r)
  <2>1. PICK role \in {loaded[r], table[call[r].user]} :
          dirty' = [dirty EXCEPT ![r] = call[r].role # role]
    BY <1>3 DEF Refetch
  <2>2. /\ \A q \in Requests : q # r => stage'[q] = stage[q] /\ dirty'[q] = dirty[q]
        /\ stage'[r] \in {"flush", "commit"} /\ dirty'[r] = (call[r].role # role)
        /\ UNCHANGED <<loaded, table, outcome, heldSince>>
    BY <1>3, <2>1 DEF UserInv, TypeOK, Refetch, Goto, history
  <2>3. {loaded[r], table[call[r].user]} \subseteq heldSince[r] /\ outcome[r] # "ok"
    BY <1>3 DEF UserInv, StagesFit, HeldSinceFits, Refetch
  <2>4. HeldSinceFits'
    <3>. SUFFICES ASSUME NEW q \in Requests
                  PROVE  /\ stage'[q] \in {"refetch", "flush", "commit"} =>
                               {loaded[q], table[call[q].user]} \subseteq heldSince[q]
                         /\ (stage'[q] = "commit" /\ call[q].op = "change" /\ ~dirty'[q]) =>
                               call[q].role \in heldSince[q]
                         /\ stage'[q] = "invalidate" => call[q].role \in heldSince[q]
      BY <2>2 DEF HeldSinceFits
    <3>1. CASE q = r
      BY <2>1, <2>2, <2>3, <3>1
    <3>2. CASE q # r
      BY <2>2, <3>2 DEF UserInv, HeldSinceFits
    <3>. QED  BY <3>1, <3>2
  <2>. QED  BY <2>2, <2>4 DEF UserInv, AcknowledgedRoleTookHold
<1>4. CASE Commit(r) \/ CommitUnacknowledged(r)
  <2>1. stage[r] = "commit" /\ TakeEffect(r)
    BY <1>4 DEF Commit, CommitUnacknowledged
  <2>2. \A q \in Requests : stage[q] # "waiting" => call[q] \in Calls /\ call[q].user \in Users
    BY CallFields DEF UserInv, StagesFit
  <2>3. UNCHANGED <<loaded, dirty>>
        /\ \A q \in Requests : q # r => stage'[q] = stage[q] /\ outcome'[q] = outcome[q]
    BY <1>4 DEF UserInv, TypeOK, Commit, CommitUnacknowledged, Goto, End
  <2>4. stage'[r] \in {"fill", "done"} \/ (stage'[r] = "invalidate" /\ call[r].op = "change")
    BY <1>4, <2>1, <2>2, CallFields
    DEF UserInv, TypeOK, StagesFit, Commit, CommitUnacknowledged, StageAfter, Goto, End
  <2>5. outcome'[r] # "ok"
    BY <1>4, <2>1 DEF UserInv, TypeOK, StagesFit, Commit, CommitUnacknowledged, End
  <2>6. call[r].op = "change" => call[r].role \in heldSince'[r]
    BY <2>1, <2>2, CommitKeepsRows DEF UserInv, HeldSinceFits
  <2>7. \A q \in Requests : stage[q] # "waiting" =>
          /\ heldSince[q] \subseteq heldSince'[q]
          /\ table[call[q].user] \in heldSince[q] => table'[call[q].user] \in heldSince'[q]
    BY <2>1, <2>2, CommitKeepsRows
  <2>8. HeldSinceFits'
    BY <2>3, <2>4, <2>6, <2>7 DEF UserInv, HeldSinceFits
  <2>9. AcknowledgedRoleTookHold'
    BY <2>3, <2>5, <2>7 DEF UserInv, StagesFit, AcknowledgedRoleTookHold
  <2>. QED  BY <2>8, <2>9
<1>5. CASE Fill(r) \/ Invalidate(r)
  BY <1>5 DEF UserInv, TypeOK, StagesFit, HeldSinceFits, AcknowledgedRoleTookHold, Fill,
     Invalidate, Drop, Goto, End
<1>. QED  BY <1>1, <1>2, <1>3, <1>4, <1>5 DEF Handle

LEMMA CausesKept ==
    ASSUME UserInv, UNCHANGED authVars, NEW r \in Requests, Handle(r)
    PROVE  OwingFits' /\ CachedRolesHaveCauses'
<1>. call' = call
  BY DEF authVars, authenticating
<1>1. r \in owed => stage[r] \in {"invalidate", "done"}
  BY DEF UserInv, OwingFits
<1>2. CASE Start(r) \/ Lookup(r) \/ Flush(r) \/ Load(r) \/ Refetch(r)
  <2>1. r \notin owed
    BY <1>1, <1>2 DEF Start, Lookup, Flush, Load, Refetch
  <2>2. UNCHANGED <<table, cache, owed, staleFills>>
        /\ \A q \in Requests : q # r => stage'[q] = stage[q] /\ outcome'[q] = outcome[q]
    BY <1>2 DEF UserInv, TypeOK, Start, Lookup, Flush, Load, Refetch, Goto, End, history
  <2>. QED  BY <2>1, <2>2 DEF UserInv, TypeOK, OwingFits, CachedRolesHaveCauses
<1>3. CASE Abort(r)
  BY <1>3 DEF UserInv, TypeOK, OwingFits, CachedRolesHaveCauses, Abort, Goto, End, history
<1>4. CASE Commit(r) \/ CommitUnacknowledged(r)
  <2>1. stage[r] = "commit" /\ TakeEffect(r)
    BY <1>4 DEF Commit, CommitUnacknowledged
  <2>2. r \notin owed
    BY <1>1, <2>1
  <2>3. /\ \A q \in Requests : q # r => stage'[q] = stage[q] /\ outcome'[q] = outcome[q]
        /\ UNCHANGED <<cache, staleFills>>
    BY <1>4 DEF UserInv, TypeOK, Commit, CommitUnacknowledged, TakeEffect, Goto, End
  <2>4. owed' = owed \cup {q \in {r} : dirty[q]}
    BY <2>1 DEF TakeEffect
  <2>5. dirty[r] => /\ stage'[r] = "invalidate" \/ outcome'[r] = "error"
                    /\ stage'[r] \in {"invalidate", "done"}
                    /\ call[r].op = "change"
    BY <1>4, <2>1, CommitKeepsRows
    DEF UserInv, TypeOK, Commit, CommitUnacknowledged, StageAfter, Goto, End
  <2>6. OwingFits'
    BY <2>2, <2>3, <2>4, <2>5 DEF UserInv, TypeOK, OwingFits
  <2>7. CachedRolesHaveCauses'
    <3>. SUFFICES ASSUME NEW u \in Users, cache'[u] \notin {None, table'[u]}
                  PROVE  \/ \E q \in owed' : /\ call[q].user = u
                                             /\ stage'[q] = "invalidate" \/ outcome'[q] = "error"
                         \/ u \in staleFills'
      BY DEF CachedRolesHaveCauses
    <3>1. CASE u = call[r].user /\ dirty[r]
      BY <2>4, <2>5, <3>1
    <3>2. CASE ~(u = call[r].user /\ dirty[r])
      <4>1. table'[u] = table[u]
        BY <2>1, <3>2, CommitKeepsRows
      <4>. QED  BY <2>2, <2>3, <2>4, <4>1 DEF UserInv, TypeOK, CachedRolesHaveCauses
    <3>. QED  BY <3>1, <3>2
  <2>. QED  BY <2>6, <2>7
<1>5. CASE Fill(r)
  BY <1>1, <1>5 DEF UserInv, TypeOK, OwingFits, CachedRolesHaveCauses, Fill, Goto, End
<1>6. CASE Invalidate(r)
  BY <1>6 DEF UserInv, TypeOK, OwingFits, CachedRolesHaveCauses, Invalidate, Drop, Goto, End
<1>. QED  BY <1>2, <1>3, <1>4, <1>5, <1>6 DEF Handle

LEMMA ExpiryPreserves ==
    ASSUME UserInv, UNCHANGED authVars, NEW u \in Users, Expire(u)
    PROVE  UserInv'
<1>1. AuthenticationTypeOK' /\ UNCHANGED <<call, phase, verdict>>
  BY DEF UserInv, TypeOK, AuthenticationTypeOK, authVars, environment, authenticating
<1>2. TypeOK'
  BY <1>1 DEF UserInv, TypeOK, Expire, Drop
<1>3. StagesFit' /\ HeldSinceFits' /\ OwingFits' /\ AcknowledgedRoleTookHold'
  BY <1>1 DEF UserInv, StagesFit, HeldSinceFits, OwingFits, AcknowledgedRoleTookHold, Expire,
     Drop
<1>4. CachedRolesHaveCauses'
  BY <1>1 DEF UserInv, TypeOK, CachedRolesHaveCauses, Expire, Drop
<1>. QED  BY <1>2, <1>3, <1>4 DEF UserInv

-----------------------------------------------------------------------------
(***************************************************************************)
(* The composition implements Authentication: a handler never touches what *)
(* authenticates the requests, and the requests admitted are its own.      *)
(***************************************************************************)
THEOREM ComposedAuthenticates == Spec => AuthSpec
<1>1. [Next]_vars => [AuthNext]_authVars
  BY DEF Next, vars
<1>. QED  BY <1>1, PTL DEF Spec, Init, AuthSpec

LEMMA UserNextPreserves == UserInv /\ IInv' /\ [Next]_vars => UserInv'
<1>. SUFFICES ASSUME UserInv, IInv', [Next]_vars
              PROVE  UserInv'
  OBVIOUS
<1>0. AuthenticationTypeOK'
  BY DEF IInv
<1>1. CASE UNCHANGED vars
  <2>1. TypeOK'
    BY <1>0, <1>1 DEF UserInv, TypeOK, vars, userVars, handling, history
  <2>. QED
    BY <1>1, <2>1
    DEF UserInv, StagesFit, HeldSinceFits, OwingFits, AcknowledgedRoleTookHold,
       CachedRolesHaveCauses, vars, userVars, handling, history, authVars, authenticating
<1>2. CASE AuthNext /\ UNCHANGED userVars
  BY <1>0, <1>2, AuthStepPreserves
<1>3. CASE (\E r \in Requests : Handle(r)) /\ UNCHANGED authVars
  BY <1>3, TypesKept, StagesKept, HeldKept, CausesKept DEF UserInv
<1>4. CASE (\E u \in Users : Expire(u)) /\ UNCHANGED authVars
  BY <1>4, ExpiryPreserves
<1>. QED  BY <1>1, <1>2, <1>3, <1>4 DEF Next

THEOREM UserInvHolds == Spec => []UserInv
  BY UserInitEstablishes, UserNextPreserves, ComposedAuthenticates, IInvHolds, PTL DEF Spec

(***************************************************************************)
(* Every variable of the composition keeps to its type.                    *)
(***************************************************************************)
THEOREM ComposedTypesHold == Spec => []TypeOK
  BY UserInvHolds, PTL DEF UserInv

(***************************************************************************)
(* An acknowledged change of role is one that the row went through between *)
(* the handler's read and its answer, whoever changes it meanwhile.        *)
(***************************************************************************)
THEOREM AcknowledgedRolesTookHold == Spec => []AcknowledgedRoleTookHold
  BY UserInvHolds, PTL DEF UserInv

(***************************************************************************)
(* A role that is out of date in the cache is there because of a change    *)
(* not yet followed by its invalidation, or of a fill that came late.      *)
(***************************************************************************)
THEOREM CachedRolesAreExplained == Spec => []CachedRolesHaveCauses
  BY UserInvHolds, PTL DEF UserInv

(***************************************************************************)
(* What admits the callers of change_role forgets withdrawn keys and       *)
(* learns new ones in time, whatever the handlers do.                      *)
(***************************************************************************)
THEOREM ComposedKeysAreCurrent == Spec => RemovedKeysAreForgotten /\ KeysAreLearnedInTime
  BY ComposedAuthenticates, RemovedKeysForgotten, KeysLearnedInTime, PTL
=============================================================================
