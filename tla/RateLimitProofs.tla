--------------------------- MODULE RateLimitProofs ---------------------------
(***************************************************************************)
(* Safety of RateLimit for every finite number of requests, every number   *)
(* of clients and every limit.  A counter lies between two counts of       *)
(* requests: those it has let through, and those of its client that have   *)
(* reached Redis at all.                                                   *)
(***************************************************************************)
EXTENDS RateLimit, FiniteSetTheorems, TLAPS

StagesFit ==
    \A r \in Requests :
        /\ pc[r] = "new" => client[r] = NoClient
        /\ pc[r] \in {"counting", "expiring"} => client[r] \in Clients
        /\ pc[r] # "done" => outcome[r] = "none"
        /\ outcome[r] = "rejected" => client[r] \in Clients

WindowsAreOwn ==
    \A c \in Clients : \A r \in window[c] :
        client[r] = c /\ pc[r] \in {"expiring", "done"}

CountersBoundPassed == \A c \in Clients : Cardinality(Passed(c)) <= counter[c]

CountersAreCounted == \A c \in Clients : counter[c] <= Cardinality(Counted(c))

IInv ==
    /\ TypeOK
    /\ StagesFit
    /\ WindowsAreOwn
    /\ CountersBoundPassed
    /\ WithinLimit
    /\ CountersAreCounted
    /\ RejectedForOwnRequests
    /\ LastingOnlyAfterFailure

USE DEF Unanswered

-----------------------------------------------------------------------------
(* Cardinalities of sets of requests. *)

LEMMA FiniteCounts ==
    ASSUME NEW S \in SUBSET Requests
    PROVE  IsFiniteSet(S) /\ Cardinality(S) \in Nat
  BY RequestsAreFinite, FS_Subset, FS_CardinalityType

LEMMA SmallerCount ==
    ASSUME NEW S \in SUBSET Requests, NEW T \in SUBSET S
    PROVE  Cardinality(T) <= Cardinality(S)
  BY FiniteCounts, FS_Subset

LEMMA OneMoreCounts ==
    ASSUME NEW S \in SUBSET Requests, NEW r \in Requests
    PROVE  /\ Cardinality(S \cup {r}) <= Cardinality(S) + 1
           /\ r \notin S => Cardinality(S \cup {r}) = Cardinality(S) + 1
  BY FiniteCounts, FS_AddElement

(* What a step has to respect for the counts to stay in order. *)

\* A step that lets no request through and takes none off a counter.
LEMMA PassedShrinks ==
    ASSUME IInv, NEW c \in Clients, Passed(c)' \subseteq Passed(c),
           counter'[c] \in Nat, counter'[c] >= counter[c]
    PROVE  Cardinality(Passed(c)') <= counter'[c] /\ Cardinality(Passed(c)') <= Limit
<1>1. Passed(c) \in SUBSET Requests
  BY DEF IInv, TypeOK, Passed
<1>2. Cardinality(Passed(c)') <= Cardinality(Passed(c))
  BY <1>1, SmallerCount
<1>3. Cardinality(Passed(c)) \in Nat /\ Cardinality(Passed(c)') \in Nat
  BY <1>1, FiniteCounts
<1>. QED
  BY <1>2, <1>3, LimitIsPositive DEF IInv, TypeOK, CountersBoundPassed, WithinLimit

\* Requests that have reached Redis stay counted, so a rejection stays justified.
LEMMA RejectionsLast ==
    ASSUME IInv, TypeOK', \A c \in Clients : Counted(c) \subseteq Counted(c)',
           NEW r \in Requests, outcome[r] = "rejected", client'[r] = client[r]
    PROVE  (Cardinality(Counted(client[r]) \ {r}) >= Limit)'
<1>. PICK c \in Clients : client[r] = c /\ client'[r] = c
  BY DEF IInv, StagesFit
<1>. DEFINE before == Counted(c) \ {r}
            after == Counted(c)' \ {r}
<1>1. after \in SUBSET Requests /\ before \in SUBSET after
  BY DEF Counted
<1>2. Cardinality(before) <= Cardinality(after)
  BY <1>1, SmallerCount
<1>3. Cardinality(before) \in Nat /\ Cardinality(after) \in Nat
  BY <1>1, FiniteCounts
<1>4. Cardinality(before) >= Limit
  BY DEF IInv, RejectedForOwnRequests
<1>5. Cardinality(after) >= Limit
  <2>. HIDE DEF before, after
  <2>. QED  BY <1>2, <1>3, <1>4, LimitIsPositive
<1>. QED  BY <1>5

LEMMA CountersStayCounted ==
    ASSUME IInv, NEW c \in Clients, Counted(c) \subseteq Counted(c)',
           Counted(c)' \subseteq Requests, counter'[c] \in Nat, counter'[c] <= counter[c]
    PROVE  counter'[c] <= Cardinality(Counted(c)')
<1>1. Cardinality(Counted(c)) <= Cardinality(Counted(c)')
  BY SmallerCount
<1>2. Cardinality(Counted(c)) \in Nat /\ Cardinality(Counted(c)') \in Nat
  BY FiniteCounts
<1>. QED  BY <1>1, <1>2 DEF IInv, TypeOK, CountersAreCounted

-----------------------------------------------------------------------------
(* One lemma per kind of step. *)

LEMMA FirstIsServed == Verdict(1) = "served"
  BY LimitIsPositive DEF Verdict

\* The steps that leave every counter alone.
Quiet(r) ==
    \/ \E c \in Clients : Receive(r, c)
    \/ ServeExempt(r)
    \/ StartWindow(r)
    \/ StartUnanswered(r)
    \/ CountUnanswered(r) /\ UNCHANGED <<counter, window>>

LEMMA QuietPreserves ==
    ASSUME IInv, NEW r \in Requests, Quiet(r)
    PROVE  IInv'
<1>1. TypeOK'
  <2>1. CASE \E c \in Clients : Receive(r, c)
    BY <2>1 DEF IInv, TypeOK, Receive, Goto
  <2>2. CASE ServeExempt(r) \/ (CountUnanswered(r) /\ UNCHANGED <<counter, window>>)
    BY <2>2 DEF IInv, TypeOK, Outcomes, End, Goto, ServeExempt, CountUnanswered
  <2>3. CASE StartWindow(r) \/ StartUnanswered(r)
    <3>1. lifetime' \in SUBSET Clients
      BY <2>3 DEF IInv, TypeOK, StagesFit, SetLifetime, Key, StartWindow, StartUnanswered
    <3>. QED
      BY <2>3, <3>1, FirstIsServed
      DEF IInv, TypeOK, Outcomes, End, Goto, StartWindow, StartUnanswered
  <2>. QED  BY <2>1, <2>2, <2>3 DEF Quiet
<1>2. StagesFit'
  BY FirstIsServed, NoClientIsNone
  DEF IInv, TypeOK, StagesFit, End, Goto, Quiet, Receive, ServeExempt, StartWindow,
     StartUnanswered, CountUnanswered
<1>3. WindowsAreOwn'
  BY DEF IInv, TypeOK, StagesFit, WindowsAreOwn, End, Goto, Quiet, Receive, ServeExempt,
     StartWindow, StartUnanswered, CountUnanswered
<1>4. UNCHANGED <<counter, window>> /\ lifetime \subseteq lifetime'
  BY DEF Quiet, Receive, ServeExempt, StartWindow, StartUnanswered, CountUnanswered,
     SetLifetime
<1>5. ASSUME NEW c \in Clients
      PROVE  Passed(c)' \subseteq Passed(c)
  BY <1>4
  DEF IInv, TypeOK, StagesFit, WindowsAreOwn, Passed, End, Goto, Quiet, Receive, ServeExempt,
     StartWindow, StartUnanswered, CountUnanswered
<1>6. ASSUME NEW c \in Clients
      PROVE  Counted(c) \subseteq Counted(c)'
  BY NoClientIsNone
  DEF IInv, TypeOK, StagesFit, Counted, End, Goto, Quiet, Receive, ServeExempt, StartWindow,
     StartUnanswered, CountUnanswered
<1>7. CountersBoundPassed' /\ WithinLimit'
  BY <1>1, <1>4, <1>5, PassedShrinks DEF IInv, TypeOK, CountersBoundPassed, WithinLimit
<1>8. CountersAreCounted'
  BY <1>1, <1>4, <1>6, CountersStayCounted DEF IInv, TypeOK, CountersAreCounted, Counted
<1>9. RejectedForOwnRequests'
  <2>1. \A q \in Requests : outcome'[q] = "rejected" =>
           outcome[q] = "rejected" /\ client'[q] = client[q]
    BY FirstIsServed
    DEF IInv, TypeOK, StagesFit, End, Goto, Quiet, Receive, ServeExempt, StartWindow,
       StartUnanswered, CountUnanswered
  <2>. QED  BY <1>1, <1>6, <2>1, RejectionsLast DEF RejectedForOwnRequests
<1>10. LastingOnlyAfterFailure'
  BY <1>4
  DEF IInv, TypeOK, StagesFit, LastingOnlyAfterFailure, End, Goto, Quiet, Receive,
     ServeExempt, StartWindow, StartUnanswered, CountUnanswered, SetLifetime, Key
<1>. QED  BY <1>1, <1>2, <1>3, <1>7, <1>8, <1>9, <1>10 DEF IInv

\* The steps that count a request.
Counts(r) == Count(r) \/ (CountUnanswered(r) /\ Increment(r))

LEMMA CountPreserves ==
    ASSUME IInv, NEW r \in Requests, Counts(r)
    PROVE  IInv'
<1>. PICK k \in Clients : client[r] = k
  BY DEF IInv, StagesFit, Counts, Count, CountUnanswered
<1>1. /\ pc[r] = "counting" /\ outcome[r] = "none"
      /\ counter' = [counter EXCEPT ![k] = @ + 1]
      /\ window' = [window EXCEPT ![k] = @ \cup {r}]
      /\ UNCHANGED <<client, lifetime>>
      /\ pc' \in {[pc EXCEPT ![r] = "expiring"], [pc EXCEPT ![r] = "done"]}
      /\ \/ counter[k] + 1 = 1 /\ pc'[r] = "expiring" /\ UNCHANGED outcome
         \/ /\ pc'[r] = "done" /\ counter[k] + 1 # 1
            /\ outcome' = [outcome EXCEPT ![r] = Verdict(counter[k] + 1)]
         \/ pc'[r] = "done" /\ \E result \in Unanswered : outcome' = [outcome EXCEPT ![r] = result]
  BY DEF IInv, TypeOK, StagesFit, Counts, Count, CountUnanswered, Increment, StartsWindow,
     Key, End, Goto
<1>2. TypeOK'
  BY <1>1 DEF IInv, TypeOK, Outcomes, Verdict
<1>3. StagesFit'
  BY <1>1 DEF IInv, TypeOK, StagesFit
<1>4. WindowsAreOwn'
  BY <1>1 DEF IInv, TypeOK, WindowsAreOwn
<1>5. ASSUME NEW c \in Clients, c # k
      PROVE  Passed(c)' \subseteq Passed(c) /\ counter'[c] = counter[c]
  BY <1>1, <1>5 DEF IInv, TypeOK, WindowsAreOwn, Passed
<1>6. \/ Passed(k)' \subseteq Passed(k)
      \/ Passed(k)' \subseteq Passed(k) \cup {r} /\ counter[k] + 1 <= Limit
  BY <1>1, LimitIsPositive DEF IInv, TypeOK, WindowsAreOwn, Passed, Verdict
<1>7. counter'[k] = counter[k] + 1 /\ counter[k] \in Nat
  BY <1>1 DEF IInv, TypeOK
<1>8. Cardinality(Passed(k)') <= counter'[k] /\ Cardinality(Passed(k)') <= Limit
  <2>1. CASE Passed(k)' \subseteq Passed(k)
    BY <1>7, <2>1, PassedShrinks
  <2>2. CASE Passed(k)' \subseteq Passed(k) \cup {r} /\ counter[k] + 1 <= Limit
    <3>1. Passed(k) \in SUBSET Requests
      BY DEF IInv, TypeOK, Passed
    <3>2. Cardinality(Passed(k)') <= Cardinality(Passed(k) \cup {r})
      BY <2>2, <3>1, SmallerCount
    <3>3. Cardinality(Passed(k) \cup {r}) <= Cardinality(Passed(k)) + 1
      BY <3>1, OneMoreCounts
    <3>4. /\ Cardinality(Passed(k)) \in Nat /\ Cardinality(Passed(k)') \in Nat
          /\ Cardinality(Passed(k) \cup {r}) \in Nat
      BY <2>2, <3>1, FiniteCounts
    <3>5. Cardinality(Passed(k)) <= counter[k]
      BY DEF IInv, CountersBoundPassed
    <3>. QED  BY <1>7, <2>2, <3>2, <3>3, <3>4, <3>5, LimitIsPositive
  <2>. QED  BY <1>6, <2>1, <2>2
<1>9. CountersBoundPassed' /\ WithinLimit'
  BY <1>2, <1>5, <1>8, PassedShrinks DEF TypeOK, CountersBoundPassed, WithinLimit
<1>10. /\ \A c \in Clients : Counted(c) \subseteq Counted(c)' /\ Counted(c)' \in SUBSET Requests
       /\ Counted(k)' = Counted(k) \cup {r} /\ r \notin Counted(k)
  BY <1>1 DEF IInv, TypeOK, Counted
<1>11. counter[k] <= Cardinality(Counted(k)) /\ Cardinality(Counted(k)) \in Nat
  BY FiniteCounts DEF IInv, CountersAreCounted, Counted
<1>12. CountersAreCounted'
  <2>1. Cardinality(Counted(k)') = Cardinality(Counted(k)) + 1
    BY <1>10, OneMoreCounts DEF Counted
  <2>2. counter'[k] <= Cardinality(Counted(k)')
    BY <1>7, <1>11, <2>1
  <2>3. ASSUME NEW c \in Clients, c # k
        PROVE  counter'[c] <= Cardinality(Counted(c)')
    BY <1>2, <1>5, <1>10, <2>3, CountersStayCounted DEF TypeOK
  <2>. QED  BY <2>2, <2>3 DEF CountersAreCounted
<1>13. RejectedForOwnRequests'
  <2>1. ASSUME outcome'[r] = "rejected"
        PROVE  (Cardinality(Counted(client[r]) \ {r}) >= Limit)'
    <3>1. counter[k] >= Limit
      BY <1>1, <1>7, <2>1, LimitIsPositive DEF IInv, TypeOK, Verdict
    <3>2. Counted(k)' \ {r} = Counted(k)
      BY <1>10
    <3>3. Cardinality(Counted(k)' \ {r}) >= Limit
      BY <1>7, <1>11, <3>1, <3>2, LimitIsPositive
    <3>. QED  BY <1>1, <3>3
  <2>2. ASSUME NEW q \in Requests, q # r, outcome'[q] = "rejected"
        PROVE  (Cardinality(Counted(client[q]) \ {q}) >= Limit)'
    <3>1. outcome[q] = "rejected" /\ client'[q] = client[q]
      BY <1>1, <2>2 DEF IInv, TypeOK
    <3>. QED  BY <1>2, <1>10, <3>1, RejectionsLast
  <2>. QED  BY <2>1, <2>2 DEF RejectedForOwnRequests
<1>14. LastingOnlyAfterFailure'
  <2>1. ASSUME counter[k] # 0, k \notin lifetime
        PROVE  \E q \in Requests :
                 client'[q] = k /\ (pc'[q] = "expiring" \/ outcome'[q] \in Unanswered)
    BY <1>1, <2>1 DEF IInv, TypeOK, LastingOnlyAfterFailure
  <2>2. ASSUME counter[k] = 0
        PROVE  client'[r] = k /\ (pc'[r] = "expiring" \/ outcome'[r] \in Unanswered)
    BY <1>1, <2>2 DEF IInv, TypeOK
  <2>3. ASSUME NEW c \in Clients, c # k, counter[c] # 0, c \notin lifetime
        PROVE  \E q \in Requests :
                 client'[q] = c /\ (pc'[q] = "expiring" \/ outcome'[q] \in Unanswered)
    BY <1>1, <2>3 DEF IInv, TypeOK, LastingOnlyAfterFailure
  <2>. QED  BY <1>1, <1>5, <2>1, <2>2, <2>3 DEF LastingOnlyAfterFailure
<1>. QED  BY <1>2, <1>3, <1>4, <1>9, <1>12, <1>13, <1>14 DEF IInv

\* Redis forgets counters.
LEMMA RemovalPreserves ==
    ASSUME IInv, Restart \/ \E c \in Clients : Expire(c)
    PROVE  IInv'
<1>1. /\ UNCHANGED <<pc, client, outcome>>
      /\ \A c \in Clients :
            \/ counter'[c] = 0 /\ window'[c] = {}
            \/ /\ counter'[c] = counter[c] /\ window'[c] = window[c]
               /\ c \in lifetime => c \in lifetime'
  BY DEF IInv, TypeOK, Restart, Expire, Remove
<1>2. TypeOK'
  BY DEF IInv, TypeOK, Restart, Expire, Remove
<1>3. StagesFit' /\ WindowsAreOwn' /\ LastingOnlyAfterFailure'
  BY <1>1 DEF IInv, StagesFit, WindowsAreOwn, LastingOnlyAfterFailure
<1>4. CountersBoundPassed' /\ WithinLimit'
  <2>1. ASSUME NEW c \in Clients, window'[c] = {}
        PROVE  Cardinality(Passed(c)') = 0
    <3>1. Passed(c)' = {}
      BY <2>1 DEF Passed
    <3>. QED  BY <3>1, FS_EmptySet
  <2>2. ASSUME NEW c \in Clients, counter'[c] = counter[c], window'[c] = window[c]
        PROVE  Passed(c)' = Passed(c)
    BY <1>1, <2>2 DEF Passed
  <2>. QED
    BY <1>1, <2>1, <2>2, LimitIsPositive DEF IInv, TypeOK, CountersBoundPassed, WithinLimit
<1>5. \A c \in Clients : Counted(c)' = Counted(c) /\ Counted(c) \in SUBSET Requests
  BY <1>1 DEF Counted
<1>6. CountersAreCounted'
  BY <1>1, <1>2, <1>5, CountersStayCounted DEF IInv, TypeOK, CountersAreCounted
<1>7. RejectedForOwnRequests'
  BY <1>1, <1>2, <1>5, RejectionsLast DEF RejectedForOwnRequests
<1>. QED  BY <1>2, <1>3, <1>4, <1>6, <1>7 DEF IInv

LEMMA InitIsSafe == Init => IInv
<1>. SUFFICES ASSUME Init PROVE IInv
  OBVIOUS
<1>1. TypeOK /\ StagesFit /\ WindowsAreOwn /\ RejectedForOwnRequests /\ LastingOnlyAfterFailure
  BY DEF Init, TypeOK, Outcomes, StagesFit, WindowsAreOwn, RejectedForOwnRequests,
     LastingOnlyAfterFailure
<1>2. ASSUME NEW c \in Clients
      PROVE  Passed(c) = {} /\ Cardinality(Counted(c)) \in Nat
  BY FiniteCounts DEF Init, Passed, Counted
<1>3. ASSUME NEW c \in Clients
      PROVE  /\ counter[c] = 0 /\ Cardinality(Passed(c)) = 0
             /\ 0 <= Cardinality(Counted(c))
  BY <1>2, FS_EmptySet DEF Init
<1>4. 0 <= Limit
  BY LimitIsPositive
<1>5. CountersBoundPassed /\ WithinLimit /\ CountersAreCounted
  BY <1>3, <1>4 DEF CountersBoundPassed, WithinLimit, CountersAreCounted
<1>. QED  BY <1>1, <1>5 DEF IInv

LEMMA StutteringIsSafe == IInv /\ UNCHANGED vars => IInv'
  BY DEF vars, IInv, TypeOK, StagesFit, WindowsAreOwn, CountersBoundPassed, WithinLimit,
     Passed, CountersAreCounted, Counted, RejectedForOwnRequests, LastingOnlyAfterFailure

LEMMA NextIsSafe == IInv /\ [Next]_vars => IInv'
<1>1. IInv /\ Next => (\E r \in Requests : Quiet(r) \/ Counts(r))
                      \/ Restart \/ \E c \in Clients : Expire(c)
  BY DEF Next, Quiet, Counts, CountUnanswered
<1>. QED  BY <1>1, QuietPreserves, CountPreserves, RemovalPreserves, StutteringIsSafe

(* Every reachable state satisfies the inductive invariant: a counter lies
   between the requests it has let through and the requests of its client that
   have reached Redis (rate_limit.py, dispatch and _hit). *)
THEOREM Safe == Spec => []IInv
  BY InitIsSafe, NextIsSafe, PTL DEF Spec

(* The variables of the limiter keep their types (rate_limit.py). *)
THEOREM TypesAreKept == Spec => []TypeOK
<1>1. IInv => TypeOK
  BY DEF IInv
<1>. QED  BY <1>1, Safe, PTL

(* No counter ever lets more than Limit requests through, for any limit and any
   number of requests and clients, although INCR and EXPIRE are two commands and
   Redis may lose its keys between them (rate_limit.py, dispatch and _hit). *)
THEOREM LimitIsKept == Spec => []WithinLimit
<1>1. IInv => WithinLimit
  BY DEF IInv
<1>. QED  BY <1>1, Safe, PTL

(* A rejected request has at least Limit other requests of its own client behind
   it (the key of rate_limit.py is the address of the client). *)
THEOREM RejectionsAreJust == Spec => []RejectedForOwnRequests
<1>1. IInv => RejectedForOwnRequests
  BY DEF IInv
<1>. QED  BY <1>1, Safe, PTL

(* Without a failed or aborted request of the client every counter has, or is
   about to get, a lifetime (rate_limit.py, the call of expire). *)
THEOREM LastingCountersHaveACause == Spec => []LastingOnlyAfterFailure
<1>1. IInv => LastingOnlyAfterFailure
  BY DEF IInv
<1>. QED  BY <1>1, Safe, PTL

-----------------------------------------------------------------------------
(* The number INCR answers is exact: how many requests of the client the present
   counter has counted, whoever sent the commands and whatever was lost. *)

CountersAreExact == \A c \in Clients : counter[c] = Cardinality(window[c])

\* INCR decides by the present counter alone: a request it turns away finds Limit
\* requests of its own client counted since that counter began, one it serves
\* finds fewer.
VerdictsFitTheWindow ==
    [][\A r \in Requests :
         /\ outcome[r] = "none" /\ outcome'[r] = "rejected" =>
               /\ \A q \in window[client[r]] : q # r /\ client[q] = client[r]
               /\ Cardinality(window[client[r]]) >= Limit
         /\ pc[r] = "counting" /\ outcome'[r] = "served" =>
               Cardinality(window[client[r]]) < Limit]_vars

LEMMA CountersStayExact == IInv /\ CountersAreExact /\ [Next]_vars => CountersAreExact'
<1>. SUFFICES ASSUME IInv, CountersAreExact, [Next]_vars PROVE CountersAreExact'
  OBVIOUS
<1>1. CASE UNCHANGED <<counter, window>>
  BY <1>1 DEF CountersAreExact
<1>2. ASSUME NEW r \in Requests, Counts(r)
      PROVE  CountersAreExact'
  <2>1. PICK k \in Clients : client[r] = k
    BY <1>2 DEF IInv, StagesFit, Counts, Count, CountUnanswered
  <2>2. /\ pc[r] = "counting"
        /\ counter' = [counter EXCEPT ![k] = @ + 1]
        /\ window' = [window EXCEPT ![k] = @ \cup {r}]
    BY <1>2, <2>1 DEF Counts, Count, CountUnanswered, Increment, Key
  <2>3. window[k] \in SUBSET Requests /\ r \notin window[k]
    BY <2>2 DEF IInv, TypeOK, WindowsAreOwn
  <2>4. Cardinality(window'[k]) = Cardinality(window[k]) + 1
    BY <2>2, <2>3, OneMoreCounts DEF IInv, TypeOK
  <2>. QED  BY <2>2, <2>4 DEF IInv, TypeOK, CountersAreExact
<1>3. CASE Restart \/ \E c \in Clients : Expire(c)
  <2>1. \A c \in Clients : \/ counter'[c] = 0 /\ window'[c] = {}
                           \/ counter'[c] = counter[c] /\ window'[c] = window[c]
    BY <1>3 DEF IInv, TypeOK, Restart, Expire, Remove
  <2>. QED  BY <2>1, FS_EmptySet DEF CountersAreExact
<1>. QED
  BY <1>1, <1>2, <1>3
  DEF Next, vars, Counts, Receive, ServeExempt, StartWindow, StartUnanswered, CountUnanswered

(* A counter is the number of requests of its client since it began, for any
   number of replicas, failures and restarts (rate_limit.py, _hit). *)
THEOREM CountsAreExact == Spec => []CountersAreExact
<1>1. Init => CountersAreExact
  BY FS_EmptySet DEF Init, CountersAreExact
<1>. QED  BY <1>1, CountersStayExact, Safe, PTL DEF Spec

(* Who is turned away and who is served at its INCR is decided by the requests
   of its own client in the present window, and by nothing before (rate_limit.py,
   dispatch: count > limit). *)
THEOREM VerdictsAreExact == Spec => VerdictsFitTheWindow
<1>1. ASSUME IInv, CountersAreExact, Next, NEW r \in Requests
      PROVE  /\ outcome[r] = "none" /\ outcome'[r] = "rejected" =>
                   /\ \A q \in window[client[r]] : q # r /\ client[q] = client[r]
                   /\ Cardinality(window[client[r]]) >= Limit
             /\ pc[r] = "counting" /\ outcome'[r] = "served" =>
                   Cardinality(window[client[r]]) < Limit
  <2>. SUFFICES ASSUME \/ outcome[r] = "none" /\ outcome'[r] = "rejected"
                       \/ pc[r] = "counting" /\ outcome'[r] = "served"
                PROVE  /\ outcome'[r] = "rejected" =>
                             /\ \A q \in window[client[r]] : q # r /\ client[q] = client[r]
                             /\ Cardinality(window[client[r]]) >= Limit
                       /\ outcome'[r] = "served" => Cardinality(window[client[r]]) < Limit
    OBVIOUS
  <2>1. outcome[r] = "none"
    BY <1>1 DEF IInv, StagesFit
  <2>2. Count(r)
    BY <1>1, <2>1, FirstIsServed
    DEF IInv, TypeOK, StagesFit, Next, Receive, ServeExempt, Count, StartWindow,
        CountUnanswered, StartUnanswered, Expire, Remove, Restart, Goto, End
  <2>3. client[r] \in Clients /\ pc[r] = "counting"
    BY <1>1, <2>2 DEF IInv, StagesFit, Count
  <2>4. outcome'[r] = Verdict(counter[client[r]] + 1)
    BY <1>1, <2>1, <2>2 DEF IInv, TypeOK, Count, End, Key
  <2>5. counter[client[r]] = Cardinality(window[client[r]]) /\ counter[client[r]] \in Nat
    BY <1>1, <2>3 DEF IInv, TypeOK, CountersAreExact
  <2>6. \A q \in window[client[r]] : q # r /\ client[q] = client[r]
    BY <1>1, <2>3 DEF IInv, WindowsAreOwn
  <2>. QED  BY <2>4, <2>5, <2>6, LimitIsPositive DEF Verdict
<1>2. IInv /\ CountersAreExact /\ [Next]_vars =>
        [\A r \in Requests :
           /\ outcome[r] = "none" /\ outcome'[r] = "rejected" =>
                 /\ \A q \in window[client[r]] : q # r /\ client[q] = client[r]
                 /\ Cardinality(window[client[r]]) >= Limit
           /\ pc[r] = "counting" /\ outcome'[r] = "served" =>
                 Cardinality(window[client[r]]) < Limit]_vars
  BY <1>1
<1>. QED
  BY <1>2, CountsAreExact, Safe, PTL DEF Spec, VerdictsFitTheWindow
=============================================================================
