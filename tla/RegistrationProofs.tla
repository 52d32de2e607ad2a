-------------------------- MODULE RegistrationProofs --------------------------
(***************************************************************************)
(* Safety of Registration for every set of clients, runs, tenants, emails  *)
(* and users of the seeder.  An email in an open transaction is in no      *)
(* committed user and in no other open transaction of its tenant; a run    *)
(* has, for every tenant, all of its users or none.                        *)
(***************************************************************************)
EXTENDS Registration, TLAPS

\* The stages of an open unit of work.
Open == {"checking", "adding", "committing"}

StagesFit ==
    \A p \in Actors :
        /\ pc[p] \in Open => tenant[p] \in Tenants
        /\ pc[p] \notin Open => staged[p] = {}
        /\ pc[p] = "adding" => email[p] \in todo[p]
        /\ outcome[p] # "none" <=> pc[p] = "done"

\* A client registers one email, and no user before its commit is its own.
ClientsRegisterOnce ==
    \A r \in Requests :
        /\ pc[r] \in {"checking", "adding"} => staged[r] = {} /\ \E e \in Emails : todo[r] = {e}
        /\ \A u \in users : u.by = r => outcome[r] \in {"ok", "error"}
        /\ pc[r] # "between"

\* What a transaction has inserted is nobody else's.
StagedIsOwn ==
    \A p \in Actors : \A e \in staged[p] :
        /\ \A u \in users : ~(u.tenant = tenant[p] /\ u.email = e)
        /\ \A q \in Actors : tenant[q] = tenant[p] /\ e \in staged[q] => q = p

\* How far run p is with tenant t.
Progress(p, t) ==
    /\ pc[p] = "new" \/ t \in left[p] => RegisteredBy(p, t) = {}
    /\ pc[p] \in Open =>
          IF t = tenant[p]
          THEN /\ RegisteredBy(p, t) = {}
               /\ staged[p] \cup todo[p] = SeedOf(t)
               /\ t \notin left[p]
               /\ pc[p] = "committing" => todo[p] = {}
          ELSE t \notin left[p] => RegisteredBy(p, t) = SeedOf(t)
    /\ pc[p] = "between" /\ t \notin left[p] => RegisteredBy(p, t) = SeedOf(t)

RunsProgress == \A p \in Runs, t \in Tenants : Progress(p, t)

IInv ==
    /\ TypeOK
    /\ StagesFit
    /\ ClientsRegisterOnce
    /\ StagedIsOwn
    /\ RunsProgress
    /\ EmailsAreUnique
    /\ RefusedOnlyIfRegistered
    /\ TenantsAreSeededWhole

-----------------------------------------------------------------------------
(* The steps that change no user. *)

LEMMA ReceivePreserves ==
    ASSUME IInv, NEW r \in Requests, NEW c \in Calls, Receive(r, c[1], c[2])
    PROVE  IInv'
<1>. r \in Actors /\ c[1] \in Tenants /\ c[2] \in Emails /\ r \notin Runs
  BY PairsAreValid, RunsAreNoRequests DEF Actors
<1>1. TypeOK'
  BY DEF IInv, TypeOK, Receive, Goto
<1>2. StagesFit'
  BY DEF IInv, TypeOK, StagesFit, Open, Receive, Goto
<1>3. ClientsRegisterOnce'
  BY DEF IInv, TypeOK, StagesFit, Open, ClientsRegisterOnce, Receive, Goto, Actors
<1>4. StagedIsOwn'
  BY DEF IInv, TypeOK, StagesFit, Open, StagedIsOwn, Receive, Goto
<1>5. RunsProgress'
  BY RunsAreNoRequests
  DEF IInv, TypeOK, RunsProgress, Progress, RegisteredBy, Receive, Goto, Actors
<1>6. EmailsAreUnique'
  BY DEF IInv, EmailsAreUnique, Receive
<1>7. RefusedOnlyIfRegistered'
  BY DEF IInv, TypeOK, StagesFit, RefusedOnlyIfRegistered, Receive, Goto, Actors
<1>8. TenantsAreSeededWhole'
  BY DEF IInv, TenantsAreSeededWhole, RegisteredBy, Receive
<1>. QED  BY <1>1, <1>2, <1>3, <1>4, <1>5, <1>6, <1>7, <1>8 DEF IInv

LEMMA StartRunPreserves ==
    ASSUME IInv, NEW p \in Runs, StartRun(p)
    PROVE  IInv'
<1>. p \in Actors /\ p \notin Requests
  BY RunsAreNoRequests DEF Actors
<1>1. TypeOK'
  BY DEF IInv, TypeOK, StartRun, Goto
<1>2. StagesFit'
  BY DEF IInv, TypeOK, StagesFit, Open, StartRun, Goto
<1>3. ClientsRegisterOnce'
  BY DEF IInv, TypeOK, ClientsRegisterOnce, StartRun, Goto, Actors
<1>4. StagedIsOwn'
  BY DEF IInv, StagedIsOwn, StartRun
<1>5. RunsProgress'
  BY DEF IInv, TypeOK, RunsProgress, Progress, RegisteredBy, StartRun, Goto, Actors, Open
<1>6. EmailsAreUnique' /\ RefusedOnlyIfRegistered' /\ TenantsAreSeededWhole'
  BY DEF IInv, EmailsAreUnique, RefusedOnlyIfRegistered, TenantsAreSeededWhole, RegisteredBy,
     StartRun
<1>. QED  BY <1>1, <1>2, <1>3, <1>4, <1>5, <1>6 DEF IInv

\* Only a run is ever between two units of work.
LEMMA BetweenIsRun ==
    ASSUME IInv, NEW p \in Actors, pc[p] = "between"
    PROVE  p \in Runs /\ p \notin Requests
  BY RunsAreNoRequests DEF IInv, ClientsRegisterOnce, Actors

LEMMA BeginTenantPreserves ==
    ASSUME IInv, NEW p \in Actors, NEW t \in Tenants, BeginTenant(p, t)
    PROVE  IInv'
<1>. p \in Runs /\ p \notin Requests
  BY BetweenIsRun DEF BeginTenant
<1>1. TypeOK'
  BY DEF IInv, TypeOK, SeedOf, BeginTenant, Goto
<1>2. StagesFit'
  BY DEF IInv, TypeOK, StagesFit, Open, BeginTenant, Goto
<1>3. ClientsRegisterOnce'
  BY DEF IInv, TypeOK, ClientsRegisterOnce, BeginTenant, Goto, Actors
<1>4. StagedIsOwn'
  BY DEF IInv, TypeOK, StagesFit, Open, StagedIsOwn, BeginTenant
<1>5. RunsProgress'
  BY DEF IInv, TypeOK, StagesFit, RunsProgress, Progress, RegisteredBy, BeginTenant, Goto,
     Actors, Open
<1>6. EmailsAreUnique' /\ RefusedOnlyIfRegistered' /\ TenantsAreSeededWhole'
  BY DEF IInv, TypeOK, Actors, EmailsAreUnique, RefusedOnlyIfRegistered, TenantsAreSeededWhole,
     RegisteredBy, BeginTenant
<1>. QED  BY <1>1, <1>2, <1>3, <1>4, <1>5, <1>6 DEF IInv

LEMMA FinishRunPreserves ==
    ASSUME IInv, NEW p \in Actors, FinishRun(p)
    PROVE  IInv'
<1>. p \in Runs /\ p \notin Requests
  BY BetweenIsRun DEF FinishRun
<1>1. TypeOK'
  BY DEF IInv, TypeOK, FinishRun, End, Goto
<1>2. StagesFit'
  BY DEF IInv, TypeOK, StagesFit, Open, FinishRun, End, Goto
<1>3. ClientsRegisterOnce'
  BY DEF IInv, TypeOK, ClientsRegisterOnce, FinishRun, End, Goto, Actors
<1>4. StagedIsOwn'
  BY DEF IInv, StagedIsOwn, FinishRun
<1>5. RunsProgress'
  BY DEF IInv, TypeOK, RunsProgress, Progress, RegisteredBy, FinishRun, End, Goto, Actors, Open
<1>6. EmailsAreUnique' /\ RefusedOnlyIfRegistered'
  BY DEF IInv, TypeOK, Actors, EmailsAreUnique, RefusedOnlyIfRegistered, FinishRun, End
<1>7. TenantsAreSeededWhole'
  BY DEF IInv, TypeOK, Actors, RunsProgress, Progress, TenantsAreSeededWhole, RegisteredBy,
     FinishRun, End
<1>. QED  BY <1>1, <1>2, <1>3, <1>4, <1>5, <1>6, <1>7 DEF IInv

LEMMA FindFreePreserves ==
    ASSUME IInv, NEW p \in Actors, NEW e \in Emails, FindFree(p, e)
    PROVE  IInv'
<1>1. TypeOK'
  BY DEF IInv, TypeOK, FindFree, Goto
<1>2. StagesFit'
  BY DEF IInv, TypeOK, StagesFit, Open, FindFree, Goto
<1>3. ClientsRegisterOnce'
  BY DEF IInv, TypeOK, ClientsRegisterOnce, FindFree, Goto, Actors
<1>4. StagedIsOwn'
  BY DEF IInv, StagedIsOwn, FindFree
<1>5. RunsProgress'
  BY DEF IInv, TypeOK, RunsProgress, Progress, RegisteredBy, FindFree, Goto, Actors, Open
<1>6. EmailsAreUnique' /\ RefusedOnlyIfRegistered' /\ TenantsAreSeededWhole'
  BY DEF IInv, EmailsAreUnique, RefusedOnlyIfRegistered, TenantsAreSeededWhole, RegisteredBy,
     FindFree
<1>. QED  BY <1>1, <1>2, <1>3, <1>4, <1>5, <1>6 DEF IInv

LEMMA InsertPreserves ==
    ASSUME IInv, NEW p \in Actors, Insert(p)
    PROVE  IInv'
<1>. email[p] \in Emails /\ email[p] \in todo[p] /\ tenant[p] \in Tenants
  BY DEF IInv, TypeOK, StagesFit, Open, Insert
<1>1. TypeOK'
  BY DEF IInv, TypeOK, Insert, StageAfterInsert, Goto
<1>2. StagesFit'
  BY DEF IInv, TypeOK, StagesFit, Open, Insert, StageAfterInsert, Goto
<1>3. ClientsRegisterOnce'
  BY DEF IInv, TypeOK, ClientsRegisterOnce, Insert, StageAfterInsert, Goto, Actors
<1>4. StagedIsOwn'
  BY DEF IInv, TypeOK, StagedIsOwn, Insert, Blocked, Taken
<1>5. RunsProgress'
  BY DEF IInv, TypeOK, RunsProgress, Progress, RegisteredBy, Insert, StageAfterInsert, Goto,
     Actors, Open
<1>6. EmailsAreUnique' /\ TenantsAreSeededWhole'
  BY DEF IInv, EmailsAreUnique, TenantsAreSeededWhole, RegisteredBy, Insert
<1>7. RefusedOnlyIfRegistered'
  BY DEF IInv, TypeOK, StagesFit, RefusedOnlyIfRegistered, Insert, Actors
<1>. QED  BY <1>1, <1>2, <1>3, <1>4, <1>5, <1>6, <1>7 DEF IInv

\* A client may fail with a refusal only when another has registered its email.
LEMMA FailPreserves ==
    ASSUME IInv, NEW p \in Actors, NEW result \in {"conflict", "violation", "refused", "error"},
           Fail(p, result), pc[p] \in Open \cup {"between"},
           p \in Requests /\ result \in {"conflict", "violation"} =>
              \E u \in users : u.tenant = tenant[p] /\ u.email \in todo[p]
    PROVE  IInv'
<1>1. TypeOK'
  BY DEF IInv, TypeOK, Fail, End, Goto
<1>2. StagesFit'
  BY DEF IInv, TypeOK, StagesFit, Open, Fail, End, Goto
<1>3. outcome[p] = "none"
  BY DEF IInv, StagesFit, Open
<1>4. ClientsRegisterOnce'
  BY <1>3 DEF IInv, TypeOK, ClientsRegisterOnce, Fail, End, Goto, Actors
<1>5. StagedIsOwn'
  BY DEF IInv, TypeOK, StagedIsOwn, Fail
<1>6. RunsProgress'
  BY DEF IInv, TypeOK, RunsProgress, Progress, RegisteredBy, Fail, End, Goto, Actors, Open
<1>7. EmailsAreUnique'
  BY DEF IInv, EmailsAreUnique, Fail
<1>8. RefusedOnlyIfRegistered'
  BY <1>3 DEF IInv, TypeOK, ClientsRegisterOnce, RefusedOnlyIfRegistered, Fail, End, Actors
<1>9. TenantsAreSeededWhole'
  BY DEF IInv, TypeOK, TenantsAreSeededWhole, RegisteredBy, Fail, End, Actors
<1>. QED  BY <1>1, <1>2, <1>4, <1>5, <1>6, <1>7, <1>8, <1>9 DEF IInv

LEMMA FailuresPreserve ==
    ASSUME IInv, NEW p \in Actors,
           \/ \E e \in Emails : Conflict(p, e)
           \/ Refuse(p)
           \/ Violate(p)
           \/ Abort(p)
    PROVE  IInv'
<1>1. CASE \E e \in Emails : Conflict(p, e)
  <2>. PICK e \in Emails : Conflict(p, e)
    BY <1>1
  <2>1. p \in Requests => \E u \in users : u.tenant = tenant[p] /\ u.email \in todo[p]
    BY DEF IInv, ClientsRegisterOnce, Conflict, Registered
  <2>. QED  BY <2>1, FailPreserves DEF Conflict, Open
<1>2. CASE Violate(p)
  <2>1. \E u \in users : u.tenant = tenant[p] /\ u.email \in todo[p]
    BY <1>2 DEF IInv, StagesFit, Violate, Taken
  <2>. QED  BY <1>2, <2>1, FailPreserves DEF Violate, Open
<1>3. CASE Refuse(p) \/ Abort(p)
  <2>1. pc[p] \in Open \cup {"between"}
    BY <1>3 DEF IInv, TypeOK, Refuse, Abort, Open
  <2>. QED  BY <1>3, <2>1, FailPreserves DEF Refuse, Abort
<1>. QED  BY <1>1, <1>2, <1>3

-----------------------------------------------------------------------------
(* The commits. *)

LEMMA CommitPreserves ==
    ASSUME IInv, NEW p \in Actors, Commit(p) \/ CommitUnacknowledged(p)
    PROVE  IInv'
<1>1. /\ pc[p] = "committing" /\ tenant[p] \in Tenants /\ outcome[p] = "none"
      /\ TakeEffect(p)
      /\ \/ p \in Requests /\ End(p, "ok")
         \/ p \in Runs /\ Goto(p, "between") /\ UNCHANGED outcome
         \/ End(p, "error")
  BY DEF IInv, StagesFit, Open, Commit, CommitUnacknowledged
<1>2. TypeOK'
  BY <1>1 DEF IInv, TypeOK, User, TakeEffect, End, Goto
<1>3. StagesFit'
  BY <1>1 DEF IInv, TypeOK, StagesFit, Open, TakeEffect, End, Goto
<1>4. \A u \in users' : u \in users \/ (u.by = p /\ u.tenant = tenant[p] /\ u.email \in staged[p])
  BY <1>1 DEF TakeEffect
<1>5. ClientsRegisterOnce'
  BY <1>1, <1>4, RunsAreNoRequests
  DEF IInv, TypeOK, ClientsRegisterOnce, TakeEffect, End, Goto, Actors
<1>6. StagedIsOwn'
  BY <1>1, <1>4 DEF IInv, TypeOK, StagedIsOwn, TakeEffect
<1>7. \A q \in Actors, t \in Tenants :
         RegisteredBy(q, t)' = IF q = p /\ t = tenant[p]
                               THEN RegisteredBy(q, t) \cup staged[p]
                               ELSE RegisteredBy(q, t)
  BY <1>1 DEF IInv, TypeOK, RegisteredBy, TakeEffect
<1>8. ASSUME NEW q \in Runs, NEW t \in Tenants
      PROVE  Progress(q, t)' /\ RegisteredBy(q, t)' \in {{}, SeedOf(t)}
  <2>. q \in Actors /\ q \notin Requests
    BY RunsAreNoRequests DEF Actors
  <2>1. Progress(q, t) /\ RegisteredBy(q, t) \in {{}, SeedOf(t)}
    BY DEF IInv, RunsProgress, TenantsAreSeededWhole
  <2>2. /\ tenant' = tenant /\ left' = left /\ todo' = todo
        /\ staged' = [staged EXCEPT ![p] = {}]
    BY <1>1 DEF TakeEffect
  <2>3. CASE q # p
    <3>1. pc'[q] = pc[q] /\ staged'[q] = staged[q] /\ RegisteredBy(q, t)' = RegisteredBy(q, t)
      BY <1>1, <1>7, <2>2, <2>3 DEF IInv, TypeOK, End, Goto
    <3>. QED  BY <2>1, <2>2, <3>1 DEF Progress
  <2>4. CASE q = p
    <3>1. pc'[p] \in {"between", "done"}
      BY <1>1 DEF IInv, TypeOK, End, Goto
    <3>2. CASE t = tenant[p]
      <4>1. RegisteredBy(p, t) = {} /\ staged[p] = SeedOf(t) /\ t \notin left[p]
        BY <1>1, <2>1, <2>4, <3>2 DEF Progress, Open
      <4>2. RegisteredBy(p, t)' = SeedOf(t)
        BY <1>7, <3>2, <4>1
      <4>. QED  BY <2>2, <2>4, <3>1, <4>1, <4>2 DEF Progress, Open
    <3>3. CASE t # tenant[p]
      <4>1. RegisteredBy(p, t)' = RegisteredBy(p, t)
        BY <1>7, <3>3
      <4>. QED  BY <1>1, <2>1, <2>2, <2>4, <3>1, <3>3, <4>1 DEF Progress, Open
    <3>. QED  BY <3>2, <3>3
  <2>. QED  BY <2>3, <2>4
<1>9. EmailsAreUnique'
  BY <1>1, <1>4 DEF IInv, TypeOK, User, StagedIsOwn, EmailsAreUnique, TakeEffect
<1>10. RefusedOnlyIfRegistered'
  BY <1>1 DEF IInv, TypeOK, RefusedOnlyIfRegistered, TakeEffect, End, Actors
<1>11. TenantsAreSeededWhole'
  <2>1. \A q \in Runs : outcome'[q] = "ok" => q # p /\ outcome[q] = "ok"
    BY <1>1, RunsAreNoRequests DEF IInv, TypeOK, End, Actors
  <2>2. \A q \in Runs, t \in Tenants : q # p => RegisteredBy(q, t)' = RegisteredBy(q, t)
    BY <1>7 DEF Actors
  <2>. QED  BY <1>8, <2>1, <2>2 DEF IInv, TenantsAreSeededWhole, SeedOf
<1>12. RunsProgress'
  BY <1>8 DEF RunsProgress
<1>. QED  BY <1>2, <1>3, <1>5, <1>6, <1>9, <1>10, <1>11, <1>12 DEF IInv

LEMMA InitIsSafe == Init => IInv
  BY NoneIsNothing
  DEF Init, IInv, TypeOK, StagesFit, Open, ClientsRegisterOnce, StagedIsOwn, RunsProgress,
      Progress, RegisteredBy, EmailsAreUnique, RefusedOnlyIfRegistered, TenantsAreSeededWhole, Actors

LEMMA StutteringIsSafe == IInv /\ UNCHANGED vars => IInv'
  BY DEF vars, IInv, TypeOK, StagesFit, Open, ClientsRegisterOnce, StagedIsOwn, RunsProgress,
     Progress,
      RegisteredBy, EmailsAreUnique, RefusedOnlyIfRegistered, TenantsAreSeededWhole

LEMMA NextIsSafe == IInv /\ [Next]_vars => IInv'
<1>. SUFFICES ASSUME IInv, [Next]_vars PROVE IInv'
  OBVIOUS
<1>1. CASE \E r \in Requests : (\E c \in Calls : Receive(r, c[1], c[2])) \/ Refuse(r)
  BY <1>1, ReceivePreserves, FailuresPreserve DEF Actors
<1>2. CASE \E p \in Runs : StartRun(p)
  BY <1>2, StartRunPreserves
<1>3. CASE \E p \in Actors : Step(p) \/ CommitUnacknowledged(p) \/ Abort(p)
  BY <1>3, BeginTenantPreserves, FinishRunPreserves, FindFreePreserves, InsertPreserves,
     FailuresPreserve, CommitPreserves
  DEF Step
<1>. QED  BY <1>1, <1>2, <1>3, StutteringIsSafe DEF Next

(* Every reachable state satisfies the inductive invariant: what an open
   transaction has inserted is nobody else's, and a run is done with a tenant
   or has nothing of it (register_user.py, seed.py). *)
THEOREM Safe == Spec => []IInv
  BY InitIsSafe, NextIsSafe, PTL DEF Spec

(* The variables of registrations and runs keep their types (register_user.py). *)
THEOREM TypesAreKept == Spec => []TypeOK
<1>1. IInv => TypeOK
  BY DEF IInv
<1>. QED  BY <1>1, Safe, PTL

(* An email belongs to one user of a tenant, for any number of clients and runs
   that look it up before any of them inserts it (uq_users_tenant_email). *)
THEOREM NoEmailTwice == Spec => []EmailsAreUnique
<1>1. IInv => EmailsAreUnique
  BY DEF IInv
<1>. QED  BY <1>1, Safe, PTL

(* A client is turned away only for an email that another has registered
   (email_uniqueness.py, and the index behind it). *)
THEOREM RefusalsAreJust == Spec => []RefusedOnlyIfRegistered
<1>1. IInv => RefusedOnlyIfRegistered
  BY DEF IInv
<1>. QED  BY <1>1, Safe, PTL

(* The seeder leaves every tenant whole or untouched, wherever it fails and
   whatever clients register meanwhile (seed.py, one unit of work per tenant). *)
THEOREM SeedingIsWhole == Spec => []TenantsAreSeededWhole
<1>1. IInv => TenantsAreSeededWhole
  BY DEF IInv
<1>. QED  BY <1>1, Safe, PTL

-----------------------------------------------------------------------------
(***************************************************************************)
(* Who waits for whom, and what a transaction has still to insert.         *)
(***************************************************************************)
RunsAreSerial ==
    \A p, q \in Runs : pc[p] \notin {"new", "done"} /\ pc[q] \notin {"new", "done"} => p = q

TodoIsLeft == \A p \in Actors : staged[p] \cap todo[p] = {}

ClientsStageOne ==
    \A r \in Requests : pc[r] = "committing" => \E e \in Emails : staged[r] = {e}

Orderly == IInv /\ RunsAreSerial /\ TodoIsLeft /\ ClientsStageOne

LEMMA RunsStaySerial == IInv /\ RunsAreSerial /\ [Next]_vars => RunsAreSerial'
<1>. SUFFICES ASSUME IInv, RunsAreSerial, [Next]_vars PROVE RunsAreSerial'
  OBVIOUS
<1>. DEFINE Active(q) == pc[q] \notin {"new", "done"}
<1>1. CASE \E p \in Runs : StartRun(p)
  <2>1. PICK p \in Runs : StartRun(p)
    BY <1>1
  <2>2. \A q \in Runs \ {p} : ~Active(q)'
    BY <2>1 DEF IInv, TypeOK, StartRun, Goto
  <2>. QED  BY <2>2 DEF RunsAreSerial
<1>2. CASE ~\E p \in Runs : StartRun(p)
  <2>1. \A q \in Runs : Active(q)' => Active(q)
    BY <1>2, RunsAreNoRequests
    DEF IInv, TypeOK, Actors, Next, Step, Receive, Refuse, BeginTenant, FinishRun, FindFree,
        Conflict, Insert, Violate, Commit, CommitUnacknowledged, Abort, Fail, End, Goto, vars
  <2>. QED  BY <2>1 DEF RunsAreSerial
<1>. QED  BY <1>1, <1>2

LEMMA TodoStaysLeft == IInv /\ TodoIsLeft /\ [Next]_vars => TodoIsLeft'
<1>. SUFFICES ASSUME IInv, TodoIsLeft, [Next]_vars, NEW q \in Actors
              PROVE  staged'[q] \cap todo'[q] = {}
  BY DEF TodoIsLeft
<1>. USE DEF IInv, TypeOK, TodoIsLeft
<1>1. CASE \E r \in Requests, c \in Calls : Receive(r, c[1], c[2])
  BY <1>1 DEF Receive, StagesFit, Open, Actors
<1>2. CASE \E p \in Actors, t \in Tenants : BeginTenant(p, t)
  BY <1>2 DEF BeginTenant, StagesFit, Open
<1>3. CASE \E p \in Actors : Insert(p)
  BY <1>3 DEF Insert
<1>4. CASE UNCHANGED todo /\ (UNCHANGED staged \/ \E p \in Actors : staged' = [staged EXCEPT ![p] = {}])
  BY <1>4
<1>. QED
  BY <1>1, <1>2, <1>3, <1>4
  DEF Actors, Next, Step, StartRun, Refuse, FinishRun, FindFree, Conflict, Violate, Commit,
      CommitUnacknowledged, TakeEffect, Abort, Fail, vars

LEMMA ClientsStillStageOne == IInv /\ ClientsStageOne /\ [Next]_vars => ClientsStageOne'
<1>. SUFFICES ASSUME IInv, ClientsStageOne, [Next]_vars, NEW r \in Requests, pc'[r] = "committing"
              PROVE  \E e \in Emails : staged'[r] = {e}
  BY DEF ClientsStageOne
<1>. r \in Actors
  BY DEF Actors
<1>. USE DEF IInv, TypeOK
<1>1. CASE Insert(r)
  <2>1. staged[r] = {} /\ email[r] \in Emails
    BY <1>1 DEF Insert, ClientsRegisterOnce, StagesFit
  <2>2. staged'[r] = {email[r]}
    BY <1>1, <2>1 DEF Insert
  <2>. QED  BY <2>1, <2>2
<1>2. CASE ~Insert(r)
  <2>1. pc[r] = "committing" /\ staged'[r] = staged[r]
    BY <1>2
    DEF Actors, Next, Step, Receive, StartRun, Refuse, BeginTenant, FinishRun, FindFree, Conflict,
        Insert, Violate, Commit, CommitUnacknowledged, TakeEffect, Abort, Fail, End, Goto, vars
  <2>. QED  BY <2>1 DEF ClientsStageOne
<1>. QED  BY <1>1, <1>2

LEMMA SafeAndOrderly == Spec => []Orderly
<1>1. Init => Orderly
  BY InitIsSafe DEF Init, Orderly, RunsAreSerial, TodoIsLeft, ClientsStageOne, Actors
<1>2. Orderly /\ [Next]_vars => Orderly'
  BY NextIsSafe, RunsStaySerial, TodoStaysLeft, ClientsStillStageOne DEF Orderly
<1>. QED  BY <1>1, <1>2, PTL DEF Spec

(***************************************************************************)
(* Nobody waits in a circle for an entry of the index: of a chain of three *)
(* the last is committing (uq_users_tenant_email; the seeder, which holds  *)
(* several entries while it waits for one, runs once at a time).           *)
(***************************************************************************)
THEOREM NobodyWaitsInACircle == Spec => []WaitsAreShort
<1>1. ASSUME Orderly, NEW p \in Actors, NEW q \in Actors, NEW s \in Actors,
             WaitsFor(p, q), WaitsFor(q, s)
      PROVE  pc[s] = "committing"
  <2>1. pc[s] \in Open /\ staged[s] # {} /\ staged[q] # {} /\ pc[q] = "adding" /\ s # q
    BY <1>1 DEF Orderly, IInv, StagesFit, WaitsFor
  <2>2. q \in Runs
    BY <1>1, <2>1 DEF Orderly, IInv, ClientsRegisterOnce, Actors
  <2>3. s \in Requests
    BY <1>1, <2>1, <2>2 DEF Orderly, RunsAreSerial, Open, Actors
  <2>. QED  BY <1>1, <2>1, <2>3 DEF Orderly, IInv, ClientsRegisterOnce, Open
<1>2. Orderly => WaitsAreShort
  BY <1>1 DEF WaitsAreShort
<1>. QED  BY <1>2, SafeAndOrderly, PTL

-----------------------------------------------------------------------------
(***************************************************************************)
(* Registration implements UserDirectory: a commit is the entry, and every *)
(* other step is an answer or nothing that a caller could tell.            *)
(***************************************************************************)
LEMMA PromisedInit == Init => Promise!Init
  BY DEF Init, Promise!Init, Promise!Askers, Actors

LEMMA CommitIsEntry ==
    ASSUME Orderly, NEW p \in Actors, Commit(p) \/ CommitUnacknowledged(p)
    PROVE  Promise!Next
<1>1. /\ tenant[p] \in Tenants /\ staged[p] \in SUBSET Emails
      /\ outcome[p] = "none" /\ pc[p] = "committing"
  BY DEF Orderly, IInv, TypeOK, StagesFit, Open, Commit, CommitUnacknowledged
<1>2. Promise!Enter(p, tenant[p], staged[p])
  <2>1. \A u \in users : ~(u.tenant = tenant[p] /\ u.email \in staged[p])
    BY DEF Orderly, IInv, StagedIsOwn
  <2>. QED  BY <2>1 DEF Promise!Enter, Promise!Free, Commit, CommitUnacknowledged, TakeEffect
<1>3. CASE p \in Requests
  <2>1. Promise!Tell(p, "ok") \/ Promise!Tell(p, "error")
    BY <1>1, <1>3, RunsAreNoRequests DEF Promise!Tell, Commit, CommitUnacknowledged, End
  <2>2. PICK e \in Emails : staged[p] = {e}
    BY <1>1, <1>3 DEF Orderly, ClientsStageOne
  <2>3. Promise!Register(p, tenant[p], e)
    BY <1>2, <2>1, <2>2 DEF Promise!Register
  <2>. QED  BY <1>1, <1>3, <2>3 DEF Promise!Next
<1>4. CASE p \in Runs
  <2>1. UNCHANGED outcome \/ Promise!Tell(p, "error")
    BY <1>1, <1>4, RunsAreNoRequests DEF Promise!Tell, Commit, CommitUnacknowledged, End
  <2>2. Promise!EnterTenant(p, tenant[p], staged[p])
    BY <1>1, <1>2, <2>1 DEF Promise!EnterTenant
  <2>. QED  BY <1>1, <1>4, <2>2 DEF Promise!Next
<1>. QED  BY <1>3, <1>4 DEF Actors

\* An open transaction has no user among the committed ones of its tenant.
LEMMA OthersRegistered ==
    ASSUME Orderly, NEW p \in Actors, pc[p] \in Open,
           NEW u \in users, u.tenant = tenant[p]
    PROVE  u.by # p
<1>1. CASE p \in Requests
  BY <1>1 DEF Orderly, IInv, ClientsRegisterOnce, StagesFit, Open
<1>2. CASE p \in Runs
  <2>1. RegisteredBy(p, tenant[p]) = {}
    BY <1>2 DEF Orderly, IInv, StagesFit, RunsProgress, Progress
  <2>2. u.by = p => u = [tenant |-> tenant[p], email |-> u.email, by |-> p] /\ u.email \in Emails
    BY DEF Orderly, IInv, TypeOK, User
  <2>. QED  BY <2>1, <2>2 DEF RegisteredBy
<1>. QED  BY <1>1, <1>2 DEF Actors

LEMMA FailureIsAnswer ==
    ASSUME Orderly, NEW p \in Actors,
           \/ \E e \in Emails : Conflict(p, e)
           \/ Refuse(p) \/ Violate(p) \/ Abort(p)
    PROVE  Promise!Next
<1>1. p \in Promise!Askers
  BY DEF Actors, Promise!Askers
<1>2. CASE \E e \in Emails : Conflict(p, e)
  <2>1. PICK e \in Emails : Conflict(p, e)
    BY <1>2
  <2>2. PICK u \in users : u.tenant = tenant[p] /\ u.email = e
    BY <2>1 DEF Orderly, TodoIsLeft, Conflict, Registered
  <2>3. u.by # p /\ outcome[p] = "none"
    BY <2>1, <2>2, OthersRegistered DEF Orderly, IInv, StagesFit, Open, Conflict
  <2>4. Promise!TurnAway(p, u)
    BY <2>1, <2>3 DEF Promise!TurnAway, Promise!Tell, Conflict, Fail, End
  <2>. QED  BY <1>1, <2>4 DEF Promise!Next
<1>3. CASE Violate(p)
  <2>1. PICK u \in users : u.tenant = tenant[p] /\ u.email = email[p]
    BY <1>3 DEF Violate, Taken
  <2>2. u.by # p /\ outcome[p] = "none"
    BY <1>3, <2>1, OthersRegistered DEF Orderly, IInv, StagesFit, Open, Violate
  <2>3. Promise!TurnAway(p, u)
    BY <1>3, <2>2 DEF Promise!TurnAway, Promise!Tell, Violate, Fail, End
  <2>. QED  BY <1>1, <2>3 DEF Promise!Next
<1>4. CASE Refuse(p) \/ Abort(p)
  <2>1. outcome[p] = "none"
    BY <1>4 DEF Orderly, IInv, StagesFit, Refuse, Abort
  <2>2. Promise!GiveUp(p)
    BY <1>4, <2>1 DEF Promise!GiveUp, Promise!Tell, Refuse, Abort, Fail, End
  <2>. QED  BY <1>1, <2>2 DEF Promise!Next
<1>. QED  BY <1>2, <1>3, <1>4

LEMMA StepIsPromised ==
    ASSUME Orderly, [Next]_vars
    PROVE  [Promise!Next]_Promise!vars
<1>1. CASE UNCHANGED <<users, outcome>>
  BY <1>1 DEF Promise!vars
<1>2. ASSUME NEW p \in Actors, FinishRun(p)
      PROVE  Promise!Next
  <2>1. p \in Runs /\ outcome[p] = "none"
    BY <1>2, BetweenIsRun DEF Orderly, IInv, StagesFit, FinishRun
  <2>2. Promise!Finish(p)
    BY <1>2, <2>1 DEF Promise!Finish, Promise!Tell, FinishRun, End
  <2>. QED  BY <2>1, <2>2 DEF Promise!Next
<1>. QED
  BY <1>1, <1>2, CommitIsEntry, FailureIsAnswer
  DEF Actors, Next, Step, Receive, StartRun, BeginTenant, FindFree, Insert, vars

(***************************************************************************)
(* Registrations that look an email up and insert it in steps of their own *)
(* cannot be told from atomic entries into one directory, and the seeder   *)
(* not from one that enters each tenant at once (register_user.py,         *)
(* email_uniqueness.py, uq_users_tenant_email, seed.py).                   *)
(***************************************************************************)
THEOREM Refinement == Spec => ImplementsUserDirectory
<1>1. Orderly /\ [Next]_vars => [Promise!Next]_Promise!vars
  BY StepIsPromised
<1>. QED
  BY PromisedInit, <1>1, SafeAndOrderly, PTL DEF Spec, ImplementsUserDirectory, Promise!Spec
=============================================================================
