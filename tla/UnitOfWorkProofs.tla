-------------------------- MODULE UnitOfWorkProofs --------------------------
(***************************************************************************)
(* Safety of UnitOfWork for every number of requests, tenants and          *)
(* connections.  The properties are not inductive: a step under the tenant *)
(* of a connection is safe only because of what the earlier steps left in  *)
(* the context, in the session and on the connection, which the parts of   *)
(* IInv below say.                                                         *)
(***************************************************************************)
EXTENDS UnitOfWork, TLAPS

\* Nothing has happened for a request that has not opened its transaction.
Untouched ==
    \A r \in Requests :
        /\ pc[r] = "new" => identity[r] = NoTenant
        /\ pc[r] \in {"new", "handling", "acquiring", "binding"} =>
              staged[r] = {} /\ seen[r] = {}

\* The context of a running request is its own identity, and so is the tenant
\* begin() resolves from it.
ContextsAreOwn ==
    \A r \in Requests :
        /\ pc[r] \in Stages \ {"new", "ended"} =>
              identity[r] \in Tenants /\ context[r] = identity[r]
        /\ pc[r] \in {"acquiring", "binding", "open", "committing"} =>
              effective[r] = identity[r]

SessionsAreOwn ==
    \A r \in Requests :
        session[r] = IF pc[r] = "open" THEN r ELSE NoSession

ConnectionsAreHeld ==
    \A r \in Requests :
        /\ pc[r] \in Holding <=> conn[r] # NoConnection
        /\ \A q \in Requests : conn[r] # NoConnection /\ conn[q] = conn[r] => q = r

SettingsAreOwn ==
    \A r \in Requests :
        pc[r] \in {"open", "committing"} => setting[conn[r]] = identity[r]

\* An id is in the rows of one request, once.
IdsAreFresh ==
    /\ \A q, r \in Requests : \A x \in staged[q], y \in staged[r] :
          x.id = y.id => q = r /\ x = y
    /\ \A r \in Requests : \A x \in table, y \in staged[r] : x.id = y.id => x = y

\* The answer is known once the transaction is on its way out.
OutcomesAreLast ==
    \A r \in Requests :
        /\ outcome[r] = "none" <=> pc[r] \in Stages \ {"rollingBack", "exiting", "ended"}
        /\ outcome[r] = "ok" => pc[r] \in {"exiting", "ended"}

IInv ==
    /\ TypeOK
    /\ Untouched
    /\ ContextsAreOwn
    /\ SessionsAreOwn
    /\ ConnectionsAreHeld
    /\ SettingsAreOwn
    /\ IdsAreFresh
    /\ OutcomesAreLast
    /\ IdleConnectionsUnbound
    /\ TenantIsolation
    /\ AllOrNothing

LEMMA BindContextPreserves ==
    ASSUME IInv, NEW r \in Requests, NEW t \in Tenants, BindContext(r, t)
    PROVE  IInv'
<1>1. TypeOK'
  BY DEF IInv, TypeOK, Stages, BindContext, Goto, Bound
<1>2. Untouched'
  BY DEF IInv, TypeOK, Untouched, BindContext, Goto
<1>3. ContextsAreOwn'
  BY DEF IInv, TypeOK, ContextsAreOwn, BindContext, Goto, Bound
<1>4. SessionsAreOwn'
  BY DEF IInv, SessionsAreOwn, BindContext, Goto
<1>5. ConnectionsAreHeld'
  BY DEF IInv, Holding, ConnectionsAreHeld, BindContext, Goto
<1>6. SettingsAreOwn'
  BY DEF IInv, SettingsAreOwn, BindContext, Goto
<1>7. IdsAreFresh'
  BY DEF IInv, IdsAreFresh, BindContext
<1>8. OutcomesAreLast'
  BY DEF IInv, Stages, OutcomesAreLast, BindContext, Goto
<1>9. IdleConnectionsUnbound'
  BY DEF IInv, IdleConnectionsUnbound, BindContext, Goto
<1>10. TenantIsolation'
  BY DEF IInv, Untouched, TenantIsolation, BindContext
<1>11. AllOrNothing'
  BY DEF IInv, AllOrNothing, BindContext, Goto
<1>. QED  BY <1>1, <1>2, <1>3, <1>4, <1>5, <1>6, <1>7, <1>8, <1>9, <1>10, <1>11 DEF IInv

LEMMA RejectCredentialsPreserves ==
    ASSUME IInv, NEW r \in Requests, RejectCredentials(r)
    PROVE  IInv'
<1>1. TypeOK'
  BY DEF IInv, TypeOK, Stages, RejectCredentials, Goto
<1>2. Untouched'
  BY DEF IInv, Untouched, RejectCredentials, Goto
<1>3. ContextsAreOwn'
  BY DEF IInv, ContextsAreOwn, RejectCredentials, Goto
<1>4. SessionsAreOwn'
  BY DEF IInv, SessionsAreOwn, RejectCredentials, Goto
<1>5. ConnectionsAreHeld'
  BY DEF IInv, Holding, ConnectionsAreHeld, RejectCredentials, Goto
<1>6. SettingsAreOwn'
  BY DEF IInv, SettingsAreOwn, RejectCredentials, Goto
<1>7. IdsAreFresh'
  BY DEF IInv, IdsAreFresh, RejectCredentials
<1>8. OutcomesAreLast'
  BY DEF IInv, TypeOK, OutcomesAreLast, RejectCredentials, Goto
<1>9. IdleConnectionsUnbound'
  BY DEF IInv, IdleConnectionsUnbound, RejectCredentials, Goto
<1>10. TenantIsolation'
  BY DEF IInv, TenantIsolation, RejectCredentials
<1>11. AllOrNothing'
  BY DEF IInv, AllOrNothing, RejectCredentials, Goto
<1>. QED  BY <1>1, <1>2, <1>3, <1>4, <1>5, <1>6, <1>7, <1>8, <1>9, <1>10, <1>11 DEF IInv

LEMMA ExitContextPreserves ==
    ASSUME IInv, NEW r \in Requests, ExitContext(r)
    PROVE  IInv'
<1>1. TypeOK'
  BY DEF IInv, TypeOK, Stages, ExitContext, Goto, Bound
<1>2. Untouched'
  BY DEF IInv, Untouched, ExitContext, Goto
<1>3. ContextsAreOwn'
  BY DEF IInv, TypeOK, ContextsAreOwn, ExitContext, Goto, Bound
<1>4. SessionsAreOwn'
  BY DEF IInv, SessionsAreOwn, ExitContext, Goto
<1>5. ConnectionsAreHeld'
  BY DEF IInv, Holding, ConnectionsAreHeld, ExitContext, Goto
<1>6. SettingsAreOwn'
  BY DEF IInv, SettingsAreOwn, ExitContext, Goto
<1>7. IdsAreFresh'
  BY DEF IInv, IdsAreFresh, ExitContext
<1>8. OutcomesAreLast'
  BY DEF IInv, OutcomesAreLast, ExitContext, Goto
<1>9. IdleConnectionsUnbound'
  BY DEF IInv, IdleConnectionsUnbound, ExitContext, Goto
<1>10. TenantIsolation'
  BY DEF IInv, TenantIsolation, ExitContext
<1>11. AllOrNothing'
  BY DEF IInv, AllOrNothing, ExitContext, Goto
<1>. QED  BY <1>1, <1>2, <1>3, <1>4, <1>5, <1>6, <1>7, <1>8, <1>9, <1>10, <1>11 DEF IInv

LEMMA BeginPreserves ==
    ASSUME IInv, NEW r \in Requests, NEW given \in {NoTenant, identity[r]}, Begin(r, given)
    PROVE  IInv'
<1>1. TypeOK'
  BY DEF IInv, TypeOK, Stages, Begin, Goto, EffectiveTenant
<1>2. Untouched'
  BY DEF IInv, Untouched, Begin, Goto
<1>3. ContextsAreOwn'
  BY DEF IInv, TypeOK, ContextsAreOwn, Begin, Goto, EffectiveTenant
<1>4. SessionsAreOwn'
  BY DEF IInv, SessionsAreOwn, Begin, Goto
<1>5. ConnectionsAreHeld'
  BY DEF IInv, Holding, ConnectionsAreHeld, Begin, Goto
<1>6. SettingsAreOwn'
  BY DEF IInv, SettingsAreOwn, Begin, Goto
<1>7. IdsAreFresh'
  BY DEF IInv, IdsAreFresh, Begin
<1>8. OutcomesAreLast'
  BY DEF IInv, Stages, OutcomesAreLast, Begin, Goto
<1>9. IdleConnectionsUnbound'
  BY DEF IInv, IdleConnectionsUnbound, Begin, Goto
<1>10. TenantIsolation'
  BY DEF IInv, TenantIsolation, Begin
<1>11. AllOrNothing'
  BY DEF IInv, AllOrNothing, Begin, Goto
<1>. QED  BY <1>1, <1>2, <1>3, <1>4, <1>5, <1>6, <1>7, <1>8, <1>9, <1>10, <1>11 DEF IInv

LEMMA CheckoutPreserves ==
    ASSUME IInv, NEW r \in Requests, Checkout(r)
    PROVE  IInv'
<1>1. TypeOK'
  BY DEF IInv, TypeOK, Stages, Checkout, Goto, Idle
<1>2. Untouched'
  BY DEF IInv, Untouched, Checkout, Goto
<1>3. ContextsAreOwn'
  BY DEF IInv, Stages, ContextsAreOwn, Checkout, Goto
<1>4. SessionsAreOwn'
  BY DEF IInv, SessionsAreOwn, Checkout, Goto
<1>5. ConnectionsAreHeld'
  BY DEF IInv, TypeOK, Holding, ConnectionsAreHeld, Checkout, Goto, Idle
<1>6. SettingsAreOwn'
  BY DEF IInv, SettingsAreOwn, Checkout, Goto
<1>7. IdsAreFresh'
  BY DEF IInv, IdsAreFresh, Checkout
<1>8. OutcomesAreLast'
  BY DEF IInv, Stages, OutcomesAreLast, Checkout, Goto
<1>9. IdleConnectionsUnbound'
  BY SentinelsAreDistinct DEF IInv, Holding, ConnectionsAreHeld, IdleConnectionsUnbound,
     Checkout, Goto
<1>10. TenantIsolation'
  BY DEF IInv, TenantIsolation, Checkout
<1>11. AllOrNothing'
  BY DEF IInv, AllOrNothing, Checkout, Goto
<1>. QED  BY <1>1, <1>2, <1>3, <1>4, <1>5, <1>6, <1>7, <1>8, <1>9, <1>10, <1>11 DEF IInv

LEMMA PoolTimeoutPreserves ==
    ASSUME IInv, NEW r \in Requests, PoolTimeout(r)
    PROVE  IInv'
<1>1. TypeOK'
  BY DEF IInv, TypeOK, Stages, PoolTimeout, Goto
<1>2. Untouched'
  BY DEF IInv, Untouched, PoolTimeout, Goto
<1>3. ContextsAreOwn'
  BY DEF IInv, Stages, ContextsAreOwn, PoolTimeout, Goto
<1>4. SessionsAreOwn'
  BY DEF IInv, SessionsAreOwn, PoolTimeout, Goto
<1>5. ConnectionsAreHeld'
  BY DEF IInv, Holding, ConnectionsAreHeld, PoolTimeout, Goto
<1>6. SettingsAreOwn'
  BY DEF IInv, SettingsAreOwn, PoolTimeout, Goto
<1>7. IdsAreFresh'
  BY DEF IInv, IdsAreFresh, PoolTimeout
<1>8. OutcomesAreLast'
  BY DEF IInv, TypeOK, OutcomesAreLast, PoolTimeout, Goto
<1>9. IdleConnectionsUnbound'
  BY DEF IInv, IdleConnectionsUnbound, PoolTimeout, Goto
<1>10. TenantIsolation'
  BY DEF IInv, TenantIsolation, PoolTimeout
<1>11. AllOrNothing'
  BY DEF IInv, AllOrNothing, PoolTimeout, Goto
<1>. QED  BY <1>1, <1>2, <1>3, <1>4, <1>5, <1>6, <1>7, <1>8, <1>9, <1>10, <1>11 DEF IInv

LEMMA BindTenantPreserves ==
    ASSUME IInv, NEW r \in Requests, BindTenant(r)
    PROVE  IInv'
<1>1. TypeOK'
  BY DEF IInv, TypeOK, Stages, Holding, ConnectionsAreHeld, BindTenant, Goto
<1>2. Untouched'
  BY DEF IInv, Untouched, BindTenant, Goto
<1>3. ContextsAreOwn'
  BY DEF IInv, Stages, ContextsAreOwn, BindTenant, Goto
<1>4. SessionsAreOwn'
  BY DEF IInv, TypeOK, SessionsAreOwn, BindTenant, Goto
<1>5. ConnectionsAreHeld'
  BY DEF IInv, Holding, ConnectionsAreHeld, BindTenant, Goto
<1>6. SettingsAreOwn'
  BY DEF IInv, TypeOK, Holding, ContextsAreOwn, ConnectionsAreHeld, SettingsAreOwn, BindTenant,
     Goto
<1>7. IdsAreFresh'
  BY DEF IInv, IdsAreFresh, BindTenant
<1>8. OutcomesAreLast'
  BY DEF IInv, Stages, OutcomesAreLast, BindTenant, Goto
<1>9. IdleConnectionsUnbound'
  BY DEF IInv, TypeOK, IdleConnectionsUnbound, BindTenant, Goto
<1>10. TenantIsolation'
  BY DEF IInv, TenantIsolation, BindTenant
<1>11. AllOrNothing'
  BY DEF IInv, Untouched, AllOrNothing, BindTenant, Goto
<1>. QED  BY <1>1, <1>2, <1>3, <1>4, <1>5, <1>6, <1>7, <1>8, <1>9, <1>10, <1>11 DEF IInv

LEMMA SelectPreserves ==
    ASSUME IInv, NEW r \in Requests, Select(r)
    PROVE  IInv'
<1>1. TypeOK'
  BY DEF IInv, TypeOK, SessionsAreOwn, Select
<1>2. Untouched'
  BY DEF IInv, Untouched, Select
<1>3. ContextsAreOwn'
  BY DEF IInv, ContextsAreOwn, Select
<1>4. SessionsAreOwn'
  BY DEF IInv, SessionsAreOwn, Select
<1>5. ConnectionsAreHeld'
  BY DEF IInv, ConnectionsAreHeld, Select
<1>6. SettingsAreOwn'
  BY DEF IInv, SettingsAreOwn, Select
<1>7. IdsAreFresh'
  BY DEF IInv, IdsAreFresh, Select
<1>8. OutcomesAreLast'
  BY DEF IInv, OutcomesAreLast, Select
<1>9. IdleConnectionsUnbound'
  BY DEF IInv, IdleConnectionsUnbound, Select
<1>10. TenantIsolation'
  BY DEF IInv, SessionsAreOwn, SettingsAreOwn, TenantIsolation, Select, Policy, Backend
<1>11. AllOrNothing'
  BY DEF IInv, AllOrNothing, Select
<1>. QED  BY <1>1, <1>2, <1>3, <1>4, <1>5, <1>6, <1>7, <1>8, <1>9, <1>10, <1>11 DEF IInv

LEMMA InsertPreserves ==
    ASSUME IInv, NEW r \in Requests, NEW id \in RowIds, Insert(r, id)
    PROVE  IInv'
<1>1. TypeOK'
  BY DEF IInv, TypeOK, Row, ContextsAreOwn, SessionsAreOwn, Insert
<1>2. Untouched'
  BY DEF IInv, Untouched, SessionsAreOwn, Insert
<1>3. ContextsAreOwn'
  BY DEF IInv, ContextsAreOwn, Insert
<1>4. SessionsAreOwn'
  BY DEF IInv, SessionsAreOwn, Insert
<1>5. ConnectionsAreHeld'
  BY DEF IInv, ConnectionsAreHeld, Insert
<1>6. SettingsAreOwn'
  BY DEF IInv, SettingsAreOwn, Insert
<1>7. IdsAreFresh'
  BY DEF IInv, IdsAreFresh, Insert, FreshIds
<1>8. OutcomesAreLast'
  BY DEF IInv, OutcomesAreLast, Insert
<1>9. IdleConnectionsUnbound'
  BY DEF IInv, IdleConnectionsUnbound, Insert
<1>10. TenantIsolation'
  BY DEF IInv, SessionsAreOwn, TenantIsolation, Insert
<1>11. AllOrNothing'
  BY DEF IInv, SessionsAreOwn, OutcomesAreLast, AllOrNothing, Insert, FreshIds
<1>. QED  BY <1>1, <1>2, <1>3, <1>4, <1>5, <1>6, <1>7, <1>8, <1>9, <1>10, <1>11 DEF IInv

LEMMA LeaveBodyPreserves ==
    ASSUME IInv, NEW r \in Requests, LeaveBody(r)
    PROVE  IInv'
<1>1. TypeOK'
  BY DEF IInv, TypeOK, Stages, LeaveBody, Goto
<1>2. Untouched'
  BY DEF IInv, Untouched, LeaveBody, Goto
<1>3. ContextsAreOwn'
  BY DEF IInv, Stages, ContextsAreOwn, LeaveBody, Goto
<1>4. SessionsAreOwn'
  BY DEF IInv, TypeOK, SessionsAreOwn, LeaveBody, Goto
<1>5. ConnectionsAreHeld'
  BY DEF IInv, Holding, ConnectionsAreHeld, LeaveBody, Goto
<1>6. SettingsAreOwn'
  BY DEF IInv, SettingsAreOwn, LeaveBody, Goto
<1>7. IdsAreFresh'
  BY DEF IInv, IdsAreFresh, LeaveBody
<1>8. OutcomesAreLast'
  BY DEF IInv, Stages, OutcomesAreLast, LeaveBody, Goto
<1>9. IdleConnectionsUnbound'
  BY DEF IInv, IdleConnectionsUnbound, LeaveBody, Goto
<1>10. TenantIsolation'
  BY DEF IInv, TenantIsolation, LeaveBody
<1>11. AllOrNothing'
  BY DEF IInv, AllOrNothing, LeaveBody, Goto
<1>. QED  BY <1>1, <1>2, <1>3, <1>4, <1>5, <1>6, <1>7, <1>8, <1>9, <1>10, <1>11 DEF IInv

LEMMA RaiseInBodyPreserves ==
    ASSUME IInv, NEW r \in Requests, RaiseInBody(r)
    PROVE  IInv'
<1>1. TypeOK'
  BY DEF IInv, TypeOK, Stages, RaiseInBody, Goto
<1>2. Untouched'
  BY DEF IInv, Untouched, RaiseInBody, Goto
<1>3. ContextsAreOwn'
  BY DEF IInv, Stages, ContextsAreOwn, RaiseInBody, Goto
<1>4. SessionsAreOwn'
  BY DEF IInv, TypeOK, SessionsAreOwn, RaiseInBody, Goto
<1>5. ConnectionsAreHeld'
  BY DEF IInv, Holding, ConnectionsAreHeld, RaiseInBody, Goto
<1>6. SettingsAreOwn'
  BY DEF IInv, SettingsAreOwn, RaiseInBody, Goto
<1>7. IdsAreFresh'
  BY DEF IInv, IdsAreFresh, RaiseInBody
<1>8. OutcomesAreLast'
  BY DEF IInv, TypeOK, OutcomesAreLast, RaiseInBody, Goto
<1>9. IdleConnectionsUnbound'
  BY DEF IInv, IdleConnectionsUnbound, RaiseInBody, Goto
<1>10. TenantIsolation'
  BY DEF IInv, TenantIsolation, RaiseInBody
<1>11. AllOrNothing'
  BY DEF IInv, AllOrNothing, RaiseInBody, Goto
<1>. QED  BY <1>1, <1>2, <1>3, <1>4, <1>5, <1>6, <1>7, <1>8, <1>9, <1>10, <1>11 DEF IInv

LEMMA CommitPreserves ==
    ASSUME IInv, NEW r \in Requests, Commit(r)
    PROVE  IInv'
<1>1. TypeOK'
  BY DEF IInv, TypeOK, Stages, Holding, ConnectionsAreHeld, Commit, Goto, Release
<1>2. Untouched'
  BY DEF IInv, Untouched, Commit, Goto
<1>3. ContextsAreOwn'
  BY DEF IInv, Stages, ContextsAreOwn, Commit, Goto
<1>4. SessionsAreOwn'
  BY DEF IInv, SessionsAreOwn, Commit, Goto
<1>5. ConnectionsAreHeld'
  BY DEF IInv, TypeOK, Holding, ConnectionsAreHeld, Commit, Goto, Release
<1>6. SettingsAreOwn'
  BY SentinelsAreDistinct DEF IInv, TypeOK, ConnectionsAreHeld, SettingsAreOwn, Commit, Goto,
     Release
<1>7. IdsAreFresh'
  BY DEF IInv, IdsAreFresh, Commit
<1>8. OutcomesAreLast'
  BY DEF IInv, TypeOK, OutcomesAreLast, Commit, Goto
<1>9. IdleConnectionsUnbound'
  BY DEF IInv, TypeOK, IdleConnectionsUnbound, Commit, Goto, Release
<1>10. TenantIsolation'
  BY DEF IInv, TenantIsolation, Commit
<1>11. AllOrNothing'
  <2>1. ASSUME NEW q \in Requests, q # r
        PROVE  table' \cap staged[q] = table \cap staged[q]
    BY <2>1 DEF IInv, IdsAreFresh, Commit
  <2>. QED  BY <2>1 DEF IInv, TypeOK, AllOrNothing, Commit, Goto
<1>. QED  BY <1>1, <1>2, <1>3, <1>4, <1>5, <1>6, <1>7, <1>8, <1>9, <1>10, <1>11 DEF IInv

LEMMA CommitFailsPreserves ==
    ASSUME IInv, NEW r \in Requests, CommitFails(r)
    PROVE  IInv'
<1>1. TypeOK'
  BY DEF IInv, TypeOK, Stages, CommitFails, Goto
<1>2. Untouched'
  BY DEF IInv, Untouched, CommitFails, Goto
<1>3. ContextsAreOwn'
  BY DEF IInv, Stages, ContextsAreOwn, CommitFails, Goto
<1>4. SessionsAreOwn'
  BY DEF IInv, SessionsAreOwn, CommitFails, Goto
<1>5. ConnectionsAreHeld'
  BY DEF IInv, Holding, ConnectionsAreHeld, CommitFails, Goto
<1>6. SettingsAreOwn'
  BY DEF IInv, SettingsAreOwn, CommitFails, Goto
<1>7. IdsAreFresh'
  BY DEF IInv, IdsAreFresh, CommitFails
<1>8. OutcomesAreLast'
  BY DEF IInv, TypeOK, OutcomesAreLast, CommitFails, Goto
<1>9. IdleConnectionsUnbound'
  BY DEF IInv, IdleConnectionsUnbound, CommitFails, Goto
<1>10. TenantIsolation'
  BY DEF IInv, TenantIsolation, CommitFails
<1>11. AllOrNothing'
  BY DEF IInv, AllOrNothing, CommitFails, Goto
<1>. QED  BY <1>1, <1>2, <1>3, <1>4, <1>5, <1>6, <1>7, <1>8, <1>9, <1>10, <1>11 DEF IInv

LEMMA CommitUnacknowledgedPreserves ==
    ASSUME IInv, NEW r \in Requests, CommitUnacknowledged(r)
    PROVE  IInv'
<1>1. TypeOK'
  BY DEF IInv, TypeOK, Stages, CommitUnacknowledged, Goto
<1>2. Untouched'
  BY DEF IInv, Untouched, CommitUnacknowledged, Goto
<1>3. ContextsAreOwn'
  BY DEF IInv, Stages, ContextsAreOwn, CommitUnacknowledged, Goto
<1>4. SessionsAreOwn'
  BY DEF IInv, SessionsAreOwn, CommitUnacknowledged, Goto
<1>5. ConnectionsAreHeld'
  BY DEF IInv, Holding, ConnectionsAreHeld, CommitUnacknowledged, Goto
<1>6. SettingsAreOwn'
  BY DEF IInv, SettingsAreOwn, CommitUnacknowledged, Goto
<1>7. IdsAreFresh'
  BY DEF IInv, IdsAreFresh, CommitUnacknowledged
<1>8. OutcomesAreLast'
  BY DEF IInv, TypeOK, OutcomesAreLast, CommitUnacknowledged, Goto
<1>9. IdleConnectionsUnbound'
  BY DEF IInv, IdleConnectionsUnbound, CommitUnacknowledged, Goto
<1>10. TenantIsolation'
  BY DEF IInv, TenantIsolation, CommitUnacknowledged
<1>11. AllOrNothing'
  BY DEF IInv, TypeOK, Untouched, IdsAreFresh, AllOrNothing, CommitUnacknowledged, Goto
<1>. QED  BY <1>1, <1>2, <1>3, <1>4, <1>5, <1>6, <1>7, <1>8, <1>9, <1>10, <1>11 DEF IInv

LEMMA RollbackPreserves ==
    ASSUME IInv, NEW r \in Requests, Rollback(r)
    PROVE  IInv'
<1>1. TypeOK'
  BY DEF IInv, TypeOK, Stages, Holding, ConnectionsAreHeld, Rollback, Goto, Release
<1>2. Untouched'
  BY DEF IInv, Untouched, Rollback, Goto
<1>3. ContextsAreOwn'
  BY DEF IInv, Stages, ContextsAreOwn, Rollback, Goto
<1>4. SessionsAreOwn'
  BY DEF IInv, SessionsAreOwn, Rollback, Goto
<1>5. ConnectionsAreHeld'
  BY DEF IInv, TypeOK, Holding, ConnectionsAreHeld, Rollback, Goto, Release
<1>6. SettingsAreOwn'
  BY DEF IInv, Holding, ConnectionsAreHeld, SettingsAreOwn, Rollback, Goto, Release
<1>7. IdsAreFresh'
  BY DEF IInv, IdsAreFresh, Rollback
<1>8. OutcomesAreLast'
  BY DEF IInv, OutcomesAreLast, Rollback, Goto
<1>9. IdleConnectionsUnbound'
  BY DEF IInv, TypeOK, IdleConnectionsUnbound, Rollback, Goto, Release
<1>10. TenantIsolation'
  BY DEF IInv, TenantIsolation, Rollback
<1>11. AllOrNothing'
  BY DEF IInv, AllOrNothing, Rollback, Goto
<1>. QED  BY <1>1, <1>2, <1>3, <1>4, <1>5, <1>6, <1>7, <1>8, <1>9, <1>10, <1>11 DEF IInv

LEMMA CrashPreserves ==
    ASSUME IInv, Crash
    PROVE  IInv'
<1>1. TypeOK'
  BY DEF IInv, TypeOK, Stages, Crash, Running
<1>2. Untouched' /\ ContextsAreOwn'
  BY DEF IInv, TypeOK, Untouched, ContextsAreOwn, Stages, Crash, Running
<1>3. SessionsAreOwn' /\ ConnectionsAreHeld' /\ SettingsAreOwn'
  BY DEF IInv, TypeOK, SessionsAreOwn, ConnectionsAreHeld, SettingsAreOwn, Holding, Crash,
     Running
<1>4. IdsAreFresh' /\ OutcomesAreLast' /\ IdleConnectionsUnbound'
  BY DEF IInv, TypeOK, IdsAreFresh, OutcomesAreLast, IdleConnectionsUnbound, Crash, Running
<1>5. TenantIsolation' /\ AllOrNothing'
  BY DEF IInv, TypeOK, TenantIsolation, AllOrNothing, Crash, Running
<1>. QED  BY <1>1, <1>2, <1>3, <1>4, <1>5 DEF IInv

LEMMA InitIsSafe == Init => IInv
  BY SentinelsAreDistinct DEF Init, IInv, TypeOK, Stages, Holding, Untouched, ContextsAreOwn,
     SessionsAreOwn, ConnectionsAreHeld, SettingsAreOwn, IdsAreFresh, OutcomesAreLast,
     IdleConnectionsUnbound, TenantIsolation, AllOrNothing

LEMMA StutteringIsSafe == IInv /\ UNCHANGED vars => IInv'
  BY DEF vars, IInv, TypeOK, Untouched, ContextsAreOwn, SessionsAreOwn, ConnectionsAreHeld,
     SettingsAreOwn, IdsAreFresh, OutcomesAreLast, IdleConnectionsUnbound, TenantIsolation,
     AllOrNothing

LEMMA NextIsSafe == IInv /\ [Next]_vars => IInv'
<1>. SUFFICES ASSUME IInv, [Next]_vars PROVE IInv'
  OBVIOUS
<1>1. CASE Next
  <2>1. CASE Crash
    BY <2>1, CrashPreserves
  <2>2. ASSUME NEW r \in Requests,
               \/ \E t \in Tenants : BindContext(r, t)
               \/ RejectCredentials(r)
               \/ \E given \in {NoTenant, identity[r]} : Begin(r, given)
               \/ Checkout(r) \/ PoolTimeout(r) \/ BindTenant(r)
        PROVE  IInv'
    BY <2>2, BindContextPreserves, RejectCredentialsPreserves, BeginPreserves,
       CheckoutPreserves, PoolTimeoutPreserves, BindTenantPreserves
  <2>3. ASSUME NEW r \in Requests,
               \/ Select(r) \/ \E id \in RowIds : Insert(r, id)
               \/ LeaveBody(r) \/ RaiseInBody(r)
               \/ Commit(r) \/ CommitFails(r) \/ CommitUnacknowledged(r)
               \/ Rollback(r) \/ ExitContext(r)
        PROVE  IInv'
    BY <2>3, SelectPreserves, InsertPreserves, LeaveBodyPreserves, RaiseInBodyPreserves,
       CommitPreserves, CommitFailsPreserves, CommitUnacknowledgedPreserves, RollbackPreserves,
       ExitContextPreserves
  <2>. QED  BY <1>1, <2>1, <2>2, <2>3 DEF Next
<1>2. CASE UNCHANGED vars
  BY <1>2, StutteringIsSafe
<1>. QED  BY <1>1, <1>2

(* Every reachable state satisfies the inductive invariant: a running request
   owns its context, session, connection and setting, and its rows are fresh
   (unit_of_work.py, session.py, scoped_session.py, tenant_context.py). *)
THEOREM Safe == Spec => []IInv
  BY InitIsSafe, NextIsSafe, PTL DEF Spec

(* Every variable keeps its type: contexts, settings and sessions are only
   ever tenants and requests (unit_of_work.py, scoped_session.py). *)
THEOREM TypesAreKept == Spec => []TypeOK
<1>1. IInv => TypeOK
  BY DEF IInv
<1>. QED  BY <1>1, Safe, PTL

(* No request reads or stages a row of another tenant, for any number of
   tenants, requests and pooled connections and in every interleaving
   (unit_of_work.py, tenant_context.py, the policies of RLS). *)
THEOREM RequestsStayInTheirTenant == Spec => []TenantIsolation
<1>1. IInv => TenantIsolation
  BY DEF IInv
<1>. QED  BY <1>1, Safe, PTL

(* The pool never hands out a connection that still carries a tenant
   (set_config is local to the transaction, tenant_context.py). *)
THEOREM PoolCarriesNoTenant == Spec => []IdleConnectionsUnbound
<1>1. IInv => IdleConnectionsUnbound
  BY DEF IInv
<1>. QED  BY <1>1, Safe, PTL

(* A unit of work is atomic and durable once acknowledged, and what it staged
   is not in the table before (session.py commits after the body or not at all). *)
THEOREM UnitsAreAtomic == Spec => []AllOrNothing
<1>1. IInv => AllOrNothing
  BY DEF IInv
<1>. QED  BY <1>1, Safe, PTL

(* Sessions do not share connections, whatever fails or crashes (session.py). *)
THEOREM ConnectionsAreNotShared == Spec => []ExclusiveConnection
<1>1. IInv => ExclusiveConnection
  BY DEF IInv, ConnectionsAreHeld, ExclusiveConnection
<1>. QED  BY <1>1, Safe, PTL

-----------------------------------------------------------------------------
(***************************************************************************)
(* UnitOfWork implements TenantDatabases: a commit is the one write of a   *)
(* request, an error without a commit is its failure, and the other steps  *)
(* change nothing a caller can tell.                                       *)
(***************************************************************************)

LEMMA PromisedInit == Init => Promise!Init
  BY DEF Init, Promise!Init, RowsOf

LEMMA InvisibleStep ==
    ASSUME UNCHANGED <<table, identity, outcome>>
    PROVE  UNCHANGED Promise!vars
  BY DEF Promise!vars, RowsOf

LEMMA BindingIsAdmission ==
    ASSUME IInv, NEW r \in Requests, NEW t \in Tenants, BindContext(r, t)
    PROVE  Promise!Next
<1>1. identity[r] = NoTenant /\ outcome[r] = "none"
  BY DEF IInv, Untouched, OutcomesAreLast, Stages, BindContext
<1>2. UNCHANGED <<[x \in Tenants |-> RowsOf(x)], outcome>>
  BY DEF BindContext, RowsOf
<1>3. Promise!Admit(r, t)
  BY <1>1, <1>2 DEF Promise!Admit, BindContext
<1>. QED  BY <1>3 DEF Promise!Next

\* Requests that end in an error and write nothing.
LEMMA ErrorIsFailure ==
    ASSUME NEW R \in SUBSET Requests,
           \A r \in R : outcome[r] = "none",
           outcome' = [r \in Requests |-> IF r \in R THEN "error" ELSE outcome[r]],
           UNCHANGED <<table, identity>>
    PROVE  Promise!Next
<1>1. UNCHANGED <<[x \in Tenants |-> RowsOf(x)], identity>>
  BY DEF RowsOf
<1>2. Promise!Fail(R)
  BY <1>1 DEF Promise!Fail
<1>. QED  BY <1>2 DEF Promise!Next

LEMMA ErrorOfOne ==
    ASSUME IInv, NEW r \in Requests, outcome[r] = "none",
           outcome' = [outcome EXCEPT ![r] = "error"],
           UNCHANGED <<table, identity>>
    PROVE  Promise!Next
<1>1. outcome' = [x \in Requests |-> IF x \in {r} THEN "error" ELSE outcome[x]]
  BY DEF IInv, TypeOK
<1>. QED  BY <1>1, ErrorIsFailure

LEMMA FailureIsFailure ==
    ASSUME IInv, NEW r \in Requests,
           \/ RejectCredentials(r) \/ PoolTimeout(r)
           \/ RaiseInBody(r) \/ CommitFails(r)
    PROVE  Promise!Next
<1>1. outcome[r] = "none"
  BY DEF IInv, OutcomesAreLast, Stages, RejectCredentials, PoolTimeout, RaiseInBody, CommitFails
<1>2. outcome' = [outcome EXCEPT ![r] = "error"] /\ UNCHANGED <<table, identity>>
  BY DEF RejectCredentials, PoolTimeout, RaiseInBody, CommitFails
<1>. QED  BY <1>1, <1>2, ErrorOfOne

LEMMA CrashIsFailure ==
    ASSUME IInv, Crash
    PROVE  Promise!Next
<1>. DEFINE R == {r \in Running : outcome[r] = "none"}
<1>1. R \in SUBSET Requests /\ \A r \in R : outcome[r] = "none"
  BY DEF Running
<1>2. outcome' = [r \in Requests |-> IF r \in R THEN "error" ELSE outcome[r]]
  BY DEF Crash
<1>3. UNCHANGED <<table, identity>>
  BY DEF Crash
<1>. HIDE DEF R
<1>. QED  BY <1>1, <1>2, <1>3, ErrorIsFailure

\* The ids a commit adds are new in every database, and all of them go to the
\* tenant of the request.
LEMMA CommitIsWrite ==
    ASSUME IInv, NEW r \in Requests, NEW answer \in {"ok", "error"},
           pc[r] = "committing",
           table' = table \cup staged[r],
           outcome' = [outcome EXCEPT ![r] = answer],
           UNCHANGED identity
    PROVE  Promise!Next
<1>. DEFINE S == {row.id : row \in staged[r]}
<1>1. identity[r] \in Tenants /\ outcome[r] = "none"
  BY DEF IInv, ContextsAreOwn, OutcomesAreLast, Stages
<1>2. S \in SUBSET RowIds
  BY DEF IInv, TypeOK, Row
<1>3. \A t \in Tenants : S \cap RowsOf(t) = {}
  BY DEF IInv, IdsAreFresh, AllOrNothing, RowsOf
<1>4. ASSUME NEW t \in Tenants
      PROVE  RowsOf(t)' = IF t = identity[r] THEN RowsOf(t) \cup S ELSE RowsOf(t)
  <2>1. \A row \in staged[r] : row.tenant = identity[r]
    BY DEF IInv, TenantIsolation
  <2>. QED  BY <2>1 DEF RowsOf
<1>5. [t \in Tenants |-> RowsOf(t)]'
        = [[t \in Tenants |-> RowsOf(t)] EXCEPT ![identity[r]] = @ \cup S]
  BY <1>1, <1>4
<1>. HIDE DEF S
<1>6. Promise!Unused(S)
  BY <1>3 DEF Promise!Unused
<1>7. Promise!Write(r, S, answer)
  BY <1>1, <1>5, <1>6, SentinelsAreDistinct DEF Promise!Write
<1>. QED  BY <1>2, <1>7 DEF Promise!Next

LEMMA StepIsPromised ==
    ASSUME IInv, [Next]_vars
    PROVE  [Promise!Next]_Promise!vars
<1>1. CASE UNCHANGED vars
  BY <1>1, InvisibleStep DEF vars
<1>2. CASE Crash
  BY <1>2, CrashIsFailure
<1>3. ASSUME NEW r \in Requests, NEW t \in Tenants, BindContext(r, t)
      PROVE  Promise!Next
  BY <1>3, BindingIsAdmission
<1>4. ASSUME NEW r \in Requests, Commit(r) \/ CommitUnacknowledged(r)
      PROVE  Promise!Next
  <2>1. CASE Commit(r)
    BY <2>1, CommitIsWrite DEF Commit
  <2>2. CASE CommitUnacknowledged(r)
    BY <2>2, CommitIsWrite DEF CommitUnacknowledged
  <2>. QED  BY <1>4, <2>1, <2>2
<1>5. ASSUME NEW r \in Requests,
             \/ \E given \in {NoTenant, identity[r]} : Begin(r, given)
             \/ Checkout(r) \/ BindTenant(r) \/ Select(r)
             \/ \E id \in RowIds : Insert(r, id)
             \/ LeaveBody(r) \/ Rollback(r) \/ ExitContext(r)
      PROVE  UNCHANGED Promise!vars
  <2>1. UNCHANGED <<table, identity, outcome>>
    BY <1>5 DEF Begin, Checkout, BindTenant, Select, Insert, LeaveBody, Rollback, ExitContext
  <2>. QED  BY <2>1, InvisibleStep
<1>. QED  BY <1>1, <1>2, <1>3, <1>4, <1>5, FailureIsFailure DEF Next

(* Sharing tables, connections and contextvars between tenants cannot be told
   from giving each tenant a database of its own, with one atomic write a
   request (unit_of_work.py, session.py, the policies of RLS). *)
THEOREM Refinement == Spec => ImplementsTenantDatabases
<1>1. IInv /\ [Next]_vars => [Promise!Next]_Promise!vars
  BY StepIsPromised
<1>. QED  BY PromisedInit, <1>1, Safe, PTL DEF Spec, ImplementsTenantDatabases, Promise!Spec
=============================================================================
