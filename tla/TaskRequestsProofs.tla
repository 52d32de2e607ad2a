------------------------- MODULE TaskRequestsProofs -------------------------
(***************************************************************************)
(* Safety of TaskRequests for every set of requests, calls, tenants and    *)
(* tasks.  What a transaction writes depends on what it read some steps    *)
(* before, so the inductive invariant says what a snapshot still tells     *)
(* about the table: its tenant, that it was committed, and that whoever    *)
(* completed it had announced it.                                          *)
(***************************************************************************)
EXTENDS TaskRequests, TLAPS

\* The stages in which a transaction has read its task.
Holding == {"refetch", "flush", "commit", "fill"}

StagesFitCalls ==
    \A r \in Requests :
        /\ pc[r] = "new" <=> call[r] = None
        /\ pc[r] = "insert" => call[r].op = "create"
        /\ pc[r] \in {"lookup", "fill"} => call[r].op = "get"
        /\ pc[r] \in {"refetch", "flush", "invalidate"} => call[r].op \in Writes
        /\ pc[r] = "load" => call[r].op # "create"
        /\ pc[r] # "done" => reply[r] = None
        /\ dirty[r] # {} => call[r] # None /\ call[r].op \in Writes

\* A transaction works on a committed row of its own tenant, and what it will
\* write is its domain method applied to that row.
SnapshotOf(r) ==
    /\ loaded[r] \in versions[TaskOf(r)]
    /\ loaded[r] \in Row
    /\ loaded[r].tenant = call[r].tenant
    /\ entity[r] = Execute(call[r], loaded[r])
    /\ table[TaskOf(r)] # None
    /\ table[TaskOf(r)].tenant = call[r].tenant

SnapshotsAreOwn ==
    \A r \in Requests : pc[r] \in Holding /\ call[r].op # "create" => SnapshotOf(r)

\* The id of a task being created is in no row yet, and has one creator.
CreationsAreFresh ==
    \A r \in Requests :
        call[r] # None /\ call[r].op = "create" =>
            /\ pc[r] \in {"insert", "commit"} => table[TaskOf(r)] = None
            /\ pc[r] = "commit" => entity[r] = NewTask(call[r])
            /\ \A q \in Requests :
                  call[q] # None /\ call[q].op = "create" /\ TaskOf(q) = TaskOf(r) => q = r

VersionsAreComplete ==
    \A k \in Tasks : table[k] # None => table[k] \in versions[k]

\* The event of a completion of task k has been published.
Announced(k) == \E r \in published : call[r].op = "complete" /\ TaskOf(r) = k

\* Who has read a completed row, or has flushed a completion, finds it announced.
CompletionsAreAnnounced ==
    \A r \in Requests :
        pc[r] \in Holding /\ call[r].op # "create" =>
            /\ loaded[r].status = "completed" => Announced(TaskOf(r))
            /\ pc[r] = "commit" /\ call[r].op = "complete" => Announced(TaskOf(r))

PublishersAreStarted == \A r \in published : call[r] # None

IInv ==
    /\ TypeOK
    /\ StagesFitCalls
    /\ SnapshotsAreOwn
    /\ CreationsAreFresh
    /\ VersionsAreComplete
    /\ CompletionsAreAnnounced
    /\ PublishersAreStarted
    /\ CompletionAnnounced
    /\ ServedOwnTenant
    /\ ServedWasCommitted

LEMMA CallFields ==
    ASSUME NEW c \in Calls
    PROVE  /\ c.op \in Writes \cup {"create", "get"}
           /\ c.via \in {"api", "cli"}
           /\ c.tenant \in Tenants
           /\ c.task \in Tasks
           /\ c.title \in Titles \cup {None}
           /\ c.op = "create" => c.title \in Titles
           /\ c # None
  BY CallsAreValid, NoneIsNoValue DEF ValidCall

LEMMA ExecuteKeepsTenant ==
    ASSUME NEW c \in Calls, NEW row \in Row, c.op # "create"
    PROVE  Execute(c, row) \in Row /\ Execute(c, row).tenant = row.tenant
  BY CallFields DEF Execute, UpdateDetails, Complete, Row, Statuses, Writes

LEMMA WrittenIsOwnRow ==
    ASSUME IInv, NEW r \in Requests, pc[r] = "commit"
    PROVE  /\ Written(r) \in Row
           /\ Written(r).tenant = call[r].tenant
<1>1. call[r] \in Calls /\ TaskOf(r) \in Tasks
  BY CallFields DEF IInv, TypeOK, StagesFitCalls, TaskOf
<1>2. CASE call[r].op = "create"
  <2>1. entity[r] = NewTask(call[r])
    BY <1>1, <1>2, CallFields DEF IInv, CreationsAreFresh
  <2>. QED
    BY <1>1, <1>2, <2>1, CallFields DEF Written, NewTask, Row, Statuses
<1>3. CASE call[r].op # "create"
  <2>1. table[TaskOf(r)] \in Row /\ table[TaskOf(r)].tenant = call[r].tenant
    BY <1>1, <1>3 DEF IInv, TypeOK, SnapshotsAreOwn, SnapshotOf, Holding
  <2>2. entity[r] \in Row
    BY <1>1, <1>3, ExecuteKeepsTenant DEF IInv, SnapshotsAreOwn, SnapshotOf, Holding
  <2>. QED
    BY <1>3, <2>1, <2>2 DEF Written, TaskOf, Row
<1>. QED  BY <1>2, <1>3

LEMMA ReceivePreserves ==
    ASSUME IInv, NEW r \in Requests, NEW c \in Calls, Receive(r, c)
    PROVE  IInv'
<1>1. TypeOK'
  BY CallsAreValid DEF IInv, TypeOK, Stages, ValidCall, Receive, history, FirstStage, Goto
<1>2. StagesFitCalls'
  <2>1. c.op \in {"get", "create"} \cup Writes
    BY CallFields
  <2>2. /\ c.op = "get" => FirstStage(c.op) = "lookup"
        /\ c.op = "create" => FirstStage(c.op) = "insert"
        /\ c.op \in Writes => FirstStage(c.op) = "load"
    BY DEF FirstStage, Writes
  <2>. QED
    BY <2>2, CallFields DEF IInv, TypeOK, StagesFitCalls, Receive, Goto
<1>3. SnapshotsAreOwn'
  BY CallsAreValid
  DEF IInv, ValidCall, TaskOf, SnapshotOf, Holding, SnapshotsAreOwn, Receive, history,
     FirstStage, Goto
<1>4. CreationsAreFresh'
  BY DEF IInv, TaskOf, StagesFitCalls, CreationsAreFresh, Receive, FirstStage, Goto
<1>5. VersionsAreComplete'
  BY DEF IInv, VersionsAreComplete, Receive, history
<1>6. CompletionsAreAnnounced'
  <2>1. pc[r] = "new" /\ r \notin published
    BY DEF IInv, StagesFitCalls, PublishersAreStarted, Receive
  <2>2. \A k \in Tasks : Announced(k) => Announced(k)'
    BY <2>1 DEF Announced, TaskOf, Receive
  <2>3. FirstStage(c.op) \notin Holding
    BY CallFields DEF FirstStage, Holding
  <2>. QED
    BY <2>2, <2>3, CallFields
    DEF IInv, TypeOK, StagesFitCalls, CompletionsAreAnnounced, TaskOf, Receive, Goto, Holding
<1>7. PublishersAreStarted'
  BY NoneIsNoValue DEF IInv, PublishersAreStarted, Receive
<1>8. CompletionAnnounced'
  BY DEF IInv, TaskOf, StagesFitCalls, PublishersAreStarted, CompletionAnnounced, Receive
<1>9. ServedOwnTenant'
  BY DEF IInv, StagesFitCalls, ServedOwnTenant, Receive
<1>10. ServedWasCommitted'
  BY DEF IInv, TaskOf, StagesFitCalls, ServedWasCommitted, Receive, history
<1>. QED  BY <1>1, <1>2, <1>3, <1>4, <1>5, <1>6, <1>7, <1>8, <1>9, <1>10 DEF IInv

LEMMA CacheHitPreserves ==
    ASSUME IInv, NEW r \in Requests, CacheHit(r)
    PROVE  IInv'
<1>1. TypeOK'
  BY CallsAreValid
  DEF IInv, TypeOK, Stages, Keys, ValidCall, StagesFitCalls, CacheHit, transaction, history,
     Goto, End, Key
<1>2. StagesFitCalls'
  BY DEF IInv, TypeOK, StagesFitCalls, CacheHit, transaction, Goto, End
<1>3. SnapshotsAreOwn'
  BY DEF IInv, TaskOf, SnapshotOf, Holding, SnapshotsAreOwn, CacheHit, transaction, history,
     Goto, End
<1>4. CreationsAreFresh'
  BY DEF IInv, TaskOf, CreationsAreFresh, CacheHit, transaction, Goto, End
<1>5. VersionsAreComplete'
  BY DEF IInv, VersionsAreComplete, CacheHit, history
<1>6. CompletionsAreAnnounced'
  BY DEF IInv, TaskOf, Announced, Holding, CompletionsAreAnnounced, CacheHit, transaction,
     Goto, End
<1>7. PublishersAreStarted'
  BY DEF IInv, PublishersAreStarted, CacheHit, transaction
<1>8. CompletionAnnounced'
  BY DEF IInv, TaskOf, CompletionAnnounced, CacheHit, transaction
<1>9. ServedOwnTenant'
  BY CallsAreValid
  DEF IInv, TypeOK, ValidCall, StagesFitCalls, ServedOwnTenant, CacheHit, transaction, Key
<1>10. ServedWasCommitted'
  BY CallsAreValid
  DEF IInv, TypeOK, Keys, ValidCall, TaskOf, StagesFitCalls, ServedWasCommitted, CacheHit,
     transaction, history, Key
<1>. QED  BY <1>1, <1>2, <1>3, <1>4, <1>5, <1>6, <1>7, <1>8, <1>9, <1>10 DEF IInv

LEMMA CacheMissPreserves ==
    ASSUME IInv, NEW r \in Requests, CacheMiss(r)
    PROVE  IInv'
<1>1. TypeOK'
  BY DEF IInv, TypeOK, Stages, CacheMiss, transaction, history, Goto
<1>2. StagesFitCalls'
  BY DEF IInv, StagesFitCalls, CacheMiss, transaction, Goto
<1>3. SnapshotsAreOwn'
  BY DEF IInv, TaskOf, SnapshotOf, Holding, SnapshotsAreOwn, CacheMiss, transaction, history,
     Goto
<1>4. CreationsAreFresh'
  BY DEF IInv, TaskOf, CreationsAreFresh, CacheMiss, transaction, Goto
<1>5. VersionsAreComplete'
  BY DEF IInv, VersionsAreComplete, CacheMiss, history
<1>6. CompletionsAreAnnounced'
  BY DEF IInv, TaskOf, Announced, Holding, CompletionsAreAnnounced, CacheMiss, transaction, Goto
<1>7. PublishersAreStarted'
  BY DEF IInv, PublishersAreStarted, CacheMiss, transaction
<1>8. CompletionAnnounced'
  BY DEF IInv, TaskOf, CompletionAnnounced, CacheMiss, transaction
<1>9. ServedOwnTenant'
  BY DEF IInv, ServedOwnTenant, CacheMiss, transaction
<1>10. ServedWasCommitted'
  BY DEF IInv, TaskOf, ServedWasCommitted, CacheMiss, transaction, history
<1>. QED  BY <1>1, <1>2, <1>3, <1>4, <1>5, <1>6, <1>7, <1>8, <1>9, <1>10 DEF IInv

LEMMA LoadPreserves ==
    ASSUME IInv, NEW r \in Requests, Load(r)
    PROVE  IInv'
<1>1. TypeOK'
  BY CallsAreValid
  DEF IInv, TypeOK, Row, Stages, Statuses, Writes, ValidCall, StagesFitCalls, Load, history,
     Goto, Found, Execute, UpdateDetails, Complete
<1>2. StagesFitCalls'
  BY CallsAreValid DEF IInv, TypeOK, ValidCall, StagesFitCalls, Load, Goto
<1>3. SnapshotsAreOwn'
  BY CallFields
  DEF IInv, TypeOK, StagesFitCalls, SnapshotsAreOwn, SnapshotOf, VersionsAreComplete, Load,
     Found, TaskOf, Goto, history
<1>4. CreationsAreFresh'
  BY DEF IInv, TaskOf, CreationsAreFresh, Load, Goto
<1>5. VersionsAreComplete'
  BY DEF IInv, VersionsAreComplete, Load, history
<1>6. CompletionsAreAnnounced'
  BY CallsAreValid
  DEF IInv, TypeOK, ValidCall, TaskOf, Announced, StagesFitCalls, CompletionsAreAnnounced,
     CompletionAnnounced, Load, Goto, Found
<1>7. PublishersAreStarted'
  BY DEF IInv, PublishersAreStarted, Load
<1>8. CompletionAnnounced'
  BY DEF IInv, TaskOf, CompletionAnnounced, Load
<1>9. ServedOwnTenant'
  BY DEF IInv, ServedOwnTenant, Load
<1>10. ServedWasCommitted'
  BY DEF IInv, TaskOf, ServedWasCommitted, Load, history
<1>. QED  BY <1>1, <1>2, <1>3, <1>4, <1>5, <1>6, <1>7, <1>8, <1>9, <1>10 DEF IInv

LEMMA RefusePreserves ==
    ASSUME IInv, NEW r \in Requests, Refuse(r)
    PROVE  IInv'
<1>1. TypeOK'
  BY DEF IInv, TypeOK, Stages, Refuse, transaction, history, Goto, End
<1>2. StagesFitCalls'
  BY DEF IInv, StagesFitCalls, Refuse, transaction, Goto, End
<1>3. SnapshotsAreOwn'
  BY DEF IInv, TaskOf, SnapshotOf, Holding, SnapshotsAreOwn, Refuse, transaction, history,
     Goto, End
<1>4. CreationsAreFresh'
  BY DEF IInv, TaskOf, CreationsAreFresh, Refuse, transaction, Goto, End
<1>5. VersionsAreComplete'
  BY DEF IInv, VersionsAreComplete, Refuse, history
<1>6. CompletionsAreAnnounced'
  BY DEF IInv, TaskOf, Announced, Holding, CompletionsAreAnnounced, Refuse, transaction, Goto,
     End
<1>7. PublishersAreStarted'
  BY DEF IInv, PublishersAreStarted, Refuse, transaction
<1>8. CompletionAnnounced'
  BY DEF IInv, TaskOf, CompletionAnnounced, Refuse, transaction
<1>9. ServedOwnTenant'
  BY DEF IInv, ServedOwnTenant, Refuse, transaction
<1>10. ServedWasCommitted'
  BY DEF IInv, TaskOf, ServedWasCommitted, Refuse, transaction, history
<1>. QED  BY <1>1, <1>2, <1>3, <1>4, <1>5, <1>6, <1>7, <1>8, <1>9, <1>10 DEF IInv

LEMMA InsertPreserves ==
    ASSUME IInv, NEW r \in Requests, Insert(r)
    PROVE  IInv'
<1>1. TypeOK'
  BY CallsAreValid
  DEF IInv, TypeOK, Row, Stages, Statuses, ValidCall, StagesFitCalls, Insert, history, Goto,
     Publish, NewTask
<1>2. StagesFitCalls'
  BY DEF IInv, StagesFitCalls, Insert, Goto
<1>3. SnapshotsAreOwn'
  BY DEF IInv, TaskOf, SnapshotOf, StagesFitCalls, SnapshotsAreOwn, Insert, history, Goto
<1>4. CreationsAreFresh'
  BY DEF IInv, TypeOK, TaskOf, CreationsAreFresh, Insert, Goto
<1>5. VersionsAreComplete'
  BY DEF IInv, VersionsAreComplete, Insert, history
<1>6. CompletionsAreAnnounced'
  BY DEF IInv, TaskOf, Announced, StagesFitCalls, CompletionsAreAnnounced, Insert, Goto, Publish
<1>7. PublishersAreStarted'
  BY DEF IInv, StagesFitCalls, PublishersAreStarted, Insert, Publish
<1>8. CompletionAnnounced'
  BY DEF IInv, TaskOf, CompletionAnnounced, Insert, Publish
<1>9. ServedOwnTenant'
  BY DEF IInv, ServedOwnTenant, Insert
<1>10. ServedWasCommitted'
  BY DEF IInv, TaskOf, ServedWasCommitted, Insert, history
<1>. QED  BY <1>1, <1>2, <1>3, <1>4, <1>5, <1>6, <1>7, <1>8, <1>9, <1>10 DEF IInv

LEMMA RefetchPreserves ==
    ASSUME IInv, NEW r \in Requests, Refetch(r)
    PROVE  IInv'
<1>1. TypeOK'
  <2>1. dirty' \in [Requests -> SUBSET Columns]
    BY DEF IInv, TypeOK, Refetch, Differing
  <2>2. pc' \in [Requests -> Stages] /\ published' \in SUBSET Requests
    BY DEF IInv, TypeOK, Refetch, Publish, Goto, Stages
  <2>. QED
    BY <2>1, <2>2 DEF IInv, TypeOK, Refetch, history
<1>2. StagesFitCalls'
  BY DEF IInv, TypeOK, StagesFitCalls, Refetch, Goto
<1>3. SnapshotsAreOwn'
  BY DEF IInv, TypeOK, TaskOf, SnapshotOf, Holding, SnapshotsAreOwn, Refetch, history, Goto
<1>4. CreationsAreFresh'
  BY DEF IInv, TypeOK, Writes, TaskOf, StagesFitCalls, CreationsAreFresh, Refetch, Goto
<1>5. VersionsAreComplete'
  BY DEF IInv, VersionsAreComplete, Refetch, history
<1>6. CompletionsAreAnnounced'
  BY DEF IInv, TypeOK, TaskOf, Announced, Holding, CompletionsAreAnnounced, Refetch, Goto,
     Publish, RecordsEvent
<1>7. PublishersAreStarted'
  BY DEF IInv, StagesFitCalls, PublishersAreStarted, Refetch, Publish
<1>8. CompletionAnnounced'
  BY DEF IInv, TaskOf, CompletionAnnounced, Refetch, Publish
<1>9. ServedOwnTenant'
  BY DEF IInv, ServedOwnTenant, Refetch
<1>10. ServedWasCommitted'
  BY DEF IInv, TaskOf, ServedWasCommitted, Refetch, history
<1>. QED  BY <1>1, <1>2, <1>3, <1>4, <1>5, <1>6, <1>7, <1>8, <1>9, <1>10 DEF IInv

LEMMA FlushPreserves ==
    ASSUME IInv, NEW r \in Requests, Flush(r)
    PROVE  IInv'
<1>1. TypeOK'
  BY DEF IInv, TypeOK, Stages, Flush, transaction, history, Goto, Publish
<1>2. StagesFitCalls'
  BY DEF IInv, StagesFitCalls, Flush, transaction, Goto
<1>3. SnapshotsAreOwn'
  BY DEF IInv, TaskOf, SnapshotOf, Holding, SnapshotsAreOwn, Flush, transaction, history, Goto
<1>4. CreationsAreFresh'
  BY DEF IInv, Writes, TaskOf, StagesFitCalls, CreationsAreFresh, Flush, transaction, Goto
<1>5. VersionsAreComplete'
  BY DEF IInv, VersionsAreComplete, Flush, history
<1>6. CompletionsAreAnnounced'
  BY DEF IInv, TaskOf, Announced, Holding, CompletionsAreAnnounced, Flush, transaction, Goto,
     Publish, RecordsEvent
<1>7. PublishersAreStarted'
  BY DEF IInv, StagesFitCalls, PublishersAreStarted, Flush, transaction, Publish
<1>8. CompletionAnnounced'
  BY DEF IInv, TaskOf, CompletionAnnounced, Flush, transaction, Publish
<1>9. ServedOwnTenant'
  BY DEF IInv, ServedOwnTenant, Flush, transaction
<1>10. ServedWasCommitted'
  BY DEF IInv, TaskOf, ServedWasCommitted, Flush, transaction, history
<1>. QED  BY <1>1, <1>2, <1>3, <1>4, <1>5, <1>6, <1>7, <1>8, <1>9, <1>10 DEF IInv

LEMMA CommitPreserves ==
    ASSUME IInv, NEW r \in Requests, Commit(r)
    PROVE  IInv'
<1>1. TypeOK'
  BY WrittenIsOwnRow, CallFields
  DEF IInv, TypeOK, StagesFitCalls, Commit, TakeEffect, Goto, End, StageAfter, Stages,
     transaction
<1>2. StagesFitCalls'
  BY DEF IInv, TypeOK, StagesFitCalls, Commit, transaction, Goto, End, StageAfter
<1>3. SnapshotsAreOwn'
  <2>. SUFFICES ASSUME NEW q \in Requests, pc'[q] \in Holding, call'[q].op # "create"
                PROVE  SnapshotOf(q)'
    BY DEF SnapshotsAreOwn
  <2>1. UNCHANGED <<call, loaded, entity>>
    BY DEF Commit, transaction
  <2>2. pc[q] \in Holding /\ call[q] \in Calls
    BY DEF IInv, TypeOK, StagesFitCalls, Commit, End, Goto, Holding
  <2>3. SnapshotOf(q)
    BY <2>1, <2>2 DEF IInv, SnapshotsAreOwn
  <2>4. CASE TaskOf(q) = TaskOf(r)
    <3>1. call[r].op # "create"
      BY <2>3, <2>4 DEF IInv, StagesFitCalls, CreationsAreFresh, SnapshotOf, Commit
    <3>2. call[r].tenant = call[q].tenant
      BY <2>3, <2>4, <3>1 DEF IInv, SnapshotsAreOwn, SnapshotOf, Commit, Holding
    <3>. QED
      BY <2>1, <2>3, <3>2, WrittenIsOwnRow, NoneIsNoValue
      DEF SnapshotOf, TaskOf, Commit, TakeEffect
  <2>5. CASE TaskOf(q) # TaskOf(r)
    BY <2>1, <2>3, <2>5 DEF SnapshotOf, TaskOf, Commit, TakeEffect
  <2>. QED  BY <2>4, <2>5
<1>4. CreationsAreFresh'
  BY DEF IInv, TypeOK, TaskOf, SnapshotOf, Holding, StagesFitCalls, SnapshotsAreOwn,
     CreationsAreFresh, Commit, transaction, Goto, End, StageAfter, TakeEffect
<1>5. VersionsAreComplete'
  BY DEF IInv, TypeOK, VersionsAreComplete, Commit, TakeEffect
<1>6. CompletionsAreAnnounced'
  BY DEF IInv, TypeOK, TaskOf, Announced, Holding, CompletionsAreAnnounced, Commit,
     transaction, Goto, End
<1>7. PublishersAreStarted'
  BY DEF IInv, PublishersAreStarted, Commit, transaction
<1>8. CompletionAnnounced'
  BY DEF IInv, TypeOK, Row, Writes, TaskOf, SnapshotOf, Announced, Holding, StagesFitCalls,
     SnapshotsAreOwn, CreationsAreFresh, CompletionsAreAnnounced, CompletionAnnounced, Commit,
     transaction, TakeEffect, Written, Execute, UpdateDetails, NewTask
<1>9. ServedOwnTenant'
  BY DEF IInv, ServedOwnTenant, Commit, transaction
<1>10. ServedWasCommitted'
  BY DEF IInv, TaskOf, ServedWasCommitted, Commit, transaction, TakeEffect
<1>. QED  BY <1>1, <1>2, <1>3, <1>4, <1>5, <1>6, <1>7, <1>8, <1>9, <1>10 DEF IInv

LEMMA CommitUnacknowledgedPreserves ==
    ASSUME IInv, NEW r \in Requests, CommitUnacknowledged(r)
    PROVE  IInv'
<1>1. TypeOK'
  BY WrittenIsOwnRow, CallFields
  DEF IInv, TypeOK, StagesFitCalls, CommitUnacknowledged, TakeEffect, Goto, End, Stages,
     transaction
<1>2. StagesFitCalls'
  BY DEF IInv, StagesFitCalls, CommitUnacknowledged, transaction, Goto, End
<1>3. SnapshotsAreOwn'
  <2>. SUFFICES ASSUME NEW q \in Requests, pc'[q] \in Holding, call'[q].op # "create"
                PROVE  SnapshotOf(q)'
    BY DEF SnapshotsAreOwn
  <2>1. UNCHANGED <<call, loaded, entity>>
    BY DEF CommitUnacknowledged, transaction
  <2>2. pc[q] \in Holding /\ call[q] \in Calls
    BY DEF IInv, TypeOK, StagesFitCalls, CommitUnacknowledged, End, Goto, Holding
  <2>3. SnapshotOf(q)
    BY <2>1, <2>2 DEF IInv, SnapshotsAreOwn
  <2>4. CASE TaskOf(q) = TaskOf(r)
    <3>1. call[r].op # "create"
      BY <2>3, <2>4
      DEF IInv, StagesFitCalls, CreationsAreFresh, SnapshotOf, CommitUnacknowledged
    <3>2. call[r].tenant = call[q].tenant
      BY <2>3, <2>4, <3>1 DEF IInv, SnapshotsAreOwn, SnapshotOf, CommitUnacknowledged, Holding
    <3>. QED
      BY <2>1, <2>3, <3>2, WrittenIsOwnRow, NoneIsNoValue
      DEF SnapshotOf, TaskOf, CommitUnacknowledged, TakeEffect
  <2>5. CASE TaskOf(q) # TaskOf(r)
    BY <2>1, <2>3, <2>5 DEF SnapshotOf, TaskOf, CommitUnacknowledged, TakeEffect
  <2>. QED  BY <2>4, <2>5
<1>4. CreationsAreFresh'
  BY DEF IInv, TypeOK, TaskOf, SnapshotOf, Holding, StagesFitCalls, SnapshotsAreOwn,
     CreationsAreFresh, CommitUnacknowledged, transaction, Goto, End, TakeEffect
<1>5. VersionsAreComplete'
  BY DEF IInv, TypeOK, VersionsAreComplete, CommitUnacknowledged, TakeEffect
<1>6. CompletionsAreAnnounced'
  BY DEF IInv, TaskOf, Announced, Holding, CompletionsAreAnnounced, CommitUnacknowledged,
     transaction, Goto, End
<1>7. PublishersAreStarted'
  BY DEF IInv, PublishersAreStarted, CommitUnacknowledged, transaction
<1>8. CompletionAnnounced'
  BY DEF IInv, TypeOK, Row, Writes, TaskOf, SnapshotOf, Announced, Holding, StagesFitCalls,
     SnapshotsAreOwn, CreationsAreFresh, CompletionsAreAnnounced, CompletionAnnounced,
     CommitUnacknowledged, transaction, TakeEffect, Written, Execute, UpdateDetails, NewTask
<1>9. ServedOwnTenant'
  BY DEF IInv, ServedOwnTenant, CommitUnacknowledged, transaction
<1>10. ServedWasCommitted'
  BY DEF IInv, TaskOf, ServedWasCommitted, CommitUnacknowledged, transaction, TakeEffect
<1>. QED  BY <1>1, <1>2, <1>3, <1>4, <1>5, <1>6, <1>7, <1>8, <1>9, <1>10 DEF IInv

LEMMA FillPreserves ==
    ASSUME IInv, NEW r \in Requests, Fill(r)
    PROVE  IInv'
<1>1. TypeOK'
  BY CallsAreValid
  DEF IInv, TypeOK, Stages, Keys, ValidCall, StagesFitCalls, Fill, transaction, Goto, End, Key
<1>2. StagesFitCalls'
  BY DEF IInv, TypeOK, StagesFitCalls, Fill, transaction, Goto, End
<1>3. SnapshotsAreOwn'
  BY DEF IInv, TaskOf, SnapshotOf, Holding, SnapshotsAreOwn, Fill, transaction, Goto, End
<1>4. CreationsAreFresh'
  BY DEF IInv, TaskOf, CreationsAreFresh, Fill, transaction, Goto, End
<1>5. VersionsAreComplete'
  BY DEF IInv, VersionsAreComplete, Fill
<1>6. CompletionsAreAnnounced'
  BY DEF IInv, TaskOf, Announced, Holding, CompletionsAreAnnounced, Fill, transaction, Goto, End
<1>7. PublishersAreStarted'
  BY DEF IInv, PublishersAreStarted, Fill, transaction
<1>8. CompletionAnnounced'
  BY DEF IInv, TaskOf, CompletionAnnounced, Fill, transaction
<1>9. ServedOwnTenant'
  BY DEF IInv, SnapshotOf, Holding, StagesFitCalls, SnapshotsAreOwn, ServedOwnTenant, Fill,
     transaction, Key
<1>10. ServedWasCommitted'
  BY DEF IInv, TaskOf, SnapshotOf, Holding, StagesFitCalls, SnapshotsAreOwn,
     ServedWasCommitted, Fill, transaction, Key
<1>. QED  BY <1>1, <1>2, <1>3, <1>4, <1>5, <1>6, <1>7, <1>8, <1>9, <1>10 DEF IInv

LEMMA InvalidatePreserves ==
    ASSUME IInv, NEW r \in Requests, Invalidate(r)
    PROVE  IInv'
<1>1. TypeOK'
  BY CallsAreValid
  DEF IInv, TypeOK, Stages, Keys, ValidCall, StagesFitCalls, Invalidate, transaction, Goto,
     End, Key, Drop
<1>2. StagesFitCalls'
  BY DEF IInv, StagesFitCalls, Invalidate, transaction, Goto, End
<1>3. SnapshotsAreOwn'
  BY DEF IInv, TaskOf, SnapshotOf, Holding, SnapshotsAreOwn, Invalidate, transaction, Goto, End
<1>4. CreationsAreFresh'
  BY DEF IInv, TaskOf, CreationsAreFresh, Invalidate, transaction, Goto, End
<1>5. VersionsAreComplete'
  BY DEF IInv, VersionsAreComplete, Invalidate
<1>6. CompletionsAreAnnounced'
  BY DEF IInv, TaskOf, Announced, Holding, CompletionsAreAnnounced, Invalidate, transaction,
     Goto, End
<1>7. PublishersAreStarted'
  BY DEF IInv, PublishersAreStarted, Invalidate, transaction
<1>8. CompletionAnnounced'
  BY DEF IInv, TaskOf, CompletionAnnounced, Invalidate, transaction
<1>9. ServedOwnTenant'
  BY DEF IInv, ServedOwnTenant, Invalidate, transaction, Drop
<1>10. ServedWasCommitted'
  BY DEF IInv, TaskOf, ServedWasCommitted, Invalidate, transaction, Drop
<1>. QED  BY <1>1, <1>2, <1>3, <1>4, <1>5, <1>6, <1>7, <1>8, <1>9, <1>10 DEF IInv

LEMMA AbortPreserves ==
    ASSUME IInv, NEW r \in Requests, Abort(r)
    PROVE  IInv'
<1>1. TypeOK'
  BY DEF IInv, TypeOK, Stages, Abort, transaction, history, Goto, End
<1>2. StagesFitCalls'
  BY DEF IInv, StagesFitCalls, Abort, transaction, Goto, End
<1>3. SnapshotsAreOwn'
  BY DEF IInv, TaskOf, SnapshotOf, Holding, SnapshotsAreOwn, Abort, transaction, history,
     Goto, End
<1>4. CreationsAreFresh'
  BY DEF IInv, TaskOf, CreationsAreFresh, Abort, transaction, Goto, End
<1>5. VersionsAreComplete'
  BY DEF IInv, VersionsAreComplete, Abort, history
<1>6. CompletionsAreAnnounced'
  BY DEF IInv, TaskOf, Announced, Holding, CompletionsAreAnnounced, Abort, transaction, Goto,
     End
<1>7. PublishersAreStarted'
  BY DEF IInv, PublishersAreStarted, Abort, transaction
<1>8. CompletionAnnounced'
  BY DEF IInv, TaskOf, CompletionAnnounced, Abort, transaction
<1>9. ServedOwnTenant'
  BY DEF IInv, ServedOwnTenant, Abort, transaction
<1>10. ServedWasCommitted'
  BY DEF IInv, TaskOf, ServedWasCommitted, Abort, transaction, history
<1>. QED  BY <1>1, <1>2, <1>3, <1>4, <1>5, <1>6, <1>7, <1>8, <1>9, <1>10 DEF IInv

LEMMA ExpirePreserves ==
    ASSUME IInv, NEW key \in Keys, Expire(key)
    PROVE  IInv'
<1>1. TypeOK'
  BY DEF IInv, TypeOK, Expire, transaction, Drop
<1>2. StagesFitCalls'
  BY DEF IInv, StagesFitCalls, Expire, transaction
<1>3. SnapshotsAreOwn'
  BY DEF IInv, TaskOf, SnapshotOf, SnapshotsAreOwn, Expire, transaction
<1>4. CreationsAreFresh'
  BY DEF IInv, TaskOf, CreationsAreFresh, Expire, transaction
<1>5. VersionsAreComplete'
  BY DEF IInv, VersionsAreComplete, Expire
<1>6. CompletionsAreAnnounced'
  BY DEF IInv, TaskOf, Announced, CompletionsAreAnnounced, Expire, transaction
<1>7. PublishersAreStarted'
  BY DEF IInv, PublishersAreStarted, Expire, transaction
<1>8. CompletionAnnounced'
  BY DEF IInv, TaskOf, CompletionAnnounced, Expire, transaction
<1>9. ServedOwnTenant'
  BY DEF IInv, ServedOwnTenant, Expire, transaction, Drop
<1>10. ServedWasCommitted'
  BY DEF IInv, TaskOf, ServedWasCommitted, Expire, transaction, Drop
<1>. QED  BY <1>1, <1>2, <1>3, <1>4, <1>5, <1>6, <1>7, <1>8, <1>9, <1>10 DEF IInv

LEMMA InitIsSafe == Init => IInv
<1>. SUFFICES ASSUME Init PROVE IInv
  OBVIOUS
<1>1. TypeOK
  BY DEF Init, TypeOK, Stages, Row, Statuses
<1>2. StagesFitCalls
  BY DEF Init, StagesFitCalls
<1>3. SnapshotsAreOwn /\ CompletionsAreAnnounced
  BY DEF Init, SnapshotsAreOwn, CompletionsAreAnnounced, Holding
<1>4. CreationsAreFresh /\ PublishersAreStarted
  BY DEF Init, CreationsAreFresh, PublishersAreStarted
<1>5. VersionsAreComplete
  BY NoneIsNoValue DEF Init, VersionsAreComplete
<1>6. CompletionAnnounced
  BY NoneIsNoValue DEF Init, CompletionAnnounced
<1>7. ServedOwnTenant /\ ServedWasCommitted
  BY DEF Init, ServedOwnTenant, ServedWasCommitted, Keys
<1>. QED  BY <1>1, <1>2, <1>3, <1>4, <1>5, <1>6, <1>7 DEF IInv

LEMMA StutteringIsSafe == IInv /\ UNCHANGED vars => IInv'
<1>. SUFFICES ASSUME IInv, UNCHANGED vars PROVE IInv'
  OBVIOUS
<1>1. /\ TypeOK' /\ StagesFitCalls' /\ CreationsAreFresh'
      /\ VersionsAreComplete' /\ PublishersAreStarted'
  BY DEF IInv, vars, TypeOK, StagesFitCalls, CreationsAreFresh, VersionsAreComplete,
     PublishersAreStarted, TaskOf
<1>2. SnapshotsAreOwn' /\ CompletionsAreAnnounced' /\ CompletionAnnounced'
  BY DEF IInv, vars, SnapshotsAreOwn, SnapshotOf, CompletionsAreAnnounced,
     CompletionAnnounced, Announced, TaskOf, Execute
<1>3. ServedOwnTenant' /\ ServedWasCommitted'
  BY DEF IInv, vars, ServedOwnTenant, ServedWasCommitted, TaskOf
<1>. QED  BY <1>1, <1>2, <1>3 DEF IInv

LEMMA NextIsSafe == IInv /\ [Next]_vars => IInv'
<1>. SUFFICES ASSUME IInv, [Next]_vars PROVE IInv'
  OBVIOUS
<1>1. CASE Next
  <2>1. CASE \E r \in Requests, c \in Calls : Receive(r, c)
    BY <2>1, ReceivePreserves
  <2>2. CASE \E r \in Requests : Step(r)
    <3>. PICK r \in Requests : Step(r)
      BY <2>2
    <3>. QED
      BY CacheHitPreserves, CacheMissPreserves, LoadPreserves, RefusePreserves, InsertPreserves,
         RefetchPreserves, FlushPreserves, CommitPreserves, FillPreserves, InvalidatePreserves
      DEF Step
  <2>3. CASE \E r \in Requests : CommitUnacknowledged(r) \/ Abort(r)
    BY <2>3, CommitUnacknowledgedPreserves, AbortPreserves
  <2>4. CASE \E key \in Keys : Expire(key)
    BY <2>4, ExpirePreserves
  <2>. QED  BY <1>1, <2>1, <2>2, <2>3, <2>4 DEF Next
<1>2. CASE UNCHANGED vars
  BY <1>2, StutteringIsSafe
<1>. QED  BY <1>1, <1>2

(* Every reachable state satisfies the inductive invariant: snapshots are
   committed rows of the tenant of their call, and whoever completed a row, or
   found it completed, has it announced (complete_task.py, get_task.py,
   sqlalchemy_task_repository.py). *)
THEOREM Safe == Spec => []IInv
  BY InitIsSafe, NextIsSafe, PTL DEF Spec

(* The variables keep their types, and the state of a handler fits its stage
   (TaskRequests' handlers never mix up the calls they serve). *)
THEOREM TypesAreKept == Spec => []TypeOK
<1>1. IInv => TypeOK
  BY DEF IInv
<1>. QED  BY <1>1, Safe, PTL

(* No task is ever completed in the table without its TaskCompleted having been
   published (complete_task.py publishes before the unit of work commits): for
   every number of requests, tenants and tasks, with every failure and race. *)
THEOREM CompletionsArePublished == Spec => []CompletionAnnounced
<1>1. IInv => CompletionAnnounced
  BY DEF IInv
<1>. QED  BY <1>1, Safe, PTL

(* Neither a reply nor the cache ever crosses tenants, for any number of them
   (routers.py keys the cache by tenant, the policies filter what is read). *)
THEOREM RepliesKeepToTheirTenant == Spec => []ServedOwnTenant
<1>1. IInv => ServedOwnTenant
  BY DEF IInv
<1>. QED  BY <1>1, Safe, PTL

(* Whatever is answered or cached was committed: cached() fills only after the
   unit of work of the query has ended (caching.py, get_task.py). *)
THEOREM RepliesWereCommitted == Spec => []ServedWasCommitted
<1>1. IInv => ServedWasCommitted
  BY DEF IInv
<1>. QED  BY <1>1, Safe, PTL

-----------------------------------------------------------------------------
(* Where a stale entry of the cache comes from.  Entries are dropped by tenant
   and task, tables are by task alone: that a task has one tenant for good ties
   the two together. *)

VersionsHaveOneTenant ==
    \A k \in Tasks : \A row \in versions[k] :
        table[k] # None /\ row.tenant = table[k].tenant

\* Who has written or filled works in the tenant of its task.
WritersAreOwn ==
    \A r \in owed \cup staleFills :
        /\ call[r] # None
        /\ table[TaskOf(r)] # None /\ table[TaskOf(r)].tenant = call[r].tenant
        /\ r \in staleFills => pc[r] = "done"

StaleInv ==
    /\ VersionsHaveOneTenant
    /\ WritersAreOwn
    /\ StaleOnlyForKnownReasons

\* A cached row belongs to the tenant of the task, so a task is under one key.
LEMMA CachedUnderOwner ==
    ASSUME IInv, StaleInv, NEW t \in Tenants, NEW k \in Tasks, cache[<<t, k>>] # None
    PROVE  table[k] # None /\ table[k].tenant = t
<1>1. cache[<<t, k>>].tenant = t
  BY DEF IInv, ServedOwnTenant
<1>2. cache[<<t, k>>] \in versions[k]
  BY DEF IInv, ServedWasCommitted, Keys
<1>. QED  BY <1>1, <1>2 DEF StaleInv, VersionsHaveOneTenant

LEMMA CommitExplainsStaleness ==
    ASSUME IInv, StaleInv, NEW r \in Requests, Commit(r) \/ CommitUnacknowledged(r)
    PROVE  StaleInv'
<1>. DEFINE k == TaskOf(r)
<1>1. pc[r] = "commit" /\ call[r] \in Calls /\ k \in Tasks /\ call[r] # None
  BY CallFields DEF IInv, TypeOK, StagesFitCalls, Commit, CommitUnacknowledged, TaskOf
<1>2. /\ Written(r) \in Row /\ Written(r).tenant = call[r].tenant
      /\ table' = [table EXCEPT ![k] = Written(r)]
      /\ versions' = [versions EXCEPT ![k] = @ \cup {Written(r)}]
      /\ owed' = owed \cup {q \in {r} : HasWrite(q)}
      /\ UNCHANGED <<call, cache, staleFills, dirty>>
  BY <1>1, WrittenIsOwnRow DEF Commit, CommitUnacknowledged, TakeEffect, TaskOf, transaction
<1>3. Written(r) # None
  BY <1>2, NoneIsNoValue
<1>4. /\ table'[k] = Written(r) /\ versions'[k] = versions[k] \cup {Written(r)}
      /\ \A j \in Tasks : j # k => table'[j] = table[j] /\ versions'[j] = versions[j]
      /\ \A q \in Requests : q # r => pc'[q] = pc[q] /\ outcome'[q] = outcome[q]
  BY <1>1, <1>2 DEF IInv, TypeOK, Commit, CommitUnacknowledged, End, Goto
<1>5. table[k] # None => table[k].tenant = call[r].tenant /\ call[r].op # "create"
  BY <1>1 DEF IInv, CreationsAreFresh, SnapshotsAreOwn, SnapshotOf, Holding, TaskOf
<1>6. VersionsHaveOneTenant'
  BY <1>2, <1>3, <1>4, <1>5 DEF StaleInv, VersionsHaveOneTenant
<1>7. r \notin staleFills
  BY <1>1 DEF StaleInv, WritersAreOwn
<1>8. WritersAreOwn'
  <2>. SUFFICES ASSUME NEW q \in owed' \cup staleFills'
                PROVE  /\ call[q] # None
                       /\ table'[TaskOf(q)] # None /\ table'[TaskOf(q)].tenant = call[q].tenant
                       /\ q \in staleFills' => pc'[q] = "done"
    BY <1>2 DEF WritersAreOwn, TaskOf
  <2>1. CASE q = r
    BY <1>1, <1>2, <1>3, <1>4, <1>7, <2>1, CallFields
  <2>2. CASE q # r
    <3>1. q \in owed \cup staleFills /\ q \in Requests
      BY <1>2, <2>2 DEF IInv, TypeOK
    <3>2. call[q] \in Calls /\ TaskOf(q) \in Tasks
      BY <3>1, CallFields DEF IInv, TypeOK, StaleInv, WritersAreOwn, TaskOf
    <3>. QED  BY <1>2, <1>3, <1>4, <1>5, <2>2, <3>1, <3>2 DEF StaleInv, WritersAreOwn
  <2>. QED  BY <2>1, <2>2
<1>9. StaleOnlyForKnownReasons'
  <2>. SUFFICES ASSUME NEW t \in Tenants, NEW j \in Tasks,
                       cache[<<t, j>>] # None, cache[<<t, j>>] # table'[j]
                PROVE  \E q \in Requests :
                         /\ call[q] # None /\ Key(call[q]) = <<t, j>>
                         /\ Uninvalidated(q)' \/ q \in staleFills
    BY <1>2 DEF StaleOnlyForKnownReasons, Keys, TaskOf
  <2>1. CASE j = k /\ table'[k] # table[k]
    <3>1. table[k] # None /\ t = call[r].tenant /\ Key(call[r]) = <<t, j>>
      BY <1>5, <2>1, CachedUnderOwner DEF Key, TaskOf
    <3>2. call[r].op # "create" /\ table[k] \in Row
      BY <1>1, <1>5, <3>1 DEF IInv, TypeOK
    <3>3. dirty[r] # {}
      BY <1>4, <2>1, <3>2 DEF Written, TaskOf, Row
    <3>4. call[r].op \in Writes /\ r \in owed'
      BY <1>2, <3>3 DEF IInv, StagesFitCalls, HasWrite
    <3>5. \/ pc'[r] = "invalidate"
          \/ pc'[r] = "done" /\ (call[r].via = "cli" \/ outcome'[r] = "error")
      BY <1>1, <3>4, CallFields
      DEF IInv, TypeOK, Commit, CommitUnacknowledged, StageAfter, End, Goto, Writes
    <3>. QED  BY <1>1, <1>2, <2>1, <3>1, <3>4, <3>5, CallFields DEF Uninvalidated
  <2>2. CASE ~(j = k /\ table'[k] # table[k])
    <3>1. cache[<<t, j>>] # table[j]
      BY <1>4, <2>2
    <3>2. PICK q \in Requests : /\ call[q] # None /\ Key(call[q]) = <<t, j>>
                                /\ Uninvalidated(q) \/ q \in staleFills
      BY <3>1 DEF StaleInv, StaleOnlyForKnownReasons, Keys
    <3>3. q # r
      BY <1>1, <1>7, <3>2 DEF Uninvalidated
    <3>. QED  BY <1>2, <1>4, <3>2, <3>3 DEF Uninvalidated
  <2>. QED  BY <2>1, <2>2
<1>. QED  BY <1>6, <1>8, <1>9 DEF StaleInv

LEMMA CacheStepExplainsStaleness ==
    ASSUME IInv, StaleInv, NEW r \in Requests, Fill(r) \/ Invalidate(r)
    PROVE  StaleInv'
<1>. DEFINE key == Key(call[r])
<1>1. pc[r] \in {"fill", "invalidate"} /\ call[r] \in Calls /\ TaskOf(r) \in Tasks
      /\ call[r].tenant \in Tenants
  BY CallFields DEF IInv, TypeOK, StagesFitCalls, Fill, Invalidate, TaskOf
<1>2. UNCHANGED <<call, table, versions>>
  BY DEF Fill, Invalidate, transaction
<1>3. \A q \in Requests : q # r => pc'[q] = pc[q] /\ outcome'[q] = outcome[q]
  BY DEF IInv, TypeOK, Fill, Invalidate, End, Goto
<1>4. pc'[r] = "done"
  BY DEF IInv, TypeOK, Fill, Invalidate, End, Goto
<1>5. /\ cache'[key] # None /\ cache'[key] # table[TaskOf(r)] => r \in staleFills'
      /\ \A q \in staleFills : Key(call[q]) # key => q \in staleFills'
      /\ \A q \in owed : Key(call[q]) # key => q \in owed'
      /\ \A other \in Keys : other # key => cache'[other] = cache[other]
  BY <1>1 DEF IInv, TypeOK, Keys, Key, Fill, Invalidate, Drop, TaskOf
<1>6. staleFills' \subseteq staleFills \cup {r} /\ owed' \subseteq owed
  BY DEF Fill, Invalidate, Drop
<1>7. VersionsHaveOneTenant'
  BY <1>2 DEF StaleInv, VersionsHaveOneTenant
<1>8. WritersAreOwn'
  <2>1. r \in staleFills' => table[TaskOf(r)] # None /\ table[TaskOf(r)].tenant = call[r].tenant
    BY <1>1 DEF IInv, StagesFitCalls, SnapshotsAreOwn, SnapshotOf, Holding, StaleInv,
       WritersAreOwn, Fill, Invalidate, Drop
  <2>. QED
    BY <1>1, <1>2, <1>3, <1>4, <1>6, <2>1, CallFields
    DEF IInv, TypeOK, StaleInv, WritersAreOwn, TaskOf
<1>9. StaleOnlyForKnownReasons'
  <2>. SUFFICES ASSUME NEW s \in Tenants, NEW j \in Tasks,
                       cache'[<<s, j>>] # None, cache'[<<s, j>>] # table[j]
                PROVE  \E q \in Requests :
                         /\ call[q] # None /\ Key(call[q]) = <<s, j>>
                         /\ Uninvalidated(q)' \/ q \in staleFills'
    BY <1>2 DEF StaleOnlyForKnownReasons, Keys, TaskOf
  <2>1. CASE <<s, j>> = key
    BY <1>1, <1>5, <2>1, CallFields DEF Key, TaskOf
  <2>2. CASE <<s, j>> # key
    <3>1. cache[<<s, j>>] = cache'[<<s, j>>]
      BY <1>5, <2>2 DEF Keys
    <3>2. PICK q \in Requests :
            /\ call[q] # None /\ Key(call[q]) = <<s, j>>
            /\ Uninvalidated(q) \/ q \in staleFills
      BY <3>1 DEF StaleInv, StaleOnlyForKnownReasons, Keys
    <3>3. q # r
      BY <2>2, <3>2
    <3>. QED  BY <1>2, <1>3, <1>5, <2>2, <3>2, <3>3 DEF Uninvalidated
  <2>. QED  BY <2>1, <2>2
<1>. QED  BY <1>7, <1>8, <1>9 DEF StaleInv

LEMMA ExpiryExplainsStaleness ==
    ASSUME IInv, StaleInv, NEW key \in Keys, Expire(key)
    PROVE  StaleInv'
<1>1. UNCHANGED <<pc, call, table, outcome, versions>>
  BY DEF Expire, transaction
<1>2. /\ \A other \in Keys : other # key => cache'[other] = cache[other]
      /\ cache'[key] = None
      /\ staleFills' = {q \in staleFills : Key(call[q]) # key}
      /\ owed' = {q \in owed : Key(call[q]) # key}
  BY DEF IInv, TypeOK, Expire, Drop
<1>3. VersionsHaveOneTenant' /\ WritersAreOwn'
  BY <1>1, <1>2 DEF StaleInv, VersionsHaveOneTenant, WritersAreOwn, TaskOf
<1>4. StaleOnlyForKnownReasons'
  <2>. SUFFICES ASSUME NEW s \in Tenants, NEW j \in Tasks,
                       cache'[<<s, j>>] # None, cache'[<<s, j>>] # table[j]
                PROVE  \E q \in Requests :
                         /\ call[q] # None /\ Key(call[q]) = <<s, j>>
                         /\ Uninvalidated(q)' \/ q \in staleFills'
    BY <1>1 DEF StaleOnlyForKnownReasons, Keys, TaskOf
  <2>1. <<s, j>> # key /\ cache[<<s, j>>] = cache'[<<s, j>>]
    BY <1>2 DEF Keys
  <2>2. PICK q \in Requests :
          /\ call[q] # None /\ Key(call[q]) = <<s, j>>
          /\ Uninvalidated(q) \/ q \in staleFills
    BY <2>1 DEF StaleInv, StaleOnlyForKnownReasons, Keys
  <2>. QED  BY <1>1, <1>2, <2>1, <2>2 DEF Uninvalidated
<1>. QED  BY <1>3, <1>4 DEF StaleInv

\* The other steps leave table and cache alone, and a handler that owes an
\* invalidation can only end with an error.
LEMMA OtherStepExplainsStaleness ==
    ASSUME IInv, StaleInv, NEW r \in Requests,
           \/ \E c \in Calls : Receive(r, c)
           \/ CacheHit(r) \/ CacheMiss(r) \/ Load(r) \/ Refuse(r) \/ Insert(r) \/ Refetch(r)
           \/ Flush(r) \/ Abort(r)
    PROVE  StaleInv'
<1>1. UNCHANGED <<table, cache, owed, versions, staleFills>>
  BY DEF Receive, CacheHit, CacheMiss, Load, Refuse, Insert, Refetch, Flush, Abort, history
<1>2. \A q \in Requests :
        q # r => pc'[q] = pc[q] /\ outcome'[q] = outcome[q] /\ call'[q] = call[q]
  BY DEF IInv, TypeOK, Receive, CacheHit, CacheMiss, Load, Refuse, Insert, Refetch, Flush, Abort,
     transaction, End, Goto
<1>3. call[r] # None => call'[r] = call[r]
  BY DEF IInv, StagesFitCalls, Receive, CacheHit, CacheMiss, Load, Refuse, Insert, Refetch, Flush,
     Abort, transaction
<1>4. pc[r] # "done" /\ (pc[r] = "invalidate" => pc'[r] = "done" /\ outcome'[r] = "error")
  BY DEF IInv, TypeOK, Receive, CacheHit, CacheMiss, Load, Refuse, Insert, Refetch, Flush, Abort,
     End, Goto
<1>5. VersionsHaveOneTenant' /\ WritersAreOwn'
  BY <1>1, <1>2, <1>3, <1>4
  DEF IInv, TypeOK, StaleInv, VersionsHaveOneTenant, WritersAreOwn, TaskOf
<1>6. StaleOnlyForKnownReasons'
  <2>. SUFFICES ASSUME NEW key \in Keys, cache[key] # None, cache[key] # table[key[2]]
                PROVE  \E q \in Requests :
                         /\ call'[q] # None /\ Key(call'[q]) = key
                         /\ Uninvalidated(q)' \/ q \in staleFills
    BY <1>1 DEF StaleOnlyForKnownReasons
  <2>1. PICK q \in Requests : /\ call[q] # None /\ Key(call[q]) = key
                              /\ Uninvalidated(q) \/ q \in staleFills
    BY DEF StaleInv, StaleOnlyForKnownReasons
  <2>2. call'[q] = call[q]
    BY <1>2, <1>3, <2>1
  <2>. QED  BY <1>1, <1>2, <1>4, <2>1, <2>2 DEF Uninvalidated, TaskOf
<1>. QED  BY <1>5, <1>6 DEF StaleInv

LEMMA NextExplainsStaleness == IInv /\ StaleInv /\ [Next]_vars => StaleInv'
<1>. SUFFICES ASSUME IInv, StaleInv, [Next]_vars PROVE StaleInv'
  OBVIOUS
<1>1. CASE UNCHANGED vars
  BY <1>1 DEF vars, transaction, StaleInv, VersionsHaveOneTenant, WritersAreOwn,
     StaleOnlyForKnownReasons, Uninvalidated, TaskOf
<1>2. CASE \E key \in Keys : Expire(key)
  BY <1>2, ExpiryExplainsStaleness
<1>3. CASE \E r \in Requests :
             (\E c \in Calls : Receive(r, c)) \/ Step(r) \/ CommitUnacknowledged(r) \/ Abort(r)
  BY <1>3, CommitExplainsStaleness, CacheStepExplainsStaleness, OtherStepExplainsStaleness
  DEF Step
<1>. QED  BY <1>1, <1>2, <1>3 DEF Next

(* A cached row differs from the table only while the invalidation of a write that
   came after it is still to come, or because it never comes (the CLI, a failure
   after the commit), or because its reader had read before a write and filled after it
   (caching.py), for any number of requests, tenants and tasks. *)
THEOREM StalenessIsExplained == Spec => []StaleOnlyForKnownReasons
<1>1. Init => StaleInv
  BY NoneIsNoValue DEF Init, StaleInv, VersionsHaveOneTenant, WritersAreOwn,
     StaleOnlyForKnownReasons, Row
<1>2. StaleInv => StaleOnlyForKnownReasons
  BY DEF StaleInv
<1>. QED  BY <1>1, <1>2, NextExplainsStaleness, Safe, PTL DEF Spec

(* Every lost update has a stale snapshot behind it: a commit changes a column
   its call did not ask for only if the row had that column changed between the
   first SELECT and the UPDATE (sqlalchemy_task_repository.py, TaskMapper.apply). *)
THEOREM LostUpdatesAreStale == Spec => ChangesAreIntendedOrStale
<1>1. ASSUME IInv, NEW r \in Requests, Commit(r) \/ CommitUnacknowledged(r),
             NEW k \in Tasks, NEW c \in Columns, table[k] # None, table'[k][c] # table[k][c]
      PROVE  IntendedOrStale(k, c)
  <2>1. k = TaskOf(r) /\ table'[k] = Written(r) /\ pc[r] = "commit"
    BY <1>1, CallFields DEF IInv, TypeOK, Commit, CommitUnacknowledged, TakeEffect, TaskOf
  <2>2. call[r] \in Calls /\ call[r].op # "create" /\ SnapshotOf(r) /\ table[k] \in Row
    BY <1>1, <2>1
    DEF IInv, TypeOK, StagesFitCalls, CreationsAreFresh, SnapshotsAreOwn, Holding, TaskOf
  <2>3. c \in dirty[r] /\ entity[r][c] # table[k][c]
    BY <1>1, <2>1, <2>2 DEF Written, Columns, TaskOf, Row
  <2>4. \/ c = "title" /\ call[r].op = "update"
        \/ c = "status" /\ call[r].op = "complete"
        \/ entity[r][c] = loaded[r][c]
    BY <2>2, CallFields DEF SnapshotOf, Execute, UpdateDetails, Complete, Row, Columns, Writes
  <2>5. pc'[r] # "commit"
    BY <1>1, <2>1 DEF IInv, TypeOK, Commit, CommitUnacknowledged, End, Goto, StageAfter
  <2>. QED  BY <2>1, <2>3, <2>4, <2>5 DEF IntendedOrStale
<1>2. IInv /\ [Next]_vars =>
        [\A k \in Tasks : \A c \in Columns :
           table[k] # None /\ table'[k][c] # table[k][c] => IntendedOrStale(k, c)]_vars
  <2>. SUFFICES ASSUME IInv, Next, NEW k \in Tasks, NEW c \in Columns,
                       table[k] # None, table'[k][c] # table[k][c]
                PROVE  IntendedOrStale(k, c)
    OBVIOUS
  <2>1. table' # table
    OBVIOUS
  <2>2. PICK r \in Requests : Commit(r) \/ CommitUnacknowledged(r)
    BY <2>1 DEF Next, Step, Receive, CacheHit, CacheMiss, Load, Refuse, Insert, Refetch, Flush,
                Fill, Invalidate, Abort, Expire
  <2>. QED  BY <1>1, <2>2
<1>. QED
  BY <1>2, Safe, PTL DEF Spec, ChangesAreIntendedOrStale

-----------------------------------------------------------------------------
(* Rows between two commits.  An UPDATE locks its row; that a creation finds no
   row, and an UPDATE always one, leaves the holder of the lock as the only one
   who can change it. *)

\* A transaction that changes a row has it to itself.
LocksAreExclusive ==
    \A k \in Tasks : \A q, r \in LockHolders(k) : q = r

\* A row whose lock is held changes in the commit of its holder and in no other.
LockedRowsAreStable ==
    [][\A k \in Tasks : \A r \in LockHolders(k) : table'[k] # table[k] => pc'[r] # "commit"]_vars

\* A task never vanishes and never moves to another tenant.
TasksKeepTheirTenant ==
    [][\A k \in Tasks : table[k] # None =>
         table'[k] # None /\ table'[k].tenant = table[k].tenant]_vars

LEMMA LocksStayExclusive == IInv /\ LocksAreExclusive /\ [Next]_vars => LocksAreExclusive'
<1>. SUFFICES ASSUME IInv, LocksAreExclusive, [Next]_vars, NEW k \in Tasks,
                     NEW q \in LockHolders(k)', NEW r \in LockHolders(k)'
              PROVE  q = r
  BY DEF LocksAreExclusive
<1>1. ASSUME NEW x \in LockHolders(k)'
      PROVE  x \in Requests /\ (x \in LockHolders(k) \/ (Flush(x) /\ call[x].task = k))
  <2>1. x \in Requests /\ pc'[x] = "commit" /\ dirty'[x] # {} /\ call'[x].task = k
    BY <1>1 DEF LockHolders
  <2>2. CASE \E c \in Calls : Receive(x, c)
    BY <2>1, <2>2, CallFields DEF IInv, TypeOK, Receive, Goto, FirstStage
  <2>3. CASE Step(x) \/ CommitUnacknowledged(x) \/ Abort(x)
    BY <2>1, <2>3
    DEF IInv, TypeOK, StagesFitCalls, Step, CacheHit, CacheMiss, Load, Refuse, Insert, Refetch,
        Flush, Commit, Fill, Invalidate, CommitUnacknowledged, Abort, TakeEffect, transaction,
        Goto, End, StageAfter, Writes
  <2>4. CASE pc'[x] = pc[x] /\ dirty'[x] = dirty[x] /\ call'[x] = call[x]
    BY <2>1, <2>4 DEF LockHolders
  <2>5. \/ \E c \in Calls : Receive(x, c)
        \/ Step(x) \/ CommitUnacknowledged(x) \/ Abort(x)
        \/ pc'[x] = pc[x] /\ dirty'[x] = dirty[x] /\ call'[x] = call[x]
    BY <2>1
    DEF IInv, TypeOK, Next, vars, Receive, Step, CacheHit, CacheMiss, Load, Refuse, Insert,
        Refetch, Flush, Commit, Fill, Invalidate, CommitUnacknowledged, Abort, Expire,
        transaction, Goto, End
  <2>. QED  BY <2>1, <2>2, <2>3, <2>4, <2>5
<1>2. ASSUME NEW x \in Requests, NEW y \in LockHolders(k)', Flush(x), call[x].task = k
      PROVE  y = x
  <2>1. LockHolders(k) = {} /\ pc[x] = "flush" /\ y \in Requests
    BY <1>2, <1>1 DEF Flush
  <2>2. CASE y # x /\ Flush(y)
    BY <1>2, <2>1, <2>2 DEF IInv, TypeOK, Flush, Goto
  <2>. QED  BY <1>1, <2>1, <2>2
<1>. QED  BY <1>1, <1>2 DEF LocksAreExclusive

\* Only a commit changes the table, and only the row of its task.
LEMMA OnlyCommitsChangeRows ==
    ASSUME IInv, Next, NEW k \in Tasks, table'[k] # table[k]
    PROVE  \E r \in Requests :
             /\ Commit(r) \/ CommitUnacknowledged(r)
             /\ TaskOf(r) = k /\ table'[k] = Written(r) /\ pc[r] = "commit" /\ pc'[r] # "commit"
             /\ call[r] \in Calls
<1>1. table' # table
  OBVIOUS
<1>2. PICK r \in Requests : Commit(r) \/ CommitUnacknowledged(r)
  BY <1>1 DEF Next, Step, Receive, CacheHit, CacheMiss, Load, Refuse, Insert, Refetch, Flush,
              Fill, Invalidate, Abort, Expire
<1>3. TaskOf(r) = k /\ table'[k] = Written(r)
  BY <1>2 DEF IInv, TypeOK, Commit, CommitUnacknowledged, TakeEffect, TaskOf
<1>4. pc[r] = "commit" /\ pc'[r] # "commit" /\ call[r] \in Calls
  BY <1>2 DEF IInv, TypeOK, StagesFitCalls, Commit, CommitUnacknowledged, End, Goto, StageAfter
<1>. QED  BY <1>2, <1>3, <1>4

\* A commit that changes a row holds its lock, unless the row is new.
LEMMA ChangersHoldTheLock ==
    ASSUME IInv, NEW r \in Requests, pc[r] = "commit", call[r] \in Calls,
           Written(r) # table[TaskOf(r)]
    PROVE  \/ call[r].op = "create" /\ table[TaskOf(r)] = None
           \/ /\ r \in LockHolders(TaskOf(r))
              /\ table[TaskOf(r)] # None /\ table[TaskOf(r)].tenant = call[r].tenant
<1>1. CASE call[r].op = "create"
  BY <1>1, CallFields DEF IInv, CreationsAreFresh
<1>2. CASE call[r].op # "create"
  <2>1. TaskOf(r) \in Tasks
    BY CallFields DEF TaskOf
  <2>2. SnapshotOf(r) /\ table[TaskOf(r)] \in Row
    BY <1>2, <2>1 DEF IInv, TypeOK, SnapshotsAreOwn, SnapshotOf, Holding
  <2>3. dirty[r] # {}
    BY <1>2, <2>2 DEF Written, TaskOf, Row
  <2>. QED  BY <2>2, <2>3 DEF SnapshotOf, LockHolders, TaskOf
<1>. QED  BY <1>1, <1>2

(* The UPDATEs of two transactions on one row never overlap: the second waits in
   its flush until the first has ended (sqlalchemy_task_repository.py flushes,
   unit_of_work.py commits). *)
THEOREM OneWriterPerRow == Spec => []LocksAreExclusive
<1>1. Init => LocksAreExclusive
  BY DEF Init, LocksAreExclusive, LockHolders
<1>. QED  BY <1>1, LocksStayExclusive, Safe, PTL DEF Spec

(* Between the UPDATE of a transaction and its end nobody else changes the row:
   what the commit writes is the row as it was then with the dirty columns set.
   What is lost is lost earlier, between the SELECT and the UPDATE. *)
THEOREM RowsWaitForTheirWriter == Spec => LockedRowsAreStable
<1>1. ASSUME IInv, LocksAreExclusive, Next, NEW k \in Tasks, NEW q \in LockHolders(k),
             table'[k] # table[k]
      PROVE  pc'[q] # "commit"
  <2>1. PICK r \in Requests :
          /\ TaskOf(r) = k /\ table'[k] = Written(r) /\ pc[r] = "commit" /\ pc'[r] # "commit"
          /\ call[r] \in Calls
    BY <1>1, OnlyCommitsChangeRows
  <2>2. table[k] # None
    <3>1. q \in Requests /\ pc[q] = "commit" /\ TaskOf(q) = k /\ call[q].op \in Writes
      BY <1>1 DEF IInv, StagesFitCalls, LockHolders, TaskOf
    <3>. QED  BY <1>1, <3>1 DEF IInv, SnapshotsAreOwn, SnapshotOf, Holding, Writes
  <2>3. r \in LockHolders(k)
    BY <1>1, <2>1, <2>2, ChangersHoldTheLock
  <2>. QED  BY <1>1, <2>1, <2>3 DEF LocksAreExclusive
<1>2. IInv /\ LocksAreExclusive /\ [Next]_vars =>
        [\A k \in Tasks : \A r \in LockHolders(k) :
           table'[k] # table[k] => pc'[r] # "commit"]_vars
  BY <1>1
<1>. QED
  BY <1>2, OneWriterPerRow, Safe, PTL DEF Spec, LockedRowsAreStable

(* No step of any handler takes a task from its tenant or out of the table, not
   even a creation: its id is fresh (the policies of 0001_initial.py hold on
   every row, task ids are uuid4). *)
THEOREM TasksStayWithTheirTenant == Spec => TasksKeepTheirTenant
<1>1. ASSUME IInv, Next, NEW k \in Tasks, table[k] # None
      PROVE  table'[k] # None /\ table'[k].tenant = table[k].tenant
  <2>1. CASE table'[k] # table[k]
    <3>1. PICK r \in Requests :
            /\ TaskOf(r) = k /\ table'[k] = Written(r) /\ pc[r] = "commit" /\ call[r] \in Calls
      BY <1>1, <2>1, OnlyCommitsChangeRows
    <3>2. Written(r) \in Row /\ Written(r).tenant = call[r].tenant
      BY <1>1, <3>1, WrittenIsOwnRow
    <3>3. table[k].tenant = call[r].tenant
      BY <1>1, <2>1, <3>1, ChangersHoldTheLock
    <3>. QED  BY <3>1, <3>2, <3>3, NoneIsNoValue
  <2>. QED  BY <1>1, <2>1
<1>2. IInv /\ [Next]_vars =>
        [\A k \in Tasks : table[k] # None =>
           table'[k] # None /\ table'[k].tenant = table[k].tenant]_vars
  BY <1>1
<1>. QED
  BY <1>2, Safe, PTL DEF Spec, TasksKeepTheirTenant

-----------------------------------------------------------------------------
(* The refinement of TaskVersions.  A completion is announced in the flush (or
   the second read) of its request, a write is the commit, a read the step that
   answers from the cache or fills it; all else stutters. *)

OutcomesAreLast == \A r \in Requests : pc[r] # "done" => outcome[r] = "none"

LEMMA OutcomesStayLast == IInv /\ OutcomesAreLast /\ [Next]_vars => OutcomesAreLast'
  BY DEF IInv, TypeOK, OutcomesAreLast, Next, vars, Step, Receive, CacheHit, CacheMiss, Load,
         Refuse, Insert, Refetch, Flush, Commit, Fill, Invalidate, CommitUnacknowledged, Abort,
         Expire, Goto, End

AllTold == [r \in Requests |-> Told(r)]

LEMMA OthersAreNotTold ==
    ASSUME IInv, NEW r \in Requests,
           Step(r) \/ CommitUnacknowledged(r) \/ Abort(r) \/ \E c \in Calls : Receive(r, c)
    PROVE  AllTold' = [AllTold EXCEPT ![r] = Told(r)']
<1>1. \A q \in Requests : q # r => pc'[q] = pc[q] /\ outcome'[q] = outcome[q]
  BY DEF IInv, TypeOK, Step, Receive, CacheHit, CacheMiss, Load, Refuse, Insert, Refetch, Flush,
         Commit, Fill, Invalidate, CommitUnacknowledged, Abort, Goto, End
<1>. QED  BY <1>1 DEF AllTold, Told

LEMMA PromisedInit == Init => Promise!Init
  BY DEF Init, Promise!Init, AnnouncedTasks, Told, TaskOf

LEMMA ReceiveIsAsk ==
    ASSUME IInv, OutcomesAreLast, NEW r \in Requests, NEW c \in Calls, Receive(r, c)
    PROVE  Promise!Next
<1>1. pc[r] = "new" /\ call[r] = None /\ r \notin published
  BY DEF IInv, StagesFitCalls, PublishersAreStarted, Receive
<1>2. AnnouncedTasks' = AnnouncedTasks
  BY <1>1 DEF Receive, AnnouncedTasks, TaskOf
<1>3. Told(r)' = Told(r)
  BY <1>1, CallFields DEF IInv, TypeOK, Receive, FirstStage, Goto, Told
<1>4. AllTold' = AllTold
  BY <1>3, OthersAreNotTold DEF AllTold
<1>5. Promise!Ask(r, c)
  BY <1>1, <1>2, <1>4 DEF Receive, Promise!Ask, AllTold, history
<1>. QED  BY <1>5 DEF Promise!Next

LEMMA PublishIsAnnounce ==
    ASSUME IInv, OutcomesAreLast, NEW r \in Requests, Insert(r) \/ Refetch(r) \/ Flush(r)
    PROVE  [Promise!Next]_Promise!vars
<1>1. call[r] \in Calls /\ call[r] # None /\ TaskOf(r) \in Tasks
  BY CallFields DEF IInv, TypeOK, StagesFitCalls, Insert, Refetch, Flush, TaskOf
<1>2. UNCHANGED <<call, table, versions, reply>>
  BY DEF Insert, Refetch, Flush, transaction, history
<1>3. AllTold' = AllTold
  <2>1. Told(r)' = Told(r)
    BY DEF IInv, TypeOK, Insert, Refetch, Flush, Goto, Told
  <2>. QED  BY <2>1, OthersAreNotTold DEF AllTold, Step
<1>4. published' = published \/ (Publish(r) /\ RecordsEvent(r))
  BY DEF Insert, Refetch, Flush, Publish
<1>5. CASE AnnouncedTasks' = AnnouncedTasks
  BY <1>2, <1>3, <1>5 DEF Promise!vars, AllTold
<1>6. CASE AnnouncedTasks' # AnnouncedTasks
  <2>1. published' = published \cup {r} /\ call[r].op = "complete"
    BY <1>2, <1>4, <1>6 DEF Publish, RecordsEvent, AnnouncedTasks, TaskOf
  <2>2. AnnouncedTasks' = AnnouncedTasks \cup {call[r].task}
    BY <1>1, <1>2, <2>1 DEF AnnouncedTasks, TaskOf
  <2>3. Promise!Announce(r)
    BY <1>1, <1>2, <1>3, <2>1, <2>2 DEF Promise!Announce, AllTold
  <2>. QED  BY <2>3 DEF Promise!Next
<1>. QED  BY <1>5, <1>6

\* The commit of a query changes nothing.
LEMMA CommittedQuery ==
    ASSUME IInv, NEW r \in Requests, pc[r] = "commit", call[r].op = "get", TakeEffect(r)
    PROVE  UNCHANGED <<table, versions>>
<1>1. call[r] \in Calls /\ TaskOf(r) \in Tasks
  BY CallFields DEF IInv, TypeOK, StagesFitCalls, TaskOf
<1>2. dirty[r] = {} /\ table[TaskOf(r)] \in Row
  BY <1>1 DEF IInv, TypeOK, StagesFitCalls, SnapshotsAreOwn, SnapshotOf, Holding, Writes
<1>3. Written(r) = table[TaskOf(r)]
  BY <1>2 DEF Written, Row, TaskOf
<1>4. table[TaskOf(r)] \in versions[TaskOf(r)]
  BY <1>1, <1>2, NoneIsNoValue DEF IInv, VersionsAreComplete
<1>. QED  BY <1>1, <1>3, <1>4 DEF IInv, TypeOK, TakeEffect, TaskOf

LEMMA CommitIsWrite ==
    ASSUME IInv, IInv', OutcomesAreLast, NEW r \in Requests,
           Commit(r) \/ CommitUnacknowledged(r)
    PROVE  [Promise!Next]_Promise!vars
<1>1. /\ pc[r] = "commit" /\ call[r] \in Calls /\ call[r] # None /\ TaskOf(r) \in Tasks
      /\ TakeEffect(r) /\ UNCHANGED <<call, published, reply>>
  BY CallFields
  DEF IInv, TypeOK, StagesFitCalls, Commit, CommitUnacknowledged, TaskOf, transaction
<1>2. Told(r) = "none" /\ AnnouncedTasks' = AnnouncedTasks
  BY <1>1 DEF OutcomesAreLast, Told, AnnouncedTasks, TaskOf
<1>3. AllTold' = [AllTold EXCEPT ![r] = Told(r)']
  BY OthersAreNotTold DEF Step
<1>4. CASE call[r].op = "get"
  <2>1. UNCHANGED <<table, versions>>
    BY <1>1, <1>4, CommittedQuery
  <2>2. CASE Commit(r)
    <3>1. StageAfter(call[r]) = "fill"
      BY <1>4 DEF StageAfter, Writes
    <3>2. Told(r)' = Told(r)
      BY <1>1, <2>2, <3>1 DEF IInv, TypeOK, Commit, Goto, Told
    <3>3. AllTold' = AllTold
      BY <1>3, <3>2 DEF AllTold
    <3>. QED  BY <1>1, <1>2, <2>1, <3>3 DEF Promise!vars, AllTold
  <2>3. CASE CommitUnacknowledged(r)
    <3>1. Told(r)' = "error"
      BY <2>3 DEF IInv, TypeOK, CommitUnacknowledged, End, Goto, Told
    <3>2. Promise!End(r)
      BY <1>1, <1>2, <1>3, <2>1, <3>1 DEF Promise!End, Promise!Tell, AllTold
    <3>. QED  BY <3>2 DEF Promise!Next
  <2>. QED  BY <2>2, <2>3
<1>5. CASE call[r].op # "get"
  <2>1. Written(r) \in Row /\ Written(r).tenant = call[r].tenant
    BY <1>1, WrittenIsOwnRow
  <2>2. Told(r)' \in {"written", "ok", "error"}
    BY <1>1, <1>5, CallFields
    DEF IInv, TypeOK, Commit, CommitUnacknowledged, StageAfter, End, Goto, Told, Writes
  <2>3. IF call[r].op = "create" THEN table[TaskOf(r)] = None /\ Written(r).status = "pending"
        ELSE table[TaskOf(r)] # None /\ table[TaskOf(r)].tenant = Written(r).tenant
    <3>1. CASE call[r].op = "create"
      <4>. table[TaskOf(r)] = None /\ entity[r] = NewTask(call[r])
        BY <1>1, <3>1 DEF IInv, CreationsAreFresh
      <4>. QED  BY <3>1 DEF Written, NewTask
    <3>2. CASE call[r].op # "create"
      <4>. SnapshotOf(r)
        BY <1>1, <3>2 DEF IInv, SnapshotsAreOwn, Holding
      <4>. QED  BY <2>1, <3>2 DEF SnapshotOf
    <3>. QED  BY <3>1, <3>2
  <2>4. /\ table' = [table EXCEPT ![TaskOf(r)] = Written(r)]
        /\ versions' = [versions EXCEPT ![TaskOf(r)] = @ \cup {Written(r)}]
    BY <1>1 DEF TakeEffect, TaskOf
  <2>5. Written(r).status = "completed" => TaskOf(r) \in AnnouncedTasks
    BY <1>1, <2>1, <2>4, NoneIsNoValue DEF IInv, TypeOK, CompletionAnnounced, AnnouncedTasks, TaskOf
  <2>6. Promise!Write(r, Written(r))
    BY <1>1, <1>2, <1>3, <1>5, <2>1, <2>2, <2>3, <2>4, <2>5
    DEF Promise!Write, Promise!Tell, AllTold, TaskOf
  <2>. QED  BY <2>1, <2>6 DEF Promise!Next
<1>. QED  BY <1>4, <1>5

LEMMA AnswerIsRead ==
    ASSUME IInv, IInv', OutcomesAreLast, NEW r \in Requests, CacheHit(r) \/ Fill(r)
    PROVE  Promise!Next
<1>1. /\ pc[r] \in {"lookup", "fill"} /\ call[r] \in Calls /\ call[r] # None
      /\ call[r].op = "get" /\ UNCHANGED <<call, table, published, versions>>
  BY DEF IInv, TypeOK, StagesFitCalls, CacheHit, Fill, transaction, history
<1>2. AnnouncedTasks' = AnnouncedTasks /\ Told(r) = "none"
  BY <1>1 DEF AnnouncedTasks, TaskOf, Told, OutcomesAreLast
<1>3. reply' = [reply EXCEPT ![r] = reply'[r]] /\ Told(r)' = "ok"
  BY DEF IInv, TypeOK, CacheHit, Fill, End, Goto, Told
<1>4. AllTold' = [AllTold EXCEPT ![r] = "ok"]
  BY <1>3, OthersAreNotTold DEF Step
<1>5. reply'[r] \in Row
  BY <1>1
  DEF IInv, TypeOK, CacheHit, Fill, SnapshotsAreOwn, SnapshotOf, Holding
<1>6. reply'[r] \in versions[call[r].task] /\ reply'[r].tenant = call[r].tenant
  BY <1>1, <1>5, NoneIsNoValue DEF IInv, ServedWasCommitted, ServedOwnTenant, TaskOf
<1>7. Promise!Read(r, reply'[r])
  BY <1>1, <1>2, <1>3, <1>4, <1>6 DEF Promise!Read, Promise!Tell, AllTold
<1>. QED  BY <1>5, <1>7 DEF Promise!Next

LEMMA EndIsEnd ==
    ASSUME IInv, OutcomesAreLast, NEW r \in Requests, Refuse(r) \/ Invalidate(r) \/ Abort(r)
    PROVE  Promise!Next
<1>1. /\ call[r] # None
      /\ UNCHANGED <<call, table, published, reply, versions>>
  BY DEF IInv, StagesFitCalls, Refuse, Invalidate, Abort, transaction, history
<1>2. AnnouncedTasks' = AnnouncedTasks
  BY <1>1 DEF AnnouncedTasks, TaskOf
<1>3. \/ Told(r) = "none" /\ Told(r)' \in {"refused", "error"}
      \/ Told(r) = "written" /\ Told(r)' \in {"ok", "error"}
  BY DEF IInv, TypeOK, OutcomesAreLast, Refuse, Invalidate, Abort, End, Goto, Told
<1>4. AllTold' = [AllTold EXCEPT ![r] = Told(r)']
  BY OthersAreNotTold DEF Step
<1>5. Promise!End(r)
  BY <1>1, <1>2, <1>3, <1>4 DEF Promise!End, Promise!Tell, AllTold
<1>. QED  BY <1>5 DEF Promise!Next

\* A miss and the first read concern nobody.
LEMMA OtherStepStutters ==
    ASSUME IInv, NEW r \in Requests, CacheMiss(r) \/ Load(r)
    PROVE  UNCHANGED Promise!vars
<1>1. UNCHANGED <<call, table, published, reply, versions>>
  BY DEF CacheMiss, Load, transaction, history
<1>2. Told(r)' = Told(r)
  BY DEF IInv, TypeOK, CacheMiss, Load, Goto, Told
<1>3. AllTold' = AllTold
  BY <1>2, OthersAreNotTold DEF AllTold, Step
<1>. QED  BY <1>1, <1>3 DEF Promise!vars, AllTold, AnnouncedTasks, TaskOf

LEMMA StepIsPromised ==
    IInv /\ IInv' /\ OutcomesAreLast /\ [Next]_vars => [Promise!Next]_Promise!vars
<1>. SUFFICES ASSUME IInv, IInv', OutcomesAreLast, [Next]_vars
              PROVE  [Promise!Next]_Promise!vars
  OBVIOUS
<1>1. CASE UNCHANGED <<pc, call, table, published, reply, outcome, versions>>
  BY <1>1 DEF Promise!vars, AnnouncedTasks, TaskOf, Told
<1>2. CASE \E r \in Requests : \/ \E c \in Calls : Receive(r, c)
                               \/ Step(r) \/ CommitUnacknowledged(r) \/ Abort(r)
  BY <1>2, ReceiveIsAsk, PublishIsAnnounce, CommitIsWrite, AnswerIsRead, EndIsEnd,
     OtherStepStutters DEF Step
<1>. QED  BY <1>1, <1>2 DEF Next, Expire, vars, transaction

(* Handlers that read, flush, commit, fill and invalidate in steps of their own,
   and fail between any two of them, cannot be told from requests that add one
   whole version to a task or read one version of it, with every completion
   announced first and "ok" said only after the write (create_task.py,
   update_task.py, complete_task.py, get_task.py, caching.py). *)
THEOREM Refinement == Spec => ImplementsTaskVersions
<1>1. Init => OutcomesAreLast
  BY DEF Init, OutcomesAreLast
<1>. QED
  BY <1>1, PromisedInit, StepIsPromised, OutcomesStayLast, NextIsSafe, Safe, PTL
  DEF Spec, ImplementsTaskVersions, Promise!Spec
=============================================================================
