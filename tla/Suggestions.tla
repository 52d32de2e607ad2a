---------------------------- MODULE Suggestions ----------------------------
(***************************************************************************)
(* The ai context: GenerateTaskSuggestionCommand run in the request or in  *)
(* a background job after the response, and the page of suggestions.  The  *)
(* command keeps its transaction, and with it a connection of the pool,    *)
(* open while the model thinks.  Tenants are UnitOfWork: all requests here *)
(* are of one.  A request writes one row of its own, named after it.       *)
(***************************************************************************)
EXTENDS Naturals, FiniteSets

CONSTANTS
    Requests,
    PoolSize   \* pool_size + max_overflow

ASSUME RequestsAreFinite == IsFiniteSet(Requests)
ASSUME PoolSizeIsPositive == PoolSize \in Nat \ {0}

VARIABLES
    pc,       \* where each request is
    op,       \* what it was asked: POST in the request or in background, GET
    row,      \* the status of the row in its transaction
    table,    \* the committed rows, by the request that wrote them
    items,    \* the rows the first statement of a page returned
    total,    \* what its second statement counted
    outcome   \* how the unit of work ended: "raised" by the use case, "error" of the database

vars == <<pc, op, row, table, items, total, outcome>>

Ops == {"sync", "background", "list"}
Statuses == {"absent", "pending", "completed", "failed"}

\* The stages in which a request holds a connection.
Holding == {"reading", "adding", "asking", "updating", "listing", "counting",
            "committing", "rollingBack"}

TypeOK ==
    /\ pc \in [Requests -> Holding \cup {"new", "queued", "waiting", "done"}]
    /\ op \in [Requests -> Ops \cup {"none"}]
    /\ row \in [Requests -> Statuses]
    /\ table \in [Requests -> Statuses]
    /\ items \in [Requests -> SUBSET Requests]
    /\ total \in [Requests -> 0..Cardinality(Requests)]
    /\ outcome \in [Requests -> {"none", "ok", "raised", "error", "aborted"}]

Init ==
    /\ pc = [r \in Requests |-> "new"]
    /\ op = [r \in Requests |-> "none"]
    /\ row = [r \in Requests |-> "absent"]
    /\ table = [r \in Requests |-> "absent"]
    /\ items = [r \in Requests |-> {}]
    /\ total = [r \in Requests |-> 0]
    /\ outcome = [r \in Requests |-> "none"]

-----------------------------------------------------------------------------
Goto(r, stage) == pc' = [pc EXCEPT ![r] = stage]

End(r, result) ==
    /\ Goto(r, "done")
    /\ outcome' = [outcome EXCEPT ![r] = result]

\* The database fails under the unit of work.
BreakOff(r) ==
    /\ Goto(r, "rollingBack")
    /\ outcome' = [outcome EXCEPT ![r] = "error"]

\* A background job is queued, its caller answered with nothing.
Receive(r, o) ==
    /\ pc[r] = "new"
    /\ op' = [op EXCEPT ![r] = o]
    /\ Goto(r, IF o = "background" THEN "queued" ELSE "waiting")
    /\ UNCHANGED <<row, table, items, total, outcome>>

StartBackground(r) ==
    /\ pc[r] = "queued"
    /\ Goto(r, "waiting")
    /\ UNCHANGED <<op, row, table, items, total, outcome>>

Held == Cardinality({r \in Requests : pc[r] \in Holding})

Begin(r) ==
    /\ pc[r] = "waiting"
    /\ Held < PoolSize
    /\ Goto(r, IF op[r] = "list" THEN "listing" ELSE "reading")
    /\ UNCHANGED <<op, row, table, items, total, outcome>>

PoolTimeout(r) ==
    /\ pc[r] = "waiting"
    /\ Held >= PoolSize
    /\ End(r, "error")
    /\ UNCHANGED <<op, row, table, items, total>>

-----------------------------------------------------------------------------
(***************************************************************************)
(* execute(): read the tasks, INSERT a pending row, ask the model, UPDATE  *)
(* the row with the answer.  An exception leaves the unit of work of the   *)
(* request; the job catches it inside, so what it wrote commits.           *)
(***************************************************************************)
\* Mutant: the job catches outside of its unit of work.
StageAfterRaise(r) == "rollingBack"

StageAfterCaught(r) == IF op[r] = "background" THEN "committing" ELSE "rollingBack"

ReadTasks(r) ==
    /\ pc[r] = "reading"
    /\ Goto(r, "adding")
    /\ UNCHANGED <<op, row, table, items, total, outcome>>

\* The prompt is empty or longer than PromptText allows.
RejectPrompt(r) ==
    /\ pc[r] = "reading"
    /\ Goto(r, StageAfterCaught(r))
    /\ UNCHANGED <<op, row, table, items, total, outcome>>

Add(r) ==
    /\ pc[r] = "adding"
    /\ row' = [row EXCEPT ![r] = "pending"]
    /\ Goto(r, "asking")
    /\ UNCHANGED <<op, table, items, total, outcome>>

\* Mutant: complete() takes a blank answer for no answer yet.
SettledUnlessBlank(answer) ==
    CASE answer = "text" -> "completed" [] answer = "blank" -> "pending" [] OTHER -> "failed"

\* Mutant: a status the enumeration does not have.
SettledAsDone(answer) == IF answer = "text" THEN "done" ELSE "failed"

Settled(answer) == IF answer = "text" THEN "completed" ELSE "failed"

\* The model answers with a text, with a blank one, or fails: complete() refuses
\* a blank text, and both failures end in fail().
Ask(r, answer) ==
    /\ pc[r] = "asking"
    /\ row' = [row EXCEPT ![r] = Settled(answer)]
    /\ Goto(r, "updating")
    /\ UNCHANGED <<op, table, items, total, outcome>>

\* Mutant: a failed generation is tried again, for ever.
UpdateRetrying(r) ==
    /\ pc[r] = "updating"
    /\ Goto(r, IF row[r] = "failed" THEN "asking" ELSE "committing")
    /\ UNCHANGED <<op, row, table, items, total, outcome>>

\* The flush of the row; after a failure, execute() raises again.
Update(r) ==
    /\ pc[r] = "updating"
    /\ Goto(r, IF row[r] = "failed" THEN StageAfterCaught(r) ELSE "committing")
    /\ UNCHANGED <<op, row, table, items, total, outcome>>

\* A statement fails.  The transaction is lost even if the job goes on: the
\* session refuses to commit it, or the server makes the commit a rollback.
StatementFails(r) ==
    /\ pc[r] \in {"reading", "adding", "updating", "listing", "counting"}
    /\ BreakOff(r)
    /\ UNCHANGED <<op, row, table, items, total>>

(***************************************************************************)
(* ListSuggestionsQuery: two statements, each on what is committed by then *)
(* (READ COMMITTED).                                                       *)
(***************************************************************************)
Visible == {r \in Requests : table[r] # "absent"}

\* Mutant: count first.
ListAfterCount(r) ==
    /\ pc[r] = "listing"
    /\ total' = [total EXCEPT ![r] = Cardinality(Visible)]
    /\ Goto(r, "counting")
    /\ UNCHANGED <<op, row, table, items, outcome>>

CountBeforeList(r) ==
    /\ pc[r] = "counting"
    /\ items' = [items EXCEPT ![r] = Visible]
    /\ Goto(r, "committing")
    /\ UNCHANGED <<op, row, table, total, outcome>>

ReadSwapped(r) == ListAfterCount(r) \/ CountBeforeList(r)

List(r) ==
    /\ pc[r] = "listing"
    /\ items' = [items EXCEPT ![r] = Visible]
    /\ Goto(r, "counting")
    /\ UNCHANGED <<op, row, table, total, outcome>>

Count(r) ==
    /\ pc[r] = "counting"
    /\ total' = [total EXCEPT ![r] = Cardinality(Visible)]
    /\ Goto(r, "committing")
    /\ UNCHANGED <<op, row, table, items, outcome>>

Read(r) == List(r) \/ Count(r)

-----------------------------------------------------------------------------
(* The end of the unit of work. *)

TakeEffect(r) == table' = [table EXCEPT ![r] = IF row[r] = "absent" THEN @ ELSE row[r]]

Commit(r) ==
    /\ pc[r] = "committing"
    /\ TakeEffect(r)
    /\ End(r, "ok")
    /\ UNCHANGED <<op, row, items, total>>

\* Mutant: the caller is told it succeeded although the commit failed.
CommitFailsSilently(r) ==
    /\ pc[r] = "committing"
    /\ End(r, "ok")
    /\ UNCHANGED <<op, row, table, items, total>>

CommitFails(r) ==
    /\ pc[r] = "committing"
    /\ BreakOff(r)
    /\ UNCHANGED <<op, row, table, items, total>>

CommitUnacknowledged(r) ==
    /\ pc[r] = "committing"
    /\ TakeEffect(r)
    /\ BreakOff(r)
    /\ UNCHANGED <<op, row, items, total>>

Rollback(r) ==
    /\ pc[r] = "rollingBack"
    /\ End(r, IF outcome[r] = "none" THEN "raised" ELSE outcome[r])
    /\ UNCHANGED <<op, row, table, items, total>>

\* The process dies or the task is cancelled, which `except Exception` does not
\* catch; a queued job is lost with the process.
Abort(r) ==
    /\ pc[r] \notin {"new", "done"}
    /\ End(r, "aborted")
    /\ UNCHANGED <<op, row, table, items, total>>

-----------------------------------------------------------------------------
Step(r) ==
    \/ StartBackground(r) \/ Begin(r) \/ PoolTimeout(r)
    \/ ReadTasks(r) \/ Add(r)
    \/ \E answer \in {"text", "blank", "failure"} : Ask(r, answer)
    \/ Update(r) \/ Read(r) \/ Commit(r) \/ Rollback(r)

Next ==
    \E r \in Requests :
        \/ \E o \in Ops : Receive(r, o)
        \/ Step(r)
        \/ RejectPrompt(r)
        \/ StatementFails(r)
        \/ CommitFails(r)
        \/ CommitUnacknowledged(r)
        \/ Abort(r)

Spec == Init /\ [][Next]_vars

\* A request that was received goes on: the client of the model and the pool
\* have timeouts.  No failure and no arrival is assumed.
FairSpec == Spec /\ \A r \in Requests : WF_vars(Step(r))

-----------------------------------------------------------------------------
\* Nobody ever sees a suggestion that is still pending, or one that changes: a
\* row becomes visible with its answer, although it is inserted before the model
\* is asked (generate_task_suggestion.py) and the job may die at any await.
VisibleIsSettled ==
    /\ \A r \in Requests : table[r] # "pending"
    /\ \A r \in Requests : \A q \in items[r] : table[q] \in {"completed", "failed"}

\* A caller that got its suggestion finds it in the list ever after, and a job
\* that neither the database nor a crash stopped has left the row of its answer,
\* failed ones included (api/tasks.py catches the exception inside the unit of
\* work, so the row of the failure commits).
AnswersAreStored ==
    \A r \in Requests :
        /\ op[r] = "sync" /\ outcome[r] = "ok" => table[r] = "completed"
        /\ op[r] = "background" /\ pc[r] = "done" /\ outcome[r] \notin {"error", "aborted"}
              => table[r] = row[r]

\* A page never shows more rows than it counts, although rows are committed
\* between its two statements.
PagesAreCounted ==
    \A r \in Requests :
        op[r] = "list" /\ outcome[r] = "ok" => Cardinality(items[r]) <= total[r]

\* Every request and every queued job ends, although those that wait for the
\* model hold the connections the others need.
EveryRequestEnds == \A r \in Requests : pc[r] # "new" ~> pc[r] = "done"

-----------------------------------------------------------------------------
(***************************************************************************)
(* Refinement: a row that is pending in its transaction, and a page whose  *)
(* two statements see different rows, are nothing a caller can tell.       *)
(***************************************************************************)
Told(r) == IF pc[r] = "done" THEN outcome[r] ELSE "none"

PageOf(r) ==
    IF op[r] = "list" /\ Told(r) = "ok" THEN [items |-> items[r], total |-> total[r]]
    ELSE [items |-> {}, total |-> 0]

Promise == INSTANCE SuggestionLog
    WITH asked <- op, shown <- table, page <- [r \in Requests |-> PageOf(r)],
         told <- [r \in Requests |-> Told(r)]

ImplementsSuggestionLog == Promise!Spec
=============================================================================
