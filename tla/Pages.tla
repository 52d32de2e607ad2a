------------------------------- MODULE Pages --------------------------------
(***************************************************************************)
(* The list endpoints: a client walks tasks, users or suggestions page by  *)
(* page, by limit and offset, while transactions insert rows and tasks     *)
(* change status.  A page is two statements of a READ COMMITTED            *)
(* transaction, rows and count, so each sees what has committed by then.   *)
(* Rows are ordered by created_at only: the start of the transaction that  *)
(* inserted them, so its rows tie, and commits may come in another order.  *)
(***************************************************************************)
EXTENDS FiniteSets, Integers

CONSTANTS
    Rows,          \* of one tenant and one table
    Transactions,  \* those that insert rows
    Limits,        \* the limits clients ask for
    MaxTime,       \* bound: on the start times of transactions
    None

ASSUME RowsAreFinite == IsFiniteSet(Rows)
ASSUME LimitsArePositive == Limits \subseteq Nat \ {0}
ASSUME TimeIsBounded == MaxTime \in Nat

\* Tasks may be filtered by status; the newest suggestions come first.
Lists == [of : {"tasks"}, filter : {"none", "pending", "completed"}]
         \cup [of : {"suggestions", "users"}, filter : {"none"}]

ASSUME NoneIsApart == None \notin Transactions \cup Lists

VARIABLES
    state,      \* of each transaction
    startedAt,  \* now() of each transaction
    clock,      \* the clock of the database
    insertedBy, \* the transaction that inserts each row
    completed,  \* rows whose status is "completed", the others being "pending"
    pc,         \* where the walk is
    list,       \* what it lists
    limit, offset,
    page,       \* the rows its list statement has returned
    shown,      \* history: the rows of the pages so far
    repeated,   \* history: the rows that two pages have shown
    steady,     \* history: rows that have matched ever since the walk began
    entered,    \* history: rows that have come to match since
    gone        \* history: rows that have ceased to match since

table == <<state, startedAt, clock, insertedBy, completed>>
walk == <<pc, list, limit, offset, page, shown, repeated>>
history == <<steady, entered, gone>>
vars == <<table, walk, history>>

TypeOK ==
    /\ state \in [Transactions -> {"new", "open", "committed", "aborted"}]
    /\ startedAt \in [Transactions -> 0 .. MaxTime]
    /\ clock \in 0 .. MaxTime
    /\ insertedBy \in [Rows -> Transactions \cup {None}]
    /\ completed \in SUBSET Rows
    /\ pc \in {"idle", "list", "count", "done"}
    /\ list \in Lists \cup {None}
    /\ limit \in Limits \cup {None}
    /\ offset \in 0 .. Cardinality(Rows)
    /\ page \in SUBSET Rows
    /\ shown \in SUBSET Rows /\ repeated \in SUBSET shown
    /\ steady \in SUBSET Rows /\ entered \in SUBSET Rows /\ gone \in SUBSET Rows

Init ==
    /\ state = [t \in Transactions |-> "new"]
    /\ startedAt = [t \in Transactions |-> 0]
    /\ clock = 0
    /\ insertedBy = [k \in Rows |-> None]
    /\ completed = {}
    /\ pc = "idle"
    /\ list = None /\ limit = None /\ offset = 0
    /\ page = {} /\ shown = {} /\ repeated = {}
    /\ steady = {} /\ entered = {} /\ gone = {}

-----------------------------------------------------------------------------
Visible == {k \in Rows : insertedBy[k] # None /\ state[insertedBy[k]] = "committed"}

\* The WHERE of both statements; nothing ever sets deleted_at.
Matching ==
    CASE list = None -> {}
      [] list # None /\ list.filter = "none" -> Visible
      [] list # None /\ list.filter = "pending" -> Visible \ completed
      [] list # None /\ list.filter = "completed" -> Visible \cap completed

\* Bookkeeping of a step that changes the table.
Follow ==
    /\ steady' = steady \cap Matching'
    /\ entered' = entered \cup (Matching' \ Matching)
    /\ gone' = gone \cup (Matching \ Matching')

-----------------------------------------------------------------------------
(***************************************************************************)
(* The writers.                                                            *)
(***************************************************************************)
Begin(t) ==
    /\ state[t] = "new"
    /\ clock' \in {clock, clock + 1} /\ clock' <= MaxTime
    /\ state' = [state EXCEPT ![t] = "open"]
    /\ startedAt' = [startedAt EXCEPT ![t] = clock']
    /\ UNCHANGED <<insertedBy, completed, walk, history>>

Insert(t, k) ==
    /\ state[t] = "open"
    /\ insertedBy[k] = None
    /\ insertedBy' = [insertedBy EXCEPT ![k] = t]
    /\ UNCHANGED <<state, startedAt, clock, completed, walk, history>>

End(t, how) ==
    /\ state[t] = "open"
    /\ state' = [state EXCEPT ![t] = how]
    /\ UNCHANGED <<startedAt, clock, insertedBy, completed, walk>>
    /\ Follow

\* complete_task commits.
Complete(k) ==
    /\ k \in Visible \ completed
    /\ completed' = completed \cup {k}
    /\ UNCHANGED <<state, startedAt, clock, insertedBy, walk>>
    /\ Follow

\* update_task commits the status that it has read before the task was completed.
Reopen(k) ==
    /\ k \in Visible \cap completed
    /\ completed' = completed \ {k}
    /\ UNCHANGED <<state, startedAt, clock, insertedBy, walk>>
    /\ Follow

-----------------------------------------------------------------------------
(***************************************************************************)
(* The reader.                                                             *)
(***************************************************************************)
CreatedAt(k) == startedAt[insertedBy[k]]

\* a may come before b in the result.
Ordered(a, b) ==
    IF list.of = "suggestions" THEN CreatedAt(a) >= CreatedAt(b)
    ELSE CreatedAt(a) <= CreatedAt(b)

\* Mutant: the statement without its order_by.
LeadInAnyOrder(rows, all) == TRUE

\* rows lead the others among the rows in `all`, in some order by created_at.
Lead(rows, all) == \A a \in rows, b \in all \ rows : Ordered(a, b)

AtMost(n, S) == IF Cardinality(S) < n THEN Cardinality(S) ELSE n

\* Mutant: the statement without its offset.
FirstPages ==
    {p \in SUBSET Matching :
       Cardinality(p) = AtMost(limit, Matching) /\ Lead(p, Matching)}

\* What ORDER BY, LIMIT and OFFSET may return: rows that tie come in any order,
\* which need not be the same in the next statement.
PossiblePages ==
    UNION {LET rest == Matching \ before IN
           {p \in SUBSET rest : Cardinality(p) = AtMost(limit, rest) /\ Lead(p, rest)} :
           before \in {b \in SUBSET Matching :
                         Cardinality(b) = AtMost(offset, Matching) /\ Lead(b, Matching)}}

StartWalk(l, n) ==
    /\ pc = "idle"
    /\ pc' = "list"
    /\ list' = l /\ limit' = n
    /\ UNCHANGED <<table, offset, page, shown, repeated, entered, gone>>
    /\ steady' = Matching'

ListPage ==
    /\ pc = "list"
    /\ page' \in PossiblePages
    /\ pc' = "count"
    /\ UNCHANGED <<table, list, limit, offset, shown, repeated, history>>

\* Mutant: select(count()) over the table and the filtered rows, their product.
TotalOfProduct == Cardinality(Matching) * Cardinality(Matching)

\* repository.count: the statement of the page without its order and bounds.
Total == Cardinality(Matching)

\* The count, and the response.  A client that has not seen `total` rows yet asks
\* for the next page.
CountPage ==
    /\ pc = "count"
    /\ shown' = shown \cup page
    /\ repeated' = repeated \cup (shown \cap page)
    /\ \/ offset + limit >= Total /\ pc' = "done" /\ UNCHANGED offset
       \/ offset + limit < Total /\ pc' = "list" /\ offset' = offset + limit
    /\ page' = {}
    /\ UNCHANGED <<table, list, limit, history>>

Next ==
    \/ \E t \in Transactions :
         Begin(t) \/ End(t, "committed") \/ End(t, "aborted") \/ \E k \in Rows : Insert(t, k)
    \/ \E k \in Rows : Complete(k) \/ Reopen(k)
    \/ \E l \in Lists, n \in Limits : StartWalk(l, n)
    \/ ListPage
    \/ CountPage

Spec == Init /\ [][Next]_vars

-----------------------------------------------------------------------------
Ties(k) == \E other \in Rows \ {k} :
              insertedBy[other] # None /\ CreatedAt(other) = CreatedAt(k)

(***************************************************************************)
(* A walk through the pages misses a row that matched all along only where *)
(* created_at does not order it, or where a row before it has ceased to    *)
(* match meanwhile and so pulled the others forward.                       *)
(***************************************************************************)
SkippedOnlyForKnownReasons ==
    pc = "done" =>
        \A k \in steady \ shown : Ties(k) \/ \E other \in gone : Ordered(other, k)

(***************************************************************************)
(* A walk shows a row twice only where created_at does not order it, or    *)
(* where a row before it has come to match meanwhile: one that was         *)
(* completed or reopened, or that a transaction committed late.            *)
(***************************************************************************)
RepeatedOnlyForKnownReasons ==
    \A k \in repeated : Ties(k) \/ \E other \in entered \ {k} : Ordered(other, k)
=============================================================================
