------------------------- MODULE SuggestionsProofs --------------------------
(***************************************************************************)
(* Safety of Suggestions for any number of requests and any size of the    *)
(* pool: a row becomes visible once, with the answer its unit of work ended *)
(* with, so answers are stored and a later count includes an earlier list. *)
(***************************************************************************)
EXTENDS Suggestions, FiniteSetTheorems, TLAPS

USE RequestsAreFinite

\* Which stages a request goes through, and its row in each of them.
StagesFit ==
    \A r \in Requests :
        /\ pc[r] = "new" <=> op[r] = "none"
        /\ pc[r] = "queued" => op[r] = "background"
        /\ pc[r] \in {"listing", "counting"} => op[r] = "list"
        /\ pc[r] \in {"reading", "adding", "asking", "updating"} => op[r] # "list"
        /\ pc[r] \in {"new", "queued", "waiting", "reading", "adding", "listing", "counting"}
              => row[r] = "absent"
        /\ op[r] = "list" => row[r] = "absent"
        /\ pc[r] = "updating" => row[r] \in {"completed", "failed"}
        /\ pc[r] = "committing" => row[r] # "pending" /\ (op[r] = "sync" => row[r] = "completed")

\* How a unit of work ends is not known before it does.
OutcomesFit ==
    \A r \in Requests :
        /\ pc[r] \notin {"done", "rollingBack"} => outcome[r] = "none"
        /\ outcome[r] = "none" => table[r] = "absent"
        /\ pc[r] = "rollingBack" => outcome[r] \in {"none", "error"}
        /\ pc[r] = "rollingBack" /\ op[r] # "sync" => outcome[r] = "error"

\* What a page has listed stays visible, and is counted before it is answered.
PagesFit ==
    \A r \in Requests :
        /\ items[r] \subseteq Visible
        /\ op[r] = "list" /\ (pc[r] = "committing" \/ outcome[r] = "ok") =>
              Cardinality(items[r]) <= total[r]

IInv ==
    /\ TypeOK
    /\ StagesFit
    /\ OutcomesFit
    /\ PagesFit
    /\ VisibleIsSettled
    /\ AnswersAreStored

LEMMA InitEstablishes == Init => IInv
<1>. SUFFICES ASSUME Init PROVE IInv
  OBVIOUS
<1>1. Cardinality(Requests) \in Nat
  BY FS_CardinalityType
<1>2. TypeOK
  BY <1>1 DEF Init, TypeOK, Holding, Ops, Statuses
<1>3. StagesFit /\ OutcomesFit /\ PagesFit /\ VisibleIsSettled /\ AnswersAreStored
  BY DEF Init, StagesFit, OutcomesFit, PagesFit, VisibleIsSettled, AnswersAreStored
<1>. QED  BY <1>2, <1>3 DEF IInv

-----------------------------------------------------------------------------
(* Steps that read and write no table: the part of a request is its own. *)

\* A count of what is visible is a number, and no smaller than what was listed.
LEMMA CountsAreLarge ==
    ASSUME NEW S \in SUBSET Visible
    PROVE  /\ Cardinality(Visible) \in 0 .. Cardinality(Requests)
           /\ Cardinality(S) \in Nat
           /\ Cardinality(S) <= Cardinality(Visible)
<1>1. IsFiniteSet(Visible) /\ Cardinality(Visible) <= Cardinality(Requests)
  BY FS_Subset DEF Visible
<1>2. IsFiniteSet(S) /\ Cardinality(S) <= Cardinality(Visible)
  BY <1>1, FS_Subset
<1>. QED  BY <1>1, <1>2, FS_CardinalityType

\* The steps of a unit of work that neither read nor write what is committed.
Inner(r) ==
    \/ \E o \in Ops : Receive(r, o)
    \/ StartBackground(r) \/ Begin(r) \/ PoolTimeout(r)
    \/ ReadTasks(r) \/ RejectPrompt(r) \/ Add(r)
    \/ \E answer \in {"text", "blank", "failure"} : Ask(r, answer)
    \/ Update(r) \/ StatementFails(r) \/ CommitFails(r) \/ Rollback(r) \/ Abort(r)

\* They leave alone what is committed and listed, and the other requests.
LEMMA InnerFrame ==
    ASSUME IInv, NEW r \in Requests, Inner(r)
    PROVE  /\ UNCHANGED <<table, items, total>>
           /\ \A q \in Requests : q # r => /\ pc'[q] = pc[q] /\ op'[q] = op[q]
                                           /\ row'[q] = row[q] /\ outcome'[q] = outcome[q]
  BY DEF IInv, TypeOK, Inner, Receive, StartBackground, Begin, PoolTimeout, ReadTasks,
     RejectPrompt, Add, Ask, Update, StatementFails, CommitFails, Rollback, Abort, Goto, End,
     BreakOff

LEMMA InnerTypes ==
    ASSUME IInv, NEW r \in Requests, Inner(r)
    PROVE  TypeOK'
<1>1. CASE \E o \in Ops : Receive(r, o)
  BY <1>1 DEF IInv, TypeOK, Holding, Ops, Statuses, Receive, Goto
<1>2. CASE StartBackground(r) \/ Begin(r) \/ PoolTimeout(r) \/ ReadTasks(r) \/ RejectPrompt(r)
  BY <1>2 DEF IInv, TypeOK, Holding, Ops, Statuses, StartBackground, Begin, PoolTimeout,
     ReadTasks, RejectPrompt, StageAfterCaught, Goto, End
<1>3. CASE Add(r) \/ \E answer \in {"text", "blank", "failure"} : Ask(r, answer)
  BY <1>3 DEF IInv, TypeOK, Holding, Ops, Statuses, Add, Ask, Settled, Goto
<1>4. CASE Update(r) \/ StatementFails(r) \/ CommitFails(r)
  BY <1>4 DEF IInv, TypeOK, Holding, Ops, Statuses, Update, StatementFails, CommitFails,
     StageAfterCaught, Goto, BreakOff
<1>5. CASE Rollback(r) \/ Abort(r)
  BY <1>5 DEF IInv, TypeOK, Holding, Ops, Statuses, Rollback, Abort, Goto, End
<1>. QED  BY <1>1, <1>2, <1>3, <1>4, <1>5 DEF Inner

LEMMA InnerStages ==
    ASSUME IInv, NEW r \in Requests, Inner(r)
    PROVE  StagesFit' /\ OutcomesFit'
<1>1. \A q \in Requests : q # r => /\ pc'[q] = pc[q] /\ op'[q] = op[q]
                                   /\ row'[q] = row[q] /\ outcome'[q] = outcome[q]
  BY InnerFrame
<1>2. table' = table
  BY InnerFrame
<1>3. CASE \E o \in Ops : Receive(r, o)
  BY <1>1, <1>2, <1>3 DEF IInv, TypeOK, Ops, StagesFit, OutcomesFit, Receive, Goto
<1>4. CASE StartBackground(r) \/ Begin(r) \/ PoolTimeout(r)
  BY <1>1, <1>2, <1>4
  DEF IInv, TypeOK, StagesFit, OutcomesFit, StartBackground, Begin, PoolTimeout, Goto, End
<1>5. CASE ReadTasks(r) \/ RejectPrompt(r)
  BY <1>1, <1>2, <1>5
  DEF IInv, TypeOK, Ops, StagesFit, OutcomesFit, ReadTasks, RejectPrompt, StageAfterCaught, Goto
<1>6. CASE Add(r) \/ \E answer \in {"text", "blank", "failure"} : Ask(r, answer)
  BY <1>1, <1>2, <1>6 DEF IInv, TypeOK, StagesFit, OutcomesFit, Add, Ask, Settled, Goto
<1>7. CASE Update(r) \/ StatementFails(r) \/ CommitFails(r)
  BY <1>1, <1>2, <1>7
  DEF IInv, TypeOK, Ops, StagesFit, OutcomesFit, Update, StatementFails, CommitFails,
     StageAfterCaught, Goto, BreakOff
<1>8. CASE Rollback(r) \/ Abort(r)
  BY <1>1, <1>2, <1>8
  DEF IInv, TypeOK, StagesFit, OutcomesFit, Rollback, Abort, Goto, End
<1>. QED  BY <1>3, <1>4, <1>5, <1>6, <1>7, <1>8 DEF Inner

\* None of them answers with success, or brings a page to its commit.
LEMMA InnerEnds ==
    ASSUME IInv, NEW r \in Requests, Inner(r)
    PROVE  /\ outcome'[r] # "ok"
           /\ pc'[r] = "committing" => op'[r] # "list"
           /\ op'[r] = "background" /\ pc'[r] = "done" => outcome'[r] \in {"error", "aborted"}
                                                          \/ pc[r] = "done"
<1>1. pc[r] # "done" /\ outcome[r] \in {"none", "error"}
  BY DEF IInv, TypeOK, OutcomesFit, Inner, Receive, StartBackground, Begin, PoolTimeout,
     ReadTasks, RejectPrompt, Add, Ask, Update, StatementFails, CommitFails, Rollback, Abort
<1>. QED
  BY <1>1
  DEF IInv, TypeOK, StagesFit, OutcomesFit, Inner, Receive, StartBackground, Begin, PoolTimeout,
     ReadTasks, RejectPrompt, Add, Ask, Update, StatementFails, CommitFails, Rollback, Abort,
     StageAfterCaught, Goto, End, BreakOff

LEMMA InnerPreserves ==
    ASSUME IInv, NEW r \in Requests, Inner(r)
    PROVE  IInv'
<1>1. TypeOK' /\ StagesFit' /\ OutcomesFit'
  BY InnerTypes, InnerStages
<1>2. UNCHANGED <<table, items, total>>
      /\ \A q \in Requests : q # r => /\ pc'[q] = pc[q] /\ op'[q] = op[q]
                                      /\ row'[q] = row[q] /\ outcome'[q] = outcome[q]
  BY InnerFrame
<1>3. PagesFit'
  BY <1>2, InnerEnds DEF IInv, PagesFit, Visible
<1>4. VisibleIsSettled'
  BY <1>2 DEF IInv, VisibleIsSettled
<1>5. AnswersAreStored'
  <2>1. pc[r] # "done"
    BY DEF Inner, Receive, StartBackground, Begin, PoolTimeout, ReadTasks, RejectPrompt, Add,
       Ask, Update, StatementFails, CommitFails, Rollback, Abort
  <2>. QED  BY <1>2, <2>1, InnerEnds DEF IInv, AnswersAreStored
<1>. QED  BY <1>1, <1>3, <1>4, <1>5 DEF IInv

-----------------------------------------------------------------------------
(* Steps that read or write what is committed. *)

LEMMA ReadPreserves ==
    ASSUME IInv, NEW r \in Requests, Read(r)
    PROVE  IInv'
<1>1. UNCHANGED <<op, row, table, outcome>> /\ Visible' = Visible
  BY DEF Read, List, Count, Visible
<1>2. \A q \in Requests : q # r => pc'[q] = pc[q] /\ items'[q] = items[q] /\ total'[q] = total[q]
  BY DEF IInv, TypeOK, Read, List, Count, Goto
<1>3. Cardinality(Visible) \in 0 .. Cardinality(Requests)
  BY CountsAreLarge
<1>4. Visible \in SUBSET Requests /\ op[r] = "list" /\ pc'[r] \in {"counting", "committing"}
  BY DEF IInv, TypeOK, StagesFit, Visible, Read, List, Count, Goto
<1>5. TypeOK'
  BY <1>1, <1>3, <1>4 DEF IInv, TypeOK, Holding, Read, List, Count, Goto
<1>6. StagesFit' /\ OutcomesFit'
  BY <1>1, <1>2, <1>4 DEF IInv, TypeOK, StagesFit, OutcomesFit, Read, List, Count, Goto
<1>7. PagesFit'
  <2>1. CASE List(r)
    <3>1. items'[r] = Visible /\ pc'[r] = "counting" /\ outcome[r] = "none"
      BY <2>1 DEF IInv, TypeOK, OutcomesFit, List, Goto
    <3>. QED  BY <1>1, <1>2, <3>1 DEF IInv, PagesFit
  <2>2. CASE Count(r)
    <3>1. items' = items /\ total'[r] = Cardinality(Visible)
      BY <2>2 DEF IInv, TypeOK, Count
    <3>2. Cardinality(items[r]) <= Cardinality(Visible)
      BY CountsAreLarge DEF IInv, PagesFit
    <3>. QED  BY <1>1, <1>2, <3>1, <3>2 DEF IInv, PagesFit
  <2>. QED  BY <2>1, <2>2 DEF Read
<1>8. VisibleIsSettled'
  <2>1. \A q \in Visible : table[q] \in {"completed", "failed"}
    BY DEF IInv, TypeOK, Statuses, VisibleIsSettled, Visible
  <2>2. \A q \in Requests : items'[q] \subseteq Visible
    BY <1>1, <1>7 DEF PagesFit
  <2>. QED  BY <1>1, <2>1, <2>2 DEF IInv, VisibleIsSettled
<1>9. AnswersAreStored'
  BY <1>1, <1>2, <1>4 DEF IInv, AnswersAreStored
<1>. QED  BY <1>5, <1>6, <1>7, <1>8, <1>9 DEF IInv

LEMMA CommitPreserves ==
    ASSUME IInv, NEW r \in Requests, Commit(r) \/ CommitUnacknowledged(r)
    PROVE  IInv'
<1>1. /\ pc[r] = "committing" /\ outcome[r] = "none" /\ table[r] = "absent"
      /\ row[r] \in {"absent", "completed", "failed"} /\ op[r] # "none"
      /\ op[r] = "sync" => row[r] = "completed"
  BY DEF IInv, TypeOK, Statuses, StagesFit, OutcomesFit, Commit, CommitUnacknowledged
<1>2. table' = [table EXCEPT ![r] = row[r]] /\ UNCHANGED <<op, row, items, total>>
  BY <1>1 DEF IInv, TypeOK, Commit, CommitUnacknowledged, TakeEffect
<1>3. /\ \A q \in Requests : q # r => pc'[q] = pc[q] /\ outcome'[q] = outcome[q]
      /\ (pc'[r] = "done" /\ outcome'[r] = "ok") \/ (pc'[r] = "rollingBack" /\ outcome'[r] = "error")
  BY DEF IInv, TypeOK, Commit, CommitUnacknowledged, Goto, End, BreakOff
<1>4. table'[r] = row[r] /\ \A q \in Requests : q # r => table'[q] = table[q]
  BY <1>2 DEF IInv, TypeOK
<1>5. TypeOK'
  BY <1>2, <1>1 DEF IInv, TypeOK, Holding, Statuses, Commit, CommitUnacknowledged, Goto, End,
     BreakOff
<1>6. StagesFit' /\ OutcomesFit'
  BY <1>1, <1>2, <1>3, <1>4 DEF IInv, StagesFit, OutcomesFit
<1>7. PagesFit'
  <2>1. Visible \subseteq Visible'
    BY <1>1, <1>4 DEF Visible
  <2>. QED  BY <1>1, <1>2, <1>3, <2>1 DEF IInv, PagesFit
<1>8. VisibleIsSettled'
  <2>1. r \notin UNION {items[q] : q \in Requests}
    BY <1>1 DEF IInv, PagesFit, Visible
  <2>. QED  BY <1>1, <1>2, <1>4, <2>1 DEF IInv, VisibleIsSettled, PagesFit, Visible
<1>9. AnswersAreStored'
  BY <1>1, <1>2, <1>3, <1>4 DEF IInv, AnswersAreStored
<1>. QED  BY <1>5, <1>6, <1>7, <1>8, <1>9 DEF IInv

LEMMA NextPreserves == IInv /\ [Next]_vars => IInv'
<1>. SUFFICES ASSUME IInv, [Next]_vars PROVE IInv'
  OBVIOUS
<1>1. CASE UNCHANGED vars
  BY <1>1 DEF vars, IInv, TypeOK, StagesFit, OutcomesFit, PagesFit, VisibleIsSettled,
     AnswersAreStored, Visible
<1>2. CASE Next
  <2>1. PICK r \in Requests : Inner(r) \/ Read(r) \/ Commit(r) \/ CommitUnacknowledged(r)
    BY <1>2 DEF Next, Step, Inner
  <2>. QED  BY <2>1, InnerPreserves, ReadPreserves, CommitPreserves
<1>. QED  BY <1>1, <1>2

-----------------------------------------------------------------------------
\* The inductive invariant holds in every reachable state.
THEOREM Safe == Spec => []IInv
  BY InitEstablishes, NextPreserves, PTL DEF Spec

\* Requests, rows and pages keep to their types.
THEOREM TypesAreKept == Spec => []TypeOK
  BY Safe, PTL DEF IInv

\* No row is visible before its answer is in it, and no page lists such a row.
THEOREM RowsAppearSettled == Spec => []VisibleIsSettled
  BY Safe, PTL DEF IInv

\* A successful request and a job that nothing stopped have left their row.
THEOREM AnswersAreKept == Spec => []AnswersAreStored
  BY Safe, PTL DEF IInv

\* The total of an answered page covers its items.
THEOREM TotalsCoverPages == Spec => []PagesAreCounted
<1>1. IInv => PagesAreCounted
  BY DEF IInv, PagesFit, PagesAreCounted
<1>. QED  BY <1>1, Safe, PTL

-----------------------------------------------------------------------------
(* Once a row is visible nothing changes it: a unit of work commits before its
   row can be seen, and commits once. *)
SettledRowsStay == [][\A r \in Requests : table[r] # "absent" => table'[r] = table[r]]_vars

\* A suggestion that somebody has seen is never changed or taken away again, by
\* its own job or by any other (generate_task_suggestion.py, api/tasks.py).
THEOREM SeenRowsStay == Spec => SettledRowsStay
<1>1. ASSUME IInv, Next, NEW q \in Requests, table[q] # "absent"
      PROVE  table'[q] = table[q]
  <2>1. PICK r \in Requests : Inner(r) \/ Read(r) \/ Commit(r) \/ CommitUnacknowledged(r)
    BY <1>1 DEF Next, Step, Inner
  <2>2. CASE Inner(r) \/ Read(r)
    BY <1>1, <2>2, InnerFrame DEF Read, List, Count
  <2>3. CASE Commit(r) \/ CommitUnacknowledged(r)
    <3>1. r # q
      BY <1>1, <2>3 DEF IInv, OutcomesFit, Commit, CommitUnacknowledged
    <3>. QED  BY <1>1, <2>3, <3>1 DEF IInv, TypeOK, Commit, CommitUnacknowledged, TakeEffect
  <2>. QED  BY <2>1, <2>2, <2>3
<1>2. IInv /\ [Next]_vars =>
        [\A r \in Requests : table[r] # "absent" => table'[r] = table[r]]_vars
  BY <1>1
<1>. QED  BY <1>2, Safe, PTL DEF Spec, SettledRowsStay

-----------------------------------------------------------------------------
(* The refinement of SuggestionLog: a suggestion appears in the commit of its
   unit of work, a page is answered in the commit of its query, a request ends
   with its unit of work; all else stutters. *)

\* What a page has counted is still visible when it is answered.
TotalsAreShown == \A r \in Requests : total[r] <= Cardinality(Visible)

LEMMA TotalsStayShown == IInv /\ TotalsAreShown /\ [Next]_vars => TotalsAreShown'
<1>. SUFFICES ASSUME IInv, TotalsAreShown, [Next]_vars PROVE TotalsAreShown'
  OBVIOUS
<1>1. CASE UNCHANGED vars
  BY <1>1 DEF vars, TotalsAreShown, Visible
<1>2. ASSUME NEW r \in Requests, Inner(r)
      PROVE  TotalsAreShown'
  BY <1>2, InnerFrame DEF TotalsAreShown, Visible
<1>3. ASSUME NEW r \in Requests, Read(r)
      PROVE  TotalsAreShown'
  <2>1. Visible' = Visible /\ Cardinality(Visible) \in Nat
    BY <1>3, CountsAreLarge DEF Read, List, Count, Visible
  <2>2. \A q \in Requests : total'[q] \in {total[q], Cardinality(Visible)}
    BY <1>3 DEF IInv, TypeOK, Read, List, Count
  <2>. QED  BY <2>1, <2>2 DEF TotalsAreShown
<1>4. ASSUME NEW r \in Requests, Commit(r) \/ CommitUnacknowledged(r)
      PROVE  TotalsAreShown'
  <2>1. Visible \subseteq Visible' /\ total' = total
    BY <1>4 DEF IInv, TypeOK, Visible, Commit, CommitUnacknowledged, TakeEffect
  <2>2. IsFiniteSet(Visible')
    BY FS_Subset DEF Visible
  <2>3. Cardinality(Visible) <= Cardinality(Visible')
    BY <2>1, <2>2, FS_Subset
  <2>4. Cardinality(Visible) \in Nat /\ Cardinality(Visible') \in Nat
    BY <2>1, <2>2, FS_Subset, FS_CardinalityType
  <2>. QED  BY <2>1, <2>3, <2>4 DEF IInv, TypeOK, TotalsAreShown
<1>5. CASE Next
  <2>1. PICK r \in Requests : Inner(r) \/ Read(r) \/ Commit(r) \/ CommitUnacknowledged(r)
    BY <1>5 DEF Next, Step, Inner
  <2>. QED  BY <2>1, <1>2, <1>3, <1>4
<1>. QED  BY <1>1, <1>5

AllTold == [r \in Requests |-> Told(r)]
AllPages == [r \in Requests |-> PageOf(r)]

\* The abstract module counts as this one does.
LEMMA SameCardinality == ASSUME NEW S PROVE Promise!Cardinality(S) = Cardinality(S)
  BY DEF Promise!Cardinality, Cardinality

LEMMA PromisedInit == Init => Promise!Init
  BY DEF Init, Promise!Init, Promise!EmptyPage, Told, PageOf

\* Who is neither the actor nor told anything keeps page and answer.
LEMMA InnerIsLeave ==
    ASSUME IInv, NEW r \in Requests, Inner(r)
    PROVE  [Promise!Next]_Promise!vars
<1>1. /\ UNCHANGED <<table, items, total>>
      /\ \A q \in Requests : q # r => /\ pc'[q] = pc[q] /\ op'[q] = op[q]
                                      /\ row'[q] = row[q] /\ outcome'[q] = outcome[q]
  BY InnerFrame
<1>2. pc[r] # "done" /\ Told(r) = "none" /\ Told(r)' # "ok"
  BY InnerEnds
  DEF Told, Inner, Receive, StartBackground, Begin, PoolTimeout, ReadTasks, RejectPrompt, Add,
      Ask, Update, StatementFails, CommitFails, Rollback, Abort
<1>3. AllPages' = AllPages
  BY <1>1, <1>2 DEF AllPages, PageOf, Told
<1>4. AllTold' = [AllTold EXCEPT ![r] = Told(r)']
  BY <1>1 DEF AllTold, Told
<1>5. CASE \E o \in Ops : Receive(r, o)
  <2>1. PICK o \in Ops : Receive(r, o)
    BY <1>5
  <2>2. Told(r)' = "none"
    BY <2>1 DEF IInv, TypeOK, Receive, Goto, Told
  <2>3. AllTold' = AllTold
    BY <1>2, <1>4, <2>2 DEF AllTold
  <2>4. Promise!Ask(r, o)
    BY <1>1, <1>3, <2>1, <2>3 DEF IInv, StagesFit, Receive, Promise!Ask, AllTold, AllPages
  <2>. QED  BY <2>4 DEF Promise!Next, Ops
<1>6. CASE op' = op /\ pc'[r] = "done"
  <2>1. op[r] # "none"
    BY <1>6, <1>2
    DEF IInv, TypeOK, StagesFit, Inner, Receive, StartBackground, Begin, PoolTimeout, ReadTasks,
        RejectPrompt, Add, Ask, Update, StatementFails, CommitFails, Rollback, Abort, Goto
  <2>2. \/ Told(r)' \in {"error", "aborted"}
        \/ Told(r)' = "raised" /\ op[r] = "sync" /\ table[r] = "absent"
    <3>1. PoolTimeout(r) \/ Rollback(r) \/ Abort(r)
      BY <1>6
      DEF IInv, TypeOK, Inner, Receive, StartBackground, Begin, ReadTasks, RejectPrompt, Add, Ask,
          Update, StatementFails, CommitFails, Goto, BreakOff, StageAfterCaught
    <3>2. op[r] \in Ops
      BY <2>1 DEF IInv, TypeOK
    <3>. QED
      BY <3>1, <3>2
      DEF IInv, TypeOK, OutcomesFit, Told, PoolTimeout, Rollback, Abort, Goto, End
  <2>3. Promise!Leave(r)
    BY <1>1, <1>2, <1>3, <1>4, <1>6, <2>1, <2>2
    DEF Promise!Leave, Promise!Tell, AllTold, AllPages
  <2>. QED  BY <2>3 DEF Promise!Next
<1>7. CASE op' = op /\ pc'[r] # "done"
  <2>1. AllTold' = AllTold
    BY <1>2, <1>4, <1>7 DEF AllTold, Told
  <2>. QED  BY <1>1, <1>3, <1>7, <2>1 DEF Promise!vars, AllTold, AllPages
<1>. QED
  BY <1>5, <1>6, <1>7
  DEF Inner, StartBackground, Begin, PoolTimeout, ReadTasks, RejectPrompt, Add, Ask, Update,
      StatementFails, CommitFails, Rollback, Abort

LEMMA ReadStutters ==
    ASSUME IInv, NEW r \in Requests, Read(r)
    PROVE  UNCHANGED Promise!vars
<1>1. UNCHANGED <<op, table, outcome>> /\ pc[r] # "done" /\ pc'[r] # "done"
  BY DEF IInv, TypeOK, Read, List, Count, Goto
<1>2. \A q \in Requests : q # r => pc'[q] = pc[q] /\ items'[q] = items[q] /\ total'[q] = total[q]
  BY DEF IInv, TypeOK, Read, List, Count, Goto
<1>3. AllTold' = AllTold /\ AllPages' = AllPages
  BY <1>1, <1>2 DEF AllTold, AllPages, Told, PageOf
<1>. QED  BY <1>1, <1>3 DEF Promise!vars, AllTold, AllPages

\* The commit of a page, of a job that has left no row, and of a suggestion.
LEMMA CommitIsPromised ==
    ASSUME IInv, TotalsAreShown, NEW r \in Requests, Commit(r) \/ CommitUnacknowledged(r)
    PROVE  [Promise!Next]_Promise!vars
<1>1. /\ pc[r] = "committing" /\ table[r] = "absent" /\ op[r] \in Ops
      /\ row[r] \in {"absent", "completed", "failed"}
      /\ op[r] = "sync" => row[r] = "completed"
      /\ op[r] = "list" => row[r] = "absent"
      /\ UNCHANGED <<op, row, items, total>>
  BY DEF IInv, TypeOK, Statuses, StagesFit, OutcomesFit, Commit, CommitUnacknowledged
<1>2. table' = [table EXCEPT ![r] = row[r]]
  BY <1>1 DEF IInv, TypeOK, Commit, CommitUnacknowledged, TakeEffect
<1>3. /\ \A q \in Requests : q # r => pc'[q] = pc[q] /\ outcome'[q] = outcome[q]
      /\ Told(r) = "none"
      /\ Commit(r) => Told(r)' = "ok"
      /\ ~Commit(r) => Told(r)' = "none"
  BY DEF IInv, TypeOK, Commit, CommitUnacknowledged, Goto, End, BreakOff, Told
<1>4. AllTold' = [AllTold EXCEPT ![r] = Told(r)']
  BY <1>3 DEF AllTold, Told
<1>5. \A q \in Requests : q # r => PageOf(q)' = PageOf(q)
  BY <1>1, <1>3 DEF PageOf, Told
<1>6. CASE op[r] = "list" /\ Commit(r)
  <2>1. AllPages' = [AllPages EXCEPT ![r] = [items |-> items[r], total |-> total[r]]]
    BY <1>1, <1>3, <1>5, <1>6 DEF AllPages, PageOf
  <2>2. /\ items[r] \in SUBSET Requests /\ total[r] \in 0 .. Cardinality(Requests)
        /\ items[r] \subseteq Visible
        /\ Cardinality(items[r]) <= total[r] /\ total[r] <= Cardinality(Visible)
    BY <1>1, <1>6 DEF IInv, TypeOK, PagesFit, TotalsAreShown
  <2>3. table' = table
    BY <1>1, <1>2, <1>6 DEF IInv, TypeOK
  <2>4. Promise!Answer(r, items[r], total[r])
    <3>1. Promise!Shown = Visible
      BY DEF Promise!Shown, Visible
    <3>2. Promise!Tell(r, "ok")
      BY <1>3, <1>4, <1>6 DEF Promise!Tell, AllTold
    <3>. QED
      BY <1>1, <1>6, <2>1, <2>2, <2>3, <3>1, <3>2, SameCardinality DEF Promise!Answer, AllPages
  <2>5. \E some \in SUBSET Requests : \E count \in 0 .. Promise!Cardinality(Requests) :
          Promise!Answer(r, some, count)
    BY <2>2, <2>4, SameCardinality
  <2>. QED  BY <2>5 DEF Promise!Next
<1>7. CASE ~(op[r] = "list" /\ Commit(r))
  <2>1. AllPages' = AllPages
    BY <1>1, <1>3, <1>5, <1>7 DEF AllPages, PageOf
  <2>2. AllTold' = [AllTold EXCEPT ![r] = "ok"] \/ AllTold' = AllTold
    BY <1>3, <1>4 DEF AllTold
  <2>3. CASE row[r] = "absent"
    <3>1. table' = table /\ op[r] # "sync"
      BY <1>1, <1>2, <2>3 DEF IInv, TypeOK
    <3>2. CASE Commit(r)
      <4>1. op[r] = "background"
        BY <1>1, <1>7, <3>1, <3>2 DEF Ops
      <4>2. Promise!Leave(r)
        BY <1>1, <1>3, <1>4, <2>1, <3>1, <3>2, <4>1
        DEF Promise!Leave, Promise!Tell, AllTold, AllPages
      <4>. QED  BY <4>2 DEF Promise!Next
    <3>3. CASE ~Commit(r)
      <4>1. AllTold' = AllTold
        BY <1>3, <1>4, <3>3 DEF AllTold
      <4>. QED  BY <1>1, <2>1, <3>1, <4>1 DEF Promise!vars, AllTold, AllPages
    <3>. QED  BY <3>2, <3>3
  <2>4. CASE row[r] # "absent"
    <3>1. row[r] \in {"completed", "failed"} /\ op[r] \in {"sync", "background"}
      BY <1>1, <2>4 DEF Ops
    <3>2. Promise!Show(r, row[r])
      BY <1>1, <1>2, <1>3, <2>1, <2>2, <3>1
      DEF Promise!Show, Promise!Tell, AllTold, AllPages
    <3>. QED  BY <3>1, <3>2 DEF Promise!Next
  <2>. QED  BY <2>3, <2>4
<1>. QED  BY <1>6, <1>7

LEMMA StepIsPromised ==
    IInv /\ TotalsAreShown /\ [Next]_vars => [Promise!Next]_Promise!vars
<1>. SUFFICES ASSUME IInv, TotalsAreShown, [Next]_vars PROVE [Promise!Next]_Promise!vars
  OBVIOUS
<1>1. CASE UNCHANGED vars
  BY <1>1 DEF vars, Promise!vars, Told, PageOf
<1>2. CASE Next
  <2>1. PICK r \in Requests : Inner(r) \/ Read(r) \/ Commit(r) \/ CommitUnacknowledged(r)
    BY <1>2 DEF Next, Step, Inner
  <2>. QED  BY <2>1, InnerIsLeave, ReadStutters, CommitIsPromised
<1>. QED  BY <1>1, <1>2

\* Units of work that insert a pending row, keep it open while the model thinks
\* and may die at any await, and pages of two statements, cannot be told from
\* suggestions that appear at once with their answer and pages that count
\* between what they show and what there is (generate_task_suggestion.py,
\* api/tasks.py, list_suggestions.py).
THEOREM Refinement == Spec => ImplementsSuggestionLog
<1>1. Init => TotalsAreShown
  BY CountsAreLarge DEF Init, TotalsAreShown
<1>. QED
  BY <1>1, PromisedInit, StepIsPromised, TotalsStayShown, Safe, PTL
  DEF Spec, ImplementsSuggestionLog, Promise!Spec
=============================================================================
