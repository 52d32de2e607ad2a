---------------------------- MODULE PagesProofs -----------------------------
(***************************************************************************)
(* Safety of Pages for any number of rows, transactions and limits.  An    *)
(* offset stands for the rows that the pages so far have passed.  A row    *)
(* whose place created_at decides is on one of them as long as its place,  *)
(* the number of the rows before it, has not slipped under the offset, and *)
(* on one only as long as it has not been pushed back behind it.           *)
(***************************************************************************)
EXTENDS Pages, FiniteSetTheorems, TLAPS

\* Rows that some transaction has inserted, visible or not.
Known == {k \in Rows : insertedBy[k] # None}

\* What is known to the walk has been inserted by a transaction that has begun.
RowsAreKnown ==
    /\ \A k \in Known : state[insertedBy[k]] # "new"
    /\ shown \cup page \cup steady \cup entered \cup gone \subseteq Known
    /\ steady \subseteq Matching

\* A walk begins with nothing behind it, and then keeps to its list and limit.
WalkIsFixed ==
    /\ pc = "idle" => /\ list = None /\ offset = 0
                      /\ shown \cup page \cup steady \cup entered \cup gone = {}
    /\ pc # "idle" => list \in Lists /\ limit \in Limits
    /\ pc # "count" => page = {}

\* Whatever a walk has met is accounted for.
RowsAreTracked ==
    pc # "idle" => /\ Matching \subseteq steady \cup entered
                   /\ shown \cup page \subseteq steady \cup entered \cup gone

\* The rows that come before k on every page.
Before(k) == {x \in Matching \ {k} : Ordered(x, k)}
Place(k) == Cardinality(Before(k))

PulledForward(k) == Ties(k) \/ \E other \in gone : Ordered(other, k)
PushedBack(k) == Ties(k) \/ \E other \in entered \ {k} : Ordered(other, k)

\* A row that no page has shown yet is still ahead, unless something pulled it.
RowsAreAhead ==
    \A k \in steady \ shown :
        \/ PulledForward(k)
        \/ pc = "list" /\ Place(k) >= offset
        \/ pc = "count" /\ (k \in page \/ Place(k) >= offset + limit)

\* A row that a page has shown is behind, unless something pushed it.
RowsAreBehind ==
    \A k \in shown \cup page :
        \/ PushedBack(k)
        \/ /\ k \notin repeated /\ k \notin shown \cap page
           /\ \/ pc = "list" /\ Place(k) < offset
              \/ pc = "count" /\ Place(k) < offset + limit
              \/ pc = "done"

IInv ==
    /\ TypeOK
    /\ RowsAreKnown
    /\ WalkIsFixed
    /\ RowsAreTracked
    /\ RowsAreAhead
    /\ RowsAreBehind

USE RowsAreFinite, LimitsArePositive, TimeIsBounded, NoneIsApart

-----------------------------------------------------------------------------
(***************************************************************************)
(* Lemmas about the order and about the pages that a statement may return. *)
(***************************************************************************)
LEMMA MatchingAreKnown ==
    TypeOK => /\ Matching \subseteq Known
              /\ IsFiniteSet(Matching)
              /\ Cardinality(Matching) \in Nat
              /\ Cardinality(Matching) <= Cardinality(Rows)
<1>. SUFFICES ASSUME TypeOK
              PROVE  /\ Matching \subseteq Known
                     /\ IsFiniteSet(Matching)
                     /\ Cardinality(Matching) \in Nat
                     /\ Cardinality(Matching) <= Cardinality(Rows)
  OBVIOUS
<1>1. Matching \subseteq Visible
  BY DEF TypeOK, Matching, Lists
<1>2. Visible \subseteq Known /\ Known \subseteq Rows
  BY DEF Visible, Known
<1>. QED  BY <1>1, <1>2, FS_Subset, FS_CardinalityType

LEMMA PlacesAreNumbers ==
    TypeOK => \A k \in Rows :
                /\ IsFiniteSet(Before(k)) /\ Place(k) \in Nat
                /\ k \in Matching => Place(k) < Cardinality(Matching)
<1>. SUFFICES ASSUME TypeOK, NEW k \in Rows
              PROVE  /\ IsFiniteSet(Before(k)) /\ Place(k) \in Nat
                     /\ k \in Matching => Place(k) < Cardinality(Matching)
  OBVIOUS
<1>1. IsFiniteSet(Matching) /\ Cardinality(Matching) \in Nat
  BY MatchingAreKnown
<1>2. Before(k) \in SUBSET (Matching \ {k})
  BY DEF Before
<1>3. /\ IsFiniteSet(Matching \ {k})
      /\ k \in Matching => Cardinality(Matching \ {k}) = Cardinality(Matching) - 1
  BY <1>1, FS_RemoveElement
<1>4. IsFiniteSet(Before(k)) /\ Place(k) <= Cardinality(Matching \ {k})
  BY <1>2, <1>3, FS_Subset DEF Place
<1>5. Place(k) \in Nat /\ Cardinality(Matching \ {k}) \in Nat
  BY <1>3, <1>4, FS_CardinalityType DEF Place
<1>. QED  BY <1>1, <1>3, <1>4, <1>5

\* created_at orders any two rows, and one way only if it does not tie.
LEMMA OrderedIsLinear ==
    ASSUME TypeOK, NEW a \in Known, NEW k \in Known
    PROVE  /\ Ordered(a, k) \/ Ordered(k, a)
           /\ a # k /\ ~Ties(k) => ~(Ordered(a, k) /\ Ordered(k, a))
<1>1. CreatedAt(a) \in Nat /\ CreatedAt(k) \in Nat
  BY DEF TypeOK, Known, CreatedAt
<1>2. a # k /\ ~Ties(k) => CreatedAt(a) # CreatedAt(k)
  BY DEF Known, Ties
<1>. QED  BY <1>1, <1>2 DEF Ordered

LEMMA LeadersComeBefore ==
    ASSUME TypeOK, NEW all \in SUBSET Known, NEW rows \in SUBSET all, Lead(rows, all),
           NEW k \in all, ~Ties(k)
    PROVE  /\ k \notin rows => \A x \in rows : x # k /\ Ordered(x, k)
           /\ k \in rows => \A x \in all \ {k} : Ordered(x, k) => x \in rows
  BY OrderedIsLinear DEF Lead

LEMMA LeadersCounted ==
    ASSUME NEW all, IsFiniteSet(all), NEW rows \in SUBSET all, NEW n \in Nat,
           Cardinality(rows) = AtMost(n, all)
    PROVE  /\ IsFiniteSet(rows) /\ Cardinality(rows) \in Nat /\ Cardinality(rows) <= n
           /\ rows # all => Cardinality(rows) = n
<1>1. IsFiniteSet(rows) /\ (Cardinality(all) = Cardinality(rows) => all = rows)
  BY FS_Subset
<1>2. Cardinality(all) \in Nat /\ Cardinality(rows) \in Nat
  BY <1>1, FS_CardinalityType
<1>. QED  BY <1>1, <1>2 DEF AtMost

(***************************************************************************)
(* ORDER BY created_at, LIMIT and OFFSET: whatever order a statement gives *)
(* to the rows that tie, a row that does not is on the page exactly if its *)
(* place is on it.                                                         *)
(***************************************************************************)
THEOREM PagesGoByPlace ==
    ASSUME TypeOK, limit \in Nat, NEW p \in PossiblePages, NEW k \in Matching, ~Ties(k)
    PROVE  k \in p <=> offset <= Place(k) /\ Place(k) < offset + limit
<1>1. /\ Matching \subseteq Known /\ IsFiniteSet(Matching)
      /\ offset \in Nat /\ Known \subseteq Rows
  <2>1. Cardinality(Rows) \in Nat
    BY FS_CardinalityType
  <2>. QED  BY <2>1, MatchingAreKnown DEF TypeOK, Known
<1>2. PICK before \in SUBSET Matching :
         /\ Cardinality(before) = AtMost(offset, Matching) /\ Lead(before, Matching)
         /\ p \in SUBSET (Matching \ before)
         /\ Cardinality(p) = AtMost(limit, Matching \ before)
         /\ Lead(p, Matching \ before)
  BY DEF PossiblePages
<1>. DEFINE rest == Matching \ before
<1>3. IsFiniteSet(rest)
  BY <1>1, FS_Difference
<1>4. /\ IsFiniteSet(before) /\ Cardinality(before) \in Nat /\ Cardinality(before) <= offset
      /\ k \notin before => Cardinality(before) = offset
  BY <1>1, <1>2, LeadersCounted
<1>5. /\ IsFiniteSet(p) /\ Cardinality(p) \in Nat /\ Cardinality(p) <= limit
      /\ k \notin before /\ k \notin p => Cardinality(p) = limit
  BY <1>2, <1>3, LeadersCounted
<1>6. IsFiniteSet(Before(k)) /\ Place(k) \in Nat
  BY <1>1, PlacesAreNumbers
<1>7. /\ IsFiniteSet(before \cup p)
      /\ Cardinality(before \cup p) = Cardinality(before) + Cardinality(p)
  <2>1. before \cap p = {} /\ Cardinality({}) = 0
    BY <1>2, FS_EmptySet
  <2>. QED  BY <1>4, <1>5, <2>1, FS_Union
<1>8. CASE k \in before
  <2>1. Before(k) \in SUBSET (before \ {k})
    BY <1>1, <1>2, <1>8, LeadersComeBefore DEF Before
  <2>2. IsFiniteSet(before \ {k}) /\ Cardinality(before \ {k}) = Cardinality(before) - 1
    BY <1>4, <1>8, FS_RemoveElement
  <2>3. Place(k) <= Cardinality(before) - 1
    BY <2>1, <2>2, FS_Subset DEF Place
  <2>4. Place(k) < offset
    BY <1>1, <1>4, <1>6, <2>3
  <2>. QED  BY <1>1, <1>2, <1>6, <1>8, <2>4
<1>9. CASE k \in p
  <2>1. before \in SUBSET Before(k)
    BY <1>1, <1>2, <1>9, LeadersComeBefore DEF Before
  <2>2. Before(k) \in SUBSET ((before \cup p) \ {k})
    BY <1>1, <1>2, <1>9, LeadersComeBefore DEF Before
  <2>3. /\ IsFiniteSet((before \cup p) \ {k})
        /\ Cardinality((before \cup p) \ {k}) = Cardinality(before \cup p) - 1
    BY <1>7, <1>9, FS_RemoveElement
  <2>4. Cardinality(before) <= Place(k)
    BY <1>6, <2>1, FS_Subset DEF Place
  <2>5. Place(k) <= Cardinality(before) + Cardinality(p) - 1
    <3>1. Place(k) <= Cardinality((before \cup p) \ {k})
      BY <2>2, <2>3, FS_Subset DEF Place
    <3>. QED  BY <1>4, <1>5, <1>6, <1>7, <2>3, <3>1
  <2>6. Cardinality(before) = offset
    BY <1>2, <1>4, <1>9
  <2>. QED  BY <1>1, <1>5, <1>6, <1>9, <2>4, <2>5, <2>6
<1>10. CASE k \notin before /\ k \notin p
  <2>1. before \cup p \in SUBSET Before(k)
    BY <1>1, <1>2, <1>10, LeadersComeBefore DEF Before
  <2>2. Cardinality(before \cup p) <= Place(k)
    BY <1>6, <2>1, FS_Subset DEF Place
  <2>. QED  BY <1>1, <1>4, <1>5, <1>6, <1>7, <1>10, <2>2
<1>. QED  BY <1>8, <1>9, <1>10

-----------------------------------------------------------------------------
(***************************************************************************)
(* The initial states.                                                     *)
(***************************************************************************)
LEMMA InitEstablishes == Init => IInv
<1>. SUFFICES ASSUME Init PROVE IInv
  OBVIOUS
<1>1. TypeOK
  <2>1. Cardinality(Rows) \in Nat
    BY FS_CardinalityType
  <2>2. 0 \in 0 .. Cardinality(Rows) /\ 0 \in 0 .. MaxTime
    BY <2>1
  <2>. QED  BY <2>2 DEF Init, TypeOK
<1>2. RowsAreKnown /\ WalkIsFixed /\ RowsAreTracked /\ RowsAreAhead /\ RowsAreBehind
  BY DEF Init, RowsAreKnown, Known, WalkIsFixed, RowsAreTracked, RowsAreAhead, RowsAreBehind
<1>. QED  BY <1>1, <1>2 DEF IInv

-----------------------------------------------------------------------------
(***************************************************************************)
(* The writers.  To the walk each of their steps is the same: some rows    *)
(* come to match, some cease to, and the rest keep their order.            *)
(***************************************************************************)
WriterStep ==
    \/ \E t \in Transactions :
         Begin(t) \/ End(t, "committed") \/ End(t, "aborted") \/ \E k \in Rows : Insert(t, k)
    \/ \E k \in Rows : Complete(k) \/ Reopen(k)

LEMMA WriterTypes ==
    ASSUME IInv, WriterStep
    PROVE  TypeOK' /\ UNCHANGED walk /\ Matching' \subseteq Rows
<1>. USE DEF IInv, TypeOK
<1>1. UNCHANGED walk
  BY DEF WriterStep, Begin, Insert, End, Complete, Reopen
<1>2. Matching \subseteq Rows /\ Matching' \subseteq Rows
  <2>1. Visible \subseteq Rows /\ Visible' \subseteq Rows
    BY DEF Visible
  <2>2. list \in Lists \cup {None} /\ list' = list
    BY <1>1 DEF walk
  <2>. QED  BY <2>1, <2>2 DEF Matching, Lists
<1>3. CASE \E t \in Transactions : Begin(t)
  <2>1. PICK t \in Transactions : Begin(t)
    BY <1>3
  <2>2. clock' \in 0 .. MaxTime
    BY <2>1 DEF Begin
  <2>3. /\ state' \in [Transactions -> {"new", "open", "committed", "aborted"}]
        /\ startedAt' \in [Transactions -> 0 .. MaxTime]
    BY <2>1, <2>2 DEF Begin
  <2>4. UNCHANGED <<insertedBy, completed, steady, entered, gone>>
    BY <2>1 DEF Begin, history
  <2>. QED  BY <1>1, <1>2, <2>2, <2>3, <2>4 DEF walk
<1>4. CASE \E t \in Transactions, how \in {"committed", "aborted"} : End(t, how)
  BY <1>2, <1>4 DEF End, Follow, walk
<1>5. CASE \E t \in Transactions, k \in Rows : Insert(t, k)
  <2>1. insertedBy' \in [Rows -> Transactions \cup {None}]
    BY <1>5 DEF Insert
  <2>2. UNCHANGED <<state, startedAt, clock, completed, steady, entered, gone>>
    BY <1>5 DEF Insert, history
  <2>. QED  BY <1>1, <1>2, <2>1, <2>2 DEF walk
<1>6. CASE \E k \in Rows : Complete(k) \/ Reopen(k)
  BY <1>2, <1>6 DEF Complete, Reopen, Follow, walk
<1>. QED  BY <1>1, <1>2, <1>3, <1>4, <1>5, <1>6 DEF WriterStep

\* A row keeps its transaction, and the transaction its start.
LEMMA RowsKeepTheirTime ==
    ASSUME IInv, WriterStep, NEW k \in Known
    PROVE  /\ k \in Known' /\ insertedBy'[k] = insertedBy[k]
           /\ state'[insertedBy[k]] # "new"
           /\ CreatedAt(k)' = CreatedAt(k)
<1>. USE DEF IInv, TypeOK, RowsAreKnown, Known, CreatedAt
<1>1. CASE \E t \in Transactions : Begin(t)
  BY <1>1 DEF Begin
<1>2. CASE \E t \in Transactions, how \in {"committed", "aborted"} : End(t, how)
  BY <1>2 DEF End
<1>3. CASE \E t \in Transactions, r \in Rows : Insert(t, r)
  BY <1>3 DEF Insert
<1>4. CASE \E r \in Rows : Complete(r) \/ Reopen(r)
  BY <1>4 DEF Complete, Reopen
<1>. QED  BY <1>1, <1>2, <1>3, <1>4 DEF WriterStep

LEMMA OrderIsKept ==
    ASSUME IInv, WriterStep
    PROVE  /\ \A a, b \in Known : Ordered(a, b)' <=> Ordered(a, b)
           /\ \A k \in Known : Ties(k) => Ties(k)'
<1>1. \A a, b \in Known : Ordered(a, b)' <=> Ordered(a, b)
  BY RowsKeepTheirTime, WriterTypes DEF Ordered, walk
<1>2. \A k \in Known : Ties(k) => Ties(k)'
  BY RowsKeepTheirTime, NoneIsApart DEF Ties, Known
<1>. QED  BY <1>1, <1>2

\* What Follow records of the steps that end a transaction or change a status is
\* true of the others as well: they leave alone what matches.
LEMMA WritersAreFollowed ==
    ASSUME IInv, WriterStep
    PROVE  Follow
<1>. USE DEF IInv, TypeOK, RowsAreKnown
<1>1. ASSUME Visible' = Visible, UNCHANGED <<completed, list, history>>
      PROVE  Follow
  BY <1>1 DEF Matching, Follow, history
<1>2. CASE \E t \in Transactions : Begin(t)
  BY <1>1, <1>2 DEF Begin, Visible, walk
<1>3. CASE \E t \in Transactions, k \in Rows : Insert(t, k)
  BY <1>1, <1>3 DEF Insert, Visible, walk
<1>. QED  BY <1>2, <1>3 DEF WriterStep, End, Complete, Reopen

\* Places are lost to rows that cease to match, and gained from rows that come to.
LEMMA PlacesMove ==
    ASSUME IInv, WriterStep, NEW k \in Known
    PROVE  /\ PulledForward(k) => PulledForward(k)'
           /\ PushedBack(k) => PushedBack(k)'
           /\ Place(k) \in Nat /\ Place(k)' \in Nat
           /\ PulledForward(k)' \/ Place(k) <= Place(k)'
           /\ PushedBack(k)' \/ Place(k)' <= Place(k)
<1>1. /\ k \in Rows /\ TypeOK
      /\ Matching \subseteq Known /\ gone \subseteq Known /\ entered \subseteq Known
  BY MatchingAreKnown DEF IInv, RowsAreKnown, Known
<1>2. entered' = entered \cup (Matching' \ Matching) /\ gone' = gone \cup (Matching \ Matching')
  BY WritersAreFollowed DEF Follow
<1>3. IsFiniteSet(Before(k)) /\ IsFiniteSet(Before(k)')
  <2>1. Before(k)' \in SUBSET Rows
    BY WriterTypes DEF Before
  <2>. QED  BY <1>1, <2>1, PlacesAreNumbers, FS_Subset
<1>4. Place(k) \in Nat /\ Place(k)' \in Nat
  BY <1>3, FS_CardinalityType DEF Place
<1>5. PulledForward(k) => PulledForward(k)'
  BY <1>1, <1>2, OrderIsKept DEF PulledForward
<1>6. PushedBack(k) => PushedBack(k)'
  BY <1>1, <1>2, OrderIsKept DEF PushedBack
<1>7. PulledForward(k)' \/ Place(k) <= Place(k)'
  <2>1. ~PulledForward(k)' => Before(k) \in SUBSET Before(k)'
    BY <1>1, <1>2, OrderIsKept DEF PulledForward, Before
  <2>. QED  BY <1>3, <2>1, FS_Subset DEF Place
<1>8. PushedBack(k)' \/ Place(k)' <= Place(k)
  <2>1. ~PushedBack(k)' => Before(k)' \in SUBSET Before(k)
    BY <1>1, <1>2, OrderIsKept DEF PushedBack, Before
  <2>. QED  BY <1>3, <2>1, FS_Subset DEF Place
<1>. QED  BY <1>4, <1>5, <1>6, <1>7, <1>8

LEMMA WriterPreserves ==
    ASSUME IInv, WriterStep
    PROVE  IInv'
<1>1. TypeOK' /\ UNCHANGED <<pc, list, limit, offset, page, shown, repeated>>
  BY WriterTypes DEF walk
<1>2. Matching \subseteq Known /\ \A k \in Known : k \in Known'
  BY RowsKeepTheirTime, MatchingAreKnown DEF IInv
<1>3. /\ steady' = steady \cap Matching'
      /\ entered' = entered \cup (Matching' \ Matching)
      /\ gone' = gone \cup (Matching \ Matching')
  BY WritersAreFollowed DEF Follow
<1>4. Matching' \subseteq Known'
  <2>1. TypeOK' => (Matching \subseteq Known)'
    BY MatchingAreKnown, PTL
  <2>. QED  BY <1>1, <2>1
<1>5. RowsAreKnown'
  <2>1. \A k \in Known' : state'[insertedBy'[k]] # "new"
    <3>. SUFFICES ASSUME NEW k \in Known', k \notin Known
                  PROVE  state'[insertedBy'[k]] # "new"
      BY RowsKeepTheirTime
    <3>1. \E t \in Transactions : Insert(t, k)
      BY DEF Known, WriterStep, Begin, End, Complete, Reopen, Insert, IInv, TypeOK
    <3>. QED  BY <3>1 DEF Insert, Known, IInv, TypeOK
  <2>. QED  BY <1>1, <1>2, <1>3, <1>4, <2>1 DEF IInv, RowsAreKnown
<1>6. WalkIsFixed'
  <2>1. pc = "idle" => Matching = {} /\ Matching' = {}
    BY <1>1 DEF IInv, WalkIsFixed, Matching
  <2>. QED  BY <1>1, <1>3, <2>1 DEF IInv, WalkIsFixed
<1>7. offset \in Nat /\ offset' = offset /\ pc' = pc /\ limit' = limit
      /\ (pc # "idle" => limit \in Nat)
  <2>1. Cardinality(Rows) \in Nat
    BY FS_CardinalityType
  <2>. QED  BY <1>1, <2>1 DEF IInv, TypeOK, WalkIsFixed
<1>8. RowsAreAhead'
  <2>. SUFFICES ASSUME NEW k \in (steady \ shown)'
                PROVE  \/ PulledForward(k)'
                       \/ pc = "list" /\ Place(k)' >= offset
                       \/ pc = "count" /\ (k \in page \/ Place(k)' >= offset + limit)
    BY <1>1 DEF RowsAreAhead
  <2>1. k \in steady \ shown /\ k \in Known
    BY <1>1, <1>3 DEF IInv, RowsAreKnown
  <2>. QED  BY <1>7, <2>1, PlacesMove DEF IInv, RowsAreAhead
<1>9. RowsAreBehind'
  <2>. SUFFICES ASSUME NEW k \in (shown \cup page)'
                PROVE  \/ PushedBack(k)'
                       \/ /\ k \notin repeated /\ k \notin shown \cap page
                          /\ \/ pc = "list" /\ Place(k)' < offset
                             \/ pc = "count" /\ Place(k)' < offset + limit
                             \/ pc = "done"
    BY <1>1 DEF RowsAreBehind
  <2>1. k \in shown \cup page /\ k \in Known
    BY <1>1 DEF IInv, RowsAreKnown
  <2>. QED  BY <1>7, <2>1, PlacesMove DEF IInv, RowsAreBehind
<1>10. RowsAreTracked'
  <2>1. steady \subseteq Matching
    BY DEF IInv, RowsAreKnown
  <2>. QED  BY <1>1, <1>3, <2>1 DEF IInv, RowsAreTracked
<1>. QED  BY <1>1, <1>5, <1>6, <1>8, <1>9, <1>10 DEF IInv

-----------------------------------------------------------------------------
(***************************************************************************)
(* The reader.  Its steps change nothing in the table, and so no place.    *)
(***************************************************************************)
LEMMA StartWalkPreserves ==
    ASSUME IInv, NEW l \in Lists, NEW n \in Limits, StartWalk(l, n)
    PROVE  IInv'
<1>1. /\ pc' = "list" /\ list' = l /\ limit' = n /\ offset' = 0
      /\ page' = {} /\ shown' = {} /\ repeated' = {} /\ entered' = {} /\ gone' = {}
      /\ steady' = Matching' /\ UNCHANGED table
  BY DEF StartWalk, IInv, WalkIsFixed, TypeOK
<1>2. Matching' \subseteq Visible /\ Visible \subseteq Known /\ Known' = Known
  BY <1>1, NoneIsApart DEF Matching, Visible, Known, Lists, table
<1>3. TypeOK'
  <2>1. 0 \in 0 .. Cardinality(Rows)
    BY FS_CardinalityType
  <2>. QED  BY <1>1, <1>2, <2>1 DEF IInv, TypeOK, table, Visible
<1>4. RowsAreKnown' /\ WalkIsFixed' /\ RowsAreTracked'
  BY <1>1, <1>2 DEF IInv, RowsAreKnown, WalkIsFixed, RowsAreTracked, table
<1>5. RowsAreAhead'
  <2>. SUFFICES ASSUME NEW k \in steady' PROVE Place(k)' >= 0
    BY <1>1 DEF RowsAreAhead
  <2>1. Before(k)' \in SUBSET Rows
    BY <1>2 DEF Before, Visible
  <2>2. Cardinality(Before(k)') \in Nat
    BY <2>1, FS_Subset, FS_CardinalityType
  <2>. QED  BY <2>2 DEF Place
<1>6. RowsAreBehind'
  BY <1>1 DEF RowsAreBehind
<1>. QED  BY <1>3, <1>4, <1>5, <1>6 DEF IInv

\* What the table and the list decide, a step that changes neither leaves alone.
LEMMA ReadersMoveNothing ==
    ASSUME UNCHANGED <<table, list, history>>
    PROVE  /\ Matching' = Matching /\ Known' = Known
           /\ \A k : Place(k)' = Place(k)
           /\ \A k : PulledForward(k)' <=> PulledForward(k)
           /\ \A k : PushedBack(k)' <=> PushedBack(k)
<1>1. Matching' = Matching /\ Known' = Known
  BY DEF table, Matching, Visible, Known
<1>2. \A a, b : Ordered(a, b)' <=> Ordered(a, b)
  BY DEF table, Ordered, CreatedAt
<1>3. \A k : Ties(k)' <=> Ties(k)
  BY DEF table, Ties, CreatedAt
<1>4. \A k : Before(k)' = Before(k)
  BY <1>1, <1>2 DEF Before
<1>. QED  BY <1>1, <1>2, <1>3, <1>4 DEF Place, PulledForward, PushedBack, history

LEMMA ListPagePreserves ==
    ASSUME IInv, ListPage
    PROVE  IInv'
<1>1. /\ pc = "list" /\ pc' = "count" /\ page = {} /\ page' \in PossiblePages
      /\ UNCHANGED <<table, list, limit, offset, shown, repeated, history>>
  BY DEF ListPage, IInv, WalkIsFixed
<1>2. /\ Matching' = Matching /\ Known' = Known
      /\ \A k : Place(k)' = Place(k)
      /\ \A k : PulledForward(k)' <=> PulledForward(k)
      /\ \A k : PushedBack(k)' <=> PushedBack(k)
  BY <1>1, ReadersMoveNothing
<1>3. Matching \subseteq Known /\ Known \subseteq Rows /\ page' \subseteq Matching
  BY <1>1, MatchingAreKnown DEF IInv, Known, PossiblePages
<1>4. TypeOK'
  BY <1>1, <1>3 DEF IInv, TypeOK, table, history
<1>5. RowsAreKnown' /\ WalkIsFixed' /\ RowsAreTracked'
  BY <1>1, <1>2, <1>3
     DEF IInv, RowsAreKnown, WalkIsFixed, RowsAreTracked, table, history
<1>6. TypeOK /\ limit \in Nat /\ limit > 0 /\ offset \in Nat
  <2>1. Cardinality(Rows) \in Nat
    BY FS_CardinalityType
  <2>. QED  BY <1>1, <2>1 DEF IInv, TypeOK, WalkIsFixed
<1>7. \A k \in Known : Place(k) \in Nat
  BY <1>3, <1>6, PlacesAreNumbers
<1>8. \A k \in Matching : ~Ties(k) =>
        (k \in page' <=> offset <= Place(k) /\ Place(k) < offset + limit)
  BY <1>1, <1>6, PagesGoByPlace
<1>9. RowsAreAhead'
  <2>. SUFFICES ASSUME NEW k \in steady \ shown, ~PulledForward(k)
                PROVE  k \in page' \/ Place(k) >= offset + limit
    BY <1>1, <1>2 DEF RowsAreAhead, history
  <2>1. k \in Matching /\ Place(k) >= offset /\ ~Ties(k)
    BY <1>1 DEF IInv, RowsAreKnown, RowsAreAhead, PulledForward
  <2>. QED  BY <1>3, <1>6, <1>7, <1>8, <2>1
<1>10. RowsAreBehind'
  <2>. SUFFICES ASSUME NEW k \in shown \cup page', ~PushedBack(k)
                PROVE  /\ k \notin repeated /\ k \notin shown \cap page'
                       /\ Place(k) < offset + limit
    BY <1>1, <1>2 DEF RowsAreBehind
  <2>1. ~Ties(k) /\ k \in Known
    BY <1>3 DEF IInv, RowsAreKnown, PushedBack
  <2>2. CASE k \in shown
    <3>1. k \notin repeated /\ Place(k) < offset
      BY <1>1, <2>2 DEF IInv, RowsAreBehind
    <3>. QED  BY <1>3, <1>6, <1>7, <1>8, <2>1, <3>1
  <2>3. CASE k \notin shown
    BY <1>3, <1>8, <2>1, <2>3 DEF IInv, TypeOK
  <2>. QED  BY <2>2, <2>3
<1>. QED  BY <1>4, <1>5, <1>9, <1>10 DEF IInv

LEMMA CountPagePreserves ==
    ASSUME IInv, CountPage
    PROVE  IInv'
<1>. DEFINE total == Cardinality(Matching)
<1>1. /\ pc = "count" /\ shown' = shown \cup page /\ page' = {}
      /\ repeated' = repeated \cup (shown \cap page)
      /\ UNCHANGED <<table, list, limit, history>>
      /\ \/ offset + limit >= total /\ pc' = "done" /\ offset' = offset
         \/ offset + limit < total /\ pc' = "list" /\ offset' = offset + limit
  BY DEF CountPage, Total
<1>2. /\ Matching' = Matching /\ Known' = Known
      /\ \A k : Place(k)' = Place(k)
      /\ \A k : PulledForward(k)' <=> PulledForward(k)
      /\ \A k : PushedBack(k)' <=> PushedBack(k)
  BY <1>1, ReadersMoveNothing
<1>3. Matching \subseteq Known /\ total \in Nat /\ total <= Cardinality(Rows)
  BY MatchingAreKnown DEF IInv
<1>4. TypeOK /\ limit \in Nat /\ offset \in Nat /\ Cardinality(Rows) \in Nat
  <2>1. Cardinality(Rows) \in Nat
    BY FS_CardinalityType
  <2>. QED  BY <1>1, <2>1 DEF IInv, TypeOK, WalkIsFixed
<1>5. TypeOK'
  <2>1. offset' \in 0 .. Cardinality(Rows)
    BY <1>1, <1>3, <1>4 DEF TypeOK
  <2>. QED  BY <1>1, <1>4, <2>1 DEF TypeOK, table, history
<1>6. RowsAreKnown' /\ WalkIsFixed' /\ RowsAreTracked'
  BY <1>1, <1>2 DEF IInv, RowsAreKnown, WalkIsFixed, RowsAreTracked, table, history
<1>7. \A k \in Matching : Place(k) \in Nat /\ Place(k) < total
  BY <1>3, <1>4, PlacesAreNumbers DEF Known
<1>8. RowsAreAhead'
  <2>. SUFFICES ASSUME NEW k \in steady \ (shown \cup page), ~PulledForward(k)
                PROVE  pc' = "list" /\ Place(k) >= offset'
    BY <1>1, <1>2 DEF RowsAreAhead, history
  <2>1. k \in Matching /\ Place(k) >= offset + limit
    BY <1>1 DEF IInv, RowsAreKnown, RowsAreAhead
  <2>. QED  BY <1>1, <1>3, <1>4, <1>7, <2>1
<1>9. RowsAreBehind'
  <2>. SUFFICES ASSUME NEW k \in shown \cup page, ~PushedBack(k)
                PROVE  /\ k \notin repeated'
                       /\ \/ pc' = "list" /\ Place(k) < offset'
                          \/ pc' = "done"
    BY <1>1, <1>2 DEF RowsAreBehind
  <2>1. /\ k \notin repeated /\ k \notin shown \cap page
        /\ Place(k) < offset + limit
    BY <1>1 DEF IInv, RowsAreBehind
  <2>. QED  BY <1>1, <2>1
<1>. QED  BY <1>5, <1>6, <1>8, <1>9 DEF IInv

LEMMA NextPreserves == IInv /\ [Next]_vars => IInv'
<1>. SUFFICES ASSUME IInv, [Next]_vars PROVE IInv'
  OBVIOUS
<1>1. CASE UNCHANGED vars
  <2>1. /\ UNCHANGED <<table, list, history>>
        /\ UNCHANGED <<pc, limit, offset, page, shown, repeated>>
    BY <1>1 DEF vars, walk
  <2>. QED
    BY <2>1, ReadersMoveNothing
       DEF IInv, TypeOK, RowsAreKnown, WalkIsFixed, RowsAreTracked, RowsAreAhead, RowsAreBehind, table, history
<1>2. CASE Next
  BY <1>2, WriterPreserves, StartWalkPreserves, ListPagePreserves, CountPagePreserves
     DEF Next, WriterStep
<1>. QED  BY <1>1, <1>2

-----------------------------------------------------------------------------
(***************************************************************************)
(* The invariant that the results below rest on.                           *)
(***************************************************************************)
THEOREM Safe == Spec => []IInv
  BY InitEstablishes, NextPreserves, PTL DEF Spec

(***************************************************************************)
(* Every variable keeps to its type; in particular no walk runs past the   *)
(* rows there are.                                                         *)
(***************************************************************************)
THEOREM TypesAreKept == Spec => []TypeOK
  BY Safe, PTL DEF IInv

(***************************************************************************)
(* A walk misses a row that matched all along only where created_at does   *)
(* not order it, or where a row before it has ceased to match.             *)
(***************************************************************************)
THEOREM SkipsHaveACause == Spec => []SkippedOnlyForKnownReasons
<1>1. IInv => SkippedOnlyForKnownReasons
  BY DEF IInv, RowsAreAhead, PulledForward, SkippedOnlyForKnownReasons
<1>. QED  BY <1>1, Safe, PTL

(***************************************************************************)
(* A walk shows a row twice only where created_at does not order it, or    *)
(* where a row before it has come to match.                                *)
(***************************************************************************)
THEOREM RepetitionsHaveACause == Spec => []RepeatedOnlyForKnownReasons
<1>1. IInv => RepeatedOnlyForKnownReasons
  BY DEF IInv, TypeOK, RowsAreBehind, PushedBack, RepeatedOnlyForKnownReasons
<1>. QED  BY <1>1, Safe, PTL

\* What the pages of a walk that nothing disturbed have shown.
QuietWalksAreExact ==
    pc = "done" /\ entered = {} /\ gone = {} /\ (\A k \in Matching : ~Ties(k)) =>
        shown = Matching /\ repeated = {}

(***************************************************************************)
(* Where no row came to match or ceased to during a walk, and created_at   *)
(* orders all that match, its pages are the list: every row, and once (the *)
(* three list queries, ORDER BY created_at LIMIT OFFSET).                  *)
(***************************************************************************)
THEOREM QuietWalksShowTheList == Spec => []QuietWalksAreExact
<1>1. ASSUME IInv, pc = "done", entered = {}, gone = {}, \A k \in Matching : ~Ties(k)
      PROVE  shown = Matching /\ repeated = {}
  <2>1. Matching = steady /\ shown \subseteq steady
    BY <1>1 DEF IInv, RowsAreKnown, RowsAreTracked
  <2>2. steady \subseteq shown
    BY <1>1, <2>1 DEF IInv, RowsAreAhead, PulledForward
  <2>3. repeated = {}
    BY <1>1, <2>1 DEF IInv, TypeOK, RowsAreBehind, PushedBack
  <2>. QED  BY <2>1, <2>2, <2>3
<1>2. IInv => QuietWalksAreExact
  BY <1>1 DEF QuietWalksAreExact
<1>. QED  BY <1>2, Safe, PTL
=============================================================================
