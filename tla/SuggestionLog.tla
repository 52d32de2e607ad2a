--------------------------- MODULE SuggestionLog ---------------------------
(***************************************************************************)
(* What the ai context promises.  A suggestion appears at once, with its   *)
(* answer, and then stays as it is; only a background job may leave one    *)
(* that failed.  A page is of suggestions that have appeared, and counts   *)
(* no fewer than it shows and no more than there are when it is answered.  *)
(* What raised an exception has left nothing behind; after an error of the *)
(* database or a crash nobody knows.                                       *)
(***************************************************************************)
EXTENDS Naturals, FiniteSets

CONSTANT Requests

VARIABLES
    asked,  \* what each request asks for
    shown,  \* the suggestion it has left for everybody to see
    page,   \* the items and the total it was answered with
    told    \* how it ended

vars == <<asked, shown, page, told>>

EmptyPage == [items |-> {}, total |-> 0]

Init ==
    /\ asked = [r \in Requests |-> "none"]
    /\ shown = [r \in Requests |-> "absent"]
    /\ page = [r \in Requests |-> EmptyPage]
    /\ told = [r \in Requests |-> "none"]

Shown == {r \in Requests : shown[r] # "absent"}

Tell(r, result) ==
    /\ asked[r] # "none" /\ told[r] = "none"
    /\ told' = [told EXCEPT ![r] = result]

Ask(r, kind) ==
    /\ asked[r] = "none"
    /\ asked' = [asked EXCEPT ![r] = kind]
    /\ UNCHANGED <<shown, page, told>>

Show(r, answer) ==
    /\ shown[r] = "absent" /\ told[r] = "none"
    /\ \/ asked[r] = "sync" /\ answer = "completed"
       \/ asked[r] = "background" /\ answer \in {"completed", "failed"}
    /\ shown' = [shown EXCEPT ![r] = answer]
    /\ Tell(r, "ok") \/ UNCHANGED told
    /\ UNCHANGED <<asked, page>>

Answer(r, some, count) ==
    /\ asked[r] = "list"
    /\ some \subseteq Shown
    /\ Cardinality(some) <= count /\ count <= Cardinality(Shown)
    /\ page' = [page EXCEPT ![r] = [items |-> some, total |-> count]]
    /\ Tell(r, "ok")
    /\ UNCHANGED <<asked, shown>>

\* A job that gave up on its prompt ends well and leaves nothing.
Leave(r) ==
    /\ \/ Tell(r, "error") \/ Tell(r, "aborted")
       \/ asked[r] = "sync" /\ shown[r] = "absent" /\ Tell(r, "raised")
       \/ asked[r] = "background" /\ shown[r] = "absent" /\ Tell(r, "ok")
    /\ UNCHANGED <<asked, shown, page>>

Next ==
    \E r \in Requests :
        \/ \E kind \in {"sync", "background", "list"} : Ask(r, kind)
        \/ \E answer \in {"completed", "failed"} : Show(r, answer)
        \/ \E some \in SUBSET Requests : \E count \in 0..Cardinality(Requests) :
              Answer(r, some, count)
        \/ Leave(r)

Spec == Init /\ [][Next]_vars
=============================================================================
