---------------------------- MODULE TaskVersions ----------------------------
(***************************************************************************)
(* What the handlers of tasks promise together.  A task is a line of       *)
(* versions; a request adds one at once and whole, in its own tenant, and  *)
(* no version is completed before the completion was announced.  A reader  *)
(* is answered with a version of a task of its tenant, not always with the *)
(* last one.  "ok" comes after the write; after an error nobody knows.     *)
(***************************************************************************)
CONSTANTS Requests, Calls, Tasks, Rows, None

VARIABLES
    asked,      \* the call of each request
    current,    \* the version a task is in
    past,       \* the versions it has been in so far
    announced,  \* the tasks whose completion was announced
    answer,     \* what a reader was answered with
    told        \* what the caller knows; "written" is not told yet

vars == <<asked, current, past, announced, answer, told>>

Init ==
    /\ asked = [r \in Requests |-> None]
    /\ current \in [Tasks -> {None} \cup {row \in Rows : row.status = "pending"}]
    /\ past = [k \in Tasks |-> {current[k]} \ {None}]
    /\ announced = {}
    /\ answer = [r \in Requests |-> None]
    /\ told = [r \in Requests |-> "none"]

\* A new task is one that is not there.
Ask(r, c) ==
    /\ asked[r] = None
    /\ c.op = "create" => current[c.task] = None
    /\ asked' = [asked EXCEPT ![r] = c]
    /\ UNCHANGED <<current, past, announced, answer, told>>

Announce(r) ==
    /\ asked[r] # None /\ asked[r].op = "complete"
    /\ announced' = announced \cup {asked[r].task}
    /\ UNCHANGED <<asked, current, past, answer, told>>

Tell(r, what) == told' = [told EXCEPT ![r] = what]

Write(r, row) ==
    LET k == asked[r].task IN
    /\ asked[r] # None /\ asked[r].op # "get" /\ told[r] = "none"
    /\ row.tenant = asked[r].tenant
    /\ IF asked[r].op = "create" THEN current[k] = None /\ row.status = "pending"
       ELSE current[k] # None /\ current[k].tenant = row.tenant
    /\ row.status = "completed" => k \in announced
    /\ current' = [current EXCEPT ![k] = row]
    /\ past' = [past EXCEPT ![k] = @ \cup {row}]
    /\ \E what \in {"written", "ok", "error"} : Tell(r, what)
    /\ UNCHANGED <<asked, announced, answer>>

Read(r, row) ==
    /\ asked[r] # None /\ asked[r].op = "get" /\ told[r] = "none"
    /\ row \in past[asked[r].task] /\ row.tenant = asked[r].tenant
    /\ answer' = [answer EXCEPT ![r] = row]
    /\ Tell(r, "ok")
    /\ UNCHANGED <<asked, current, past, announced>>

End(r) ==
    /\ asked[r] # None
    /\ \/ told[r] = "none" /\ (Tell(r, "refused") \/ Tell(r, "error"))
       \/ told[r] = "written" /\ (Tell(r, "ok") \/ Tell(r, "error"))
    /\ UNCHANGED <<asked, current, past, announced, answer>>

Next ==
    \E r \in Requests :
        \/ \E c \in Calls : Ask(r, c)
        \/ Announce(r)
        \/ \E row \in Rows : Write(r, row) \/ Read(r, row)
        \/ End(r)

Spec == Init /\ [][Next]_vars
=============================================================================
