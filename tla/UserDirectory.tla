--------------------------- MODULE UserDirectory ---------------------------
(***************************************************************************)
(* What registration promises to those who ask for it: one directory, in   *)
(* which an entry is made by one atomic look and write.  A client makes at *)
(* most one; a run of the seeder makes those of a tenant all at once.  Who *)
(* is turned away is turned away for an entry of somebody else, and who is *)
(* told "error" does not know: the answer to an entry may be lost.         *)
(***************************************************************************)
CONSTANTS Clients, Runs, Tenants, Emails

Askers == Clients \cup Runs

VARIABLES
    entries,  \* who is in the directory, and by whom
    answer    \* what each asker was told

vars == <<entries, answer>>

Init ==
    /\ entries = {}
    /\ answer = [p \in Askers |-> "none"]

Tell(p, what) ==
    /\ answer[p] = "none"
    /\ answer' = [answer EXCEPT ![p] = what]

Free(t, S) == \A u \in entries : ~(u.tenant = t /\ u.email \in S)

Enter(p, t, S) ==
    /\ Free(t, S)
    /\ entries' = entries \cup {[tenant |-> t, email |-> e, by |-> p] : e \in S}

\* A client is done with its entry, a run goes on to the next tenant.
Register(c, t, e) ==
    /\ Enter(c, t, {e})
    /\ Tell(c, "ok") \/ Tell(c, "error")

EnterTenant(p, t, S) ==
    /\ Enter(p, t, S)
    /\ answer[p] = "none"
    /\ UNCHANGED answer \/ Tell(p, "error")

TurnAway(p, u) ==
    /\ u.by # p
    /\ Tell(p, "conflict") \/ Tell(p, "violation")
    /\ UNCHANGED entries

GiveUp(p) ==
    /\ Tell(p, "refused") \/ Tell(p, "error")
    /\ UNCHANGED entries

Finish(p) == Tell(p, "ok") /\ UNCHANGED entries

Next ==
    \/ \E c \in Clients, t \in Tenants, e \in Emails : Register(c, t, e)
    \/ \E p \in Runs, t \in Tenants, S \in SUBSET Emails : EnterTenant(p, t, S)
    \/ \E p \in Runs : Finish(p)
    \/ \E p \in Askers : GiveUp(p) \/ \E u \in entries : TurnAway(p, u)

Spec == Init /\ [][Next]_vars
=============================================================================
