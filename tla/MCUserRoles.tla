---------------------------- MODULE MCUserRoles -----------------------------
(***************************************************************************)
(* Instance of UserRoles: two requests of any kind about one user, one key *)
(* set that is rotated while they are served.                              *)
(***************************************************************************)
EXTENDS UserRoles, TLC

CONSTANTS ada, admin, member

AllCalls == {[op |-> "get", user |-> ada]}
            \cup [op : {"change"}, user : {ada}, role : {admin, member, "unknown"}]
Changes == {c \in AllCalls : c.op = "change"}

Symmetry == Permutations(Requests) \cup Permutations(Keys) \cup Permutations({admin, member})
=============================================================================
