--------------------------- MODULE MCTaskRequests ---------------------------
(* Model-checking instance of TaskRequests: the calls clients may make. *)
EXTENDS TaskRequests, TLC

CONSTANTS acme, globex

AllCalls == {c \in [op : Writes \cup {"create", "get"}, via : {"api", "cli"},
                    tenant : Tenants, task : Tasks, title : Titles \cup {None}] :
                /\ ValidCall(c)
                /\ c.op \in {"get", "complete"} => c.title = None
                /\ c.op = "update" => c.title # None}

ApiCalls == {c \in AllCalls : c.via = "api"}

\* What races for one row and its cache entries: every call of one tenant, with
\* one edit, and reads of the other.
RacingCalls == {c \in AllCalls : /\ c.title \in {None, CHOOSE t \in Titles : TRUE}
                                 /\ c.op = "create" => c.via = "api"
                                 /\ c.tenant = globex => c.op = "get"}
=============================================================================
