--------------------------- MODULE MCRegistration ---------------------------
(* Model-checking instance of Registration: the users of the demo data. *)
EXTENDS Registration, TLC

CONSTANTS acme, globex, admin, member

DemoUsers == {<<acme, admin>>, <<acme, member>>, <<globex, admin>>}

\* What clients ask for: the two emails that the seeder inserts together, so that
\* a client can wait for the seeder while that waits for the other client.
UsersOfAcme == {<<acme, admin>>, <<acme, member>>}
=============================================================================
