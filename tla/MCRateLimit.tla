---------------------------- MODULE MCRateLimit ----------------------------
(* Model-checking instance of RateLimit: symmetry of its constants. *)
EXTENDS RateLimit, TLC

Symmetry == Permutations(Requests) \cup Permutations(Clients)
=============================================================================
