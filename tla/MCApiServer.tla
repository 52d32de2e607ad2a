---------------------------- MODULE MCApiServer -----------------------------
(* Model-checking instance of ApiServer. *)
EXTENDS ApiServer
=============================================================================
