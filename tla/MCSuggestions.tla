--------------------------- MODULE MCSuggestions ---------------------------
(* Model-checking instance of Suggestions. *)
EXTENDS Suggestions, TLC
=============================================================================
