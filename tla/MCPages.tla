------------------------------ MODULE MCPages -------------------------------
(***************************************************************************)
(* Instance of Pages: three rows that up to three transactions insert, at  *)
(* up to three times, in pages of one or two.                              *)
(***************************************************************************)
EXTENDS Pages, TLC

Symmetry == Permutations(Rows) \cup Permutations(Transactions)
=============================================================================
