---------------------------- MODULE MCUnitOfWork ----------------------------
(* Model-checking instance of UnitOfWork: symmetry of its constants. *)
EXTENDS UnitOfWork, TLC

Symmetry == Permutations(Requests) \cup Permutations(Tenants)
            \cup Permutations(Connections) \cup Permutations(RowIds)
=============================================================================
