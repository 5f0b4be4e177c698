----------------------- MODULE MCSystemOperationLock -----------------------
(* SystemOperationLock on small instances: see the cfg files. *)
EXTENDS SystemOperationLock, TLC

\* Calls, row ids and operation ids are interchangeable.
Symmetry == Permutations(Calls) \cup Permutations(Ids) \cup Permutations(Prints)
=============================================================================
