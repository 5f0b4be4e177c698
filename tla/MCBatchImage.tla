---------------------------- MODULE MCBatchImage ----------------------------
(* BatchImage on small instances: see the cfg files. *)
EXTENDS BatchImage, TLC

\* Workers are interchangeable.
WorkerSymmetry == Permutations(Workers)
=============================================================================
