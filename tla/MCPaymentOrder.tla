-------------------------- MODULE MCPaymentOrder --------------------------
(* PaymentOrder on small instances: see the cfg files. *)
EXTENDS PaymentOrder, TLC

\* Calls are interchangeable.
WorkerSymmetry == Permutations(Workers)
=============================================================================
