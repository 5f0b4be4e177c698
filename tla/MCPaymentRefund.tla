-------------------------- MODULE MCPaymentRefund --------------------------
(* PaymentRefund on small instances: see the cfg files. *)
EXTENDS PaymentRefund

\* Calls are interchangeable.
WorkerSymmetry == Permutations(Workers)
=============================================================================
