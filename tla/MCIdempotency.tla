--------------------------- MODULE MCIdempotency ---------------------------
(* Idempotency on a small instance: see the cfg file. *)
EXTENDS Idempotency
=============================================================================
