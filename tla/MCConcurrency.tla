--------------------------- MODULE MCConcurrency ---------------------------
(* Three requests at two instances; see Concurrency.cfg. *)
EXTENDS Concurrency, TLC

CONSTANTS r1, r2, r3, i1, i2

MCRequests == {r1, r2, r3}
MCLiveRequests == {r1}
MCInstances == {i1, i2}
MCHome == r1 :> i1 @@ r2 :> i1 @@ r3 :> i2
=============================================================================
