--------------------------- MODULE MCOAuthRefresh ---------------------------
(* Two workers and a request at two instances; see OAuthRefresh.cfg. *)
EXTENDS OAuthRefresh, TLC

CONSTANTS w1, w2, q1, i1, i2

MCWorkers == {w1, w2}
MCRequests == {q1}
MCInstances == {i1, i2}
MCHome == w1 :> i1 @@ w2 :> i2 @@ q1 :> i1
=============================================================================
