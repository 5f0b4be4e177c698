------------------------- MODULE MCBatchImageQueue -------------------------
(* BatchImageQueue on a small instance: see the cfg file. *)
EXTENDS BatchImageQueue
=============================================================================
