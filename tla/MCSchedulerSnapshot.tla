------------------------ MODULE MCSchedulerSnapshot ------------------------
(* One poller, one full rebuild loop, one reader; see SchedulerSnapshot.cfg. *)
EXTENDS SchedulerSnapshot
=============================================================================
