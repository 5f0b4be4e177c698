------------------------------ MODULE JobQueue ------------------------------
(***************************************************************************)
(* What the batch image queue (service.BatchImageQueue) promises its users:*)
(* a job that was put in is delivered, possibly to several workers, until  *)
(* a worker that holds it acknowledges it. BatchImageQueue shows that the  *)
(* Redis queue implements this; BatchImage builds on it.                   *)
(***************************************************************************)
EXTENDS Naturals

CONSTANTS
    QueuedJobs, \* the jobs that may be put in
    Workers,    \* worker loops, of all instances
    NoJob       \* the worker has no job

VARIABLES
    pending,    \* the jobs that will be delivered again
    holding     \* per worker: the job it is processing

queueVars == <<pending, holding>>

QueueInit ==
    /\ pending = {}
    /\ holding = [w \in Workers |-> NoJob]

\* Enqueue, whether it pushes the job or answers ErrBatchImageAlreadyQueued.
Enqueue(j) ==
    /\ pending' = pending \cup {j}
    /\ UNCHANGED holding

Deliver(w, j) ==
    /\ j \in pending
    /\ holding[w] = NoJob
    /\ holding' = [holding EXCEPT ![w] = j]
    /\ UNCHANGED pending

LetGo(w) == holding' = [holding EXCEPT ![w] = NoJob]

RequeueAfter(w) ==
    /\ holding[w] # NoJob
    /\ pending' = pending \cup {holding[w]}
    /\ LetGo(w)

\* An acknowledged job may have been put in again in the meantime.
Ack(w) ==
    /\ holding[w] # NoJob
    /\ pending' \in {pending, pending \ {holding[w]}}
    /\ LetGo(w)

\* The worker's process stops, or its call to the queue fails.
Drop(w) ==
    /\ holding[w] # NoJob
    /\ LetGo(w)
    /\ UNCHANGED pending

QueueNext ==
    \/ \E j \in QueuedJobs : Enqueue(j)
    \/ \E w \in Workers :
          \/ \E j \in QueuedJobs : Deliver(w, j)
          \/ RequeueAfter(w)
          \/ Ack(w)
          \/ Drop(w)

QueueSpec == QueueInit /\ [][QueueNext]_queueVars
=============================================================================
