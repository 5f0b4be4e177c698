-------------------------- MODULE BatchImageQueue --------------------------
(***************************************************************************)
(* The Redis queue of batch image jobs (repository/batch_image_queue.go)   *)
(* and the worker loops on it (service/batch_image_worker.go): the ready   *)
(* list, the delayed and active sorted sets, the inflight keys that        *)
(* deduplicate Enqueue, and the job locks. A script or a MULTI block is    *)
(* one action; any call may fail without effect, a worker may stop at any  *)
(* point, and a key's TTL may run out under a live owner whose heartbeat   *)
(* does not get through.                                                   *)
(***************************************************************************)
EXTENDS Sequences, FiniteSets, Naturals, TLC

CONSTANTS
    Jobs,           \* batch ids
    Workers,        \* worker loops, of all instances
    NoJob,          \* the worker has no job
    NoWorker,       \* the job is not locked
    MaxLapses,      \* bound: TTLs that run out under a live owner
    MaxFaults,      \* bound: failing calls
    MaxCrashes      \* bound: stopping workers

ASSUME QueueAssumption ==
    /\ NoJob \notin Jobs
    /\ NoWorker \notin Workers
    /\ {MaxLapses, MaxFaults, MaxCrashes} \subseteq Nat

VARIABLES
    ready,          \* the ready list, next job to pop first
    delayed,        \* members of the delayed set
    active,         \* members of the active set
    stale,          \* active members whose score is older than StaleActiveAfter
    inflight,       \* jobs whose inflight key exists
    lock,           \* per job: the worker whose token the lock key holds
    holding,        \* per worker: the job it took
    step,           \* per worker: the next call of RunOnce
    lapsed,         \* history, per worker: its lock ran out while it was working
    lapses, faults, crashes

queue == <<ready, delayed, active, stale, inflight>>
loop == <<holding, step>>
bounds == <<lapses, faults, crashes>>
vars == <<queue, lock, loop, lapsed, bounds>>

Init ==
    /\ ready = <<>>
    /\ delayed = {}
    /\ active = {}
    /\ stale = {}
    /\ inflight = {}
    /\ lock = [j \in Jobs |-> NoWorker]
    /\ holding = [w \in Workers |-> NoJob]
    /\ step = [w \in Workers |-> "idle"]
    /\ lapsed = [w \in Workers |-> FALSE]
    /\ lapses = 0
    /\ faults = 0
    /\ crashes = 0

-----------------------------------------------------------------------------
Fault == faults < MaxFaults /\ faults' = faults + 1 /\ UNCHANGED <<lapses, crashes>>

\* LPUSH; the other end is popped.
Push(j) == ready' = Append(ready, j)

\* A job whose inflight key exists is already queued.
Enqueue(j) ==
    /\ j \notin inflight
    /\ inflight' = inflight \cup {j}
    /\ Push(j)
    /\ UNCHANGED <<delayed, active, stale, lock, loop, lapsed, bounds>>

\* Mutant: BRPOP alone; the active entry is written by a later call.
PopOnly ==
    /\ ready # <<>>
    /\ ready' = Tail(ready)
    /\ UNCHANGED <<delayed, active, stale, inflight>>

\* batchImageReserveScript
PopToActive ==
    /\ ready # <<>>
    /\ ready' = Tail(ready)
    /\ active' = active \cup {Head(ready)}
    /\ stale' = stale \ {Head(ready)}
    /\ UNCHANGED <<delayed, inflight>>

Reserve(w) ==
    /\ step[w] = "idle"
    /\ PopToActive
    /\ holding' = [holding EXCEPT ![w] = Head(ready)]
    /\ step' = [step EXCEPT ![w] = "lock"]
    /\ UNCHANGED <<lock, lapsed, bounds>>

\* The script ran and its answer was lost.
ReserveUnanswered(w) ==
    /\ step[w] = "idle"
    /\ PopToActive
    /\ Fault
    /\ UNCHANGED <<lock, loop, lapsed>>

\* TryAcquireJobLock: without the lock, or without an answer, the job is requeued.
TryAcquireJobLock(w) ==
    LET j == holding[w]
    IN  /\ step[w] = "lock"
        /\ UNCHANGED <<queue, holding>>
        /\ \/ /\ lock[j] = NoWorker
              /\ lock' = [lock EXCEPT ![j] = w]
              /\ step' = [step EXCEPT ![w] = "process"]
              /\ lapsed' = [lapsed EXCEPT ![w] = FALSE]
              /\ UNCHANGED bounds
           \/ /\ \/ lock[j] # NoWorker /\ UNCHANGED bounds
                 \/ Fault
              /\ step' = [step EXCEPT ![w] = "conflict"]
              /\ UNCHANGED <<lock, lapsed>>

\* Process returns: done, or to be called again.
Process(w) ==
    /\ step[w] = "process"
    /\ \E next \in {"requeue", "ack"} : step' = [step EXCEPT ![w] = next]
    /\ UNCHANGED <<queue, lock, holding, lapsed, bounds>>

\* The heartbeat while Process runs renews only an existing member.
Heartbeat(w) ==
    /\ step[w] = "process"
    /\ holding[w] \in stale
    /\ stale' = stale \ {holding[w]}
    /\ UNCHANGED <<ready, delayed, active, inflight, lock, loop, lapsed, bounds>>

Idle(w) ==
    /\ step' = [step EXCEPT ![w] = "idle"]
    /\ holding' = [holding EXCEPT ![w] = NoJob]

\* RunOnce returns; a lock that was taken is released after the queue call.
Finish(w) ==
    IF step[w] = "conflict"
    THEN Idle(w)
    ELSE step' = [step EXCEPT ![w] = "release"] /\ UNCHANGED holding

RequeueAfter(w) ==
    /\ step[w] \in {"conflict", "requeue"}
    /\ active' = active \ {holding[w]}
    /\ stale' = stale \ {holding[w]}
    /\ delayed' = delayed \cup {holding[w]}
    /\ Finish(w)
    /\ UNCHANGED <<ready, inflight, lock, lapsed, bounds>>

Ack(w) ==
    /\ step[w] = "ack"
    /\ active' = active \ {holding[w]}
    /\ stale' = stale \ {holding[w]}
    /\ delayed' = delayed \ {holding[w]}
    /\ inflight' = inflight \ {holding[w]}
    /\ Finish(w)
    /\ UNCHANGED <<ready, lock, lapsed, bounds>>

\* RequeueAfter or Ack fails: the job stays active until it is recovered.
QueueCallFails(w) ==
    /\ step[w] \in {"conflict", "requeue", "ack"}
    /\ Finish(w)
    /\ Fault
    /\ UNCHANGED <<queue, lock, lapsed>>

\* Mutant: the lock is deleted whoever's token it holds.
ReleaseAnyLock(w) ==
    /\ step[w] = "release"
    /\ Idle(w)
    /\ lock' = [lock EXCEPT ![holding[w]] = NoWorker]
    /\ UNCHANGED <<queue, lapsed, bounds>>

\* Release deletes the lock only while it holds this worker's token; an error
\* is ignored and leaves the lock to its TTL.
ReleaseLock(w) ==
    /\ step[w] = "release"
    /\ Idle(w)
    /\ \/ /\ lock' = [lock EXCEPT ![holding[w]] = IF @ = w THEN NoWorker ELSE @]
          /\ UNCHANGED bounds
       \/ Fault /\ UNCHANGED lock
    /\ UNCHANGED <<queue, lapsed>>

RunOnce(w) ==
    \/ Reserve(w) \/ TryAcquireJobLock(w) \/ Process(w)
    \/ RequeueAfter(w) \/ Ack(w) \/ ReleaseLock(w)

\* The worker's process stops.
Crash(w) ==
    /\ step[w] # "idle"
    /\ crashes < MaxCrashes
    /\ crashes' = crashes + 1
    /\ Idle(w)
    /\ UNCHANGED <<queue, lock, lapsed, lapses, faults>>

-----------------------------------------------------------------------------
(* The mover and the recovery, one job of a script's batch at a time *)

\* MoveDueDelayedToReady, once the job's time has come
MoveDueDelayedToReady(j) ==
    /\ j \in delayed
    /\ delayed' = delayed \ {j}
    /\ Push(j)
    /\ UNCHANGED <<active, stale, inflight, lock, loop, lapsed, bounds>>

\* Mutant: recovery clears the job's keys and leaves it to be enqueued again.
RecoverByClearing(j) ==
    /\ j \in stale
    /\ active' = active \ {j}
    /\ stale' = stale \ {j}
    /\ inflight' = inflight \ {j}
    /\ UNCHANGED <<ready, delayed, lock, loop, lapsed, bounds>>

RecoverStaleActive(j) ==
    /\ j \in stale
    /\ active' = active \ {j}
    /\ stale' = stale \ {j}
    /\ Push(j)
    /\ UNCHANGED <<delayed, inflight, lock, loop, lapsed, bounds>>

-----------------------------------------------------------------------------
(* Time: what runs out under a live owner is bounded by MaxLapses *)

Lapse == lapses < MaxLapses /\ lapses' = lapses + 1 /\ UNCHANGED <<faults, crashes>>

Attended(j) == \E w \in Workers : holding[w] = j

\* Nothing renews the job's score for StaleActiveAfter.
GoStale(j) ==
    /\ j \in active \ stale
    /\ stale' = stale \cup {j}
    /\ IF Attended(j) THEN Lapse ELSE UNCHANGED bounds
    /\ UNCHANGED <<ready, delayed, active, inflight, lock, loop, lapsed>>

\* A worker past TryAcquireJobLock holds the token in the job's lock key.
LiveOwner(j) ==
    /\ lock[j] # NoWorker
    /\ holding[lock[j]] = j
    /\ step[lock[j]] \in {"process", "requeue", "ack", "release"}

\* Mutant: the lock is set without a TTL.
LockNeverExpires(j) == FALSE

\* The lock's TTL passes without a refresh by its owner.
LockExpires(j) ==
    /\ lock[j] # NoWorker
    /\ lock' = [lock EXCEPT ![j] = NoWorker]
    /\ IF LiveOwner(j)
       THEN Lapse /\ lapsed' = [lapsed EXCEPT ![lock[j]] = TRUE]
       ELSE UNCHANGED <<lapsed, bounds>>
    /\ UNCHANGED <<queue, loop>>

\* The inflight key is never renewed: a job may outlive it.
InflightExpires(j) ==
    /\ j \in inflight
    /\ inflight' = inflight \ {j}
    /\ Lapse
    /\ UNCHANGED <<ready, delayed, active, stale, lock, loop, lapsed>>

Next ==
    \/ \E w \in Workers :
          RunOnce(w) \/ ReserveUnanswered(w) \/ Heartbeat(w) \/ QueueCallFails(w) \/ Crash(w)
    \/ \E j \in Jobs :
          \/ Enqueue(j) \/ MoveDueDelayedToReady(j) \/ RecoverStaleActive(j)
          \/ GoStale(j) \/ LockExpires(j) \/ InflightExpires(j)

Spec == Init /\ [][Next]_vars

\* The loops of every instance keep running and TTLs pass: a key nobody renews
\* expires, and a score nobody renews grows old. Nobody has to enqueue.
Fairness ==
    /\ \A w \in Workers : WF_vars(RunOnce(w))
    /\ \A j \in Jobs :
          /\ WF_vars(MoveDueDelayedToReady(j)) /\ WF_vars(RecoverStaleActive(j))
          /\ WF_vars(~Attended(j) /\ GoStale(j))
          /\ WF_vars(~LiveOwner(j) /\ LockExpires(j))

FairSpec == Spec /\ Fairness

-----------------------------------------------------------------------------
Queued == delayed \cup active \cup {ready[i] : i \in DOMAIN ready}

\* The variables have the values the code can give them.
TypeOK ==
    /\ ready \in Seq(Jobs)
    /\ delayed \subseteq Jobs
    /\ active \subseteq Jobs
    /\ stale \subseteq active
    /\ inflight \subseteq Jobs
    /\ lock \in [Jobs -> Workers \cup {NoWorker}]
    /\ holding \in [Workers -> Jobs \cup {NoJob}]
    /\ step \in [Workers -> {"idle", "lock", "process", "conflict", "requeue",
                             "ack", "release"}]
    /\ \A w \in Workers : holding[w] = NoJob <=> step[w] = "idle"
    /\ lapsed \in [Workers -> BOOLEAN]
    /\ lapses \in 0..MaxLapses
    /\ faults \in 0..MaxFaults
    /\ crashes \in 0..MaxCrashes

\* The inflight key, which turns every later Enqueue away for days, exists only
\* while the job is in the ready list or one of the sets: no crash, failed call,
\* recovery or second worker can leave the key behind without an entry.
InflightIsQueued == inflight \subseteq Queued

\* However often locks run out, two workers that believe to own a job's lock are
\* never both right: a worker that lost its lock cannot release its successor's.
OneOwnerAtWork ==
    \A j \in Jobs : \A v, w \in Workers :
        /\ step[v] = "process" /\ holding[v] = j /\ ~lapsed[v]
        /\ step[w] = "process" /\ holding[w] = j /\ ~lapsed[w]
        => v = w

\* A worker is processing a job only while it is in its own hands: what the
\* workers hold for the abstract queue ends with the call that gives it back.
Held == [w \in Workers |-> IF step[w] = "release" THEN NoJob ELSE holding[w]]

Promise == INSTANCE JobQueue WITH
               QueuedJobs <- Jobs, pending <- Queued, holding <- Held

\* The Redis queue is the at-least-once queue BatchImage builds on: no script,
\* failure, recovery or expiry takes out a job that no worker acknowledged.
DeliversAtLeastOnce == Promise!QueueSpec

\* A job whose inflight key exists is worked on or acknowledged in the end, also
\* after its worker stopped with the lock in its hands.
QueuedIsProcessed ==
    \A j \in Jobs :
        j \in inflight ~> \/ j \notin inflight
                          \/ \E w \in Workers : holding[w] = j /\ step[w] = "process"
=============================================================================
