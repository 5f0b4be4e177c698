----------------------- MODULE BatchImageQueueProofs -----------------------
(***************************************************************************)
(* Proofs about BatchImageQueue for any number of jobs and workers, and any *)
(* number of lapses, failing calls and crashes.                            *)
(***************************************************************************)
EXTENDS BatchImageQueue, TLAPS

-----------------------------------------------------------------------------
(* The ready list as a set                                                 *)

Waiting(s) == {s[i] : i \in DOMAIN s}

LEMMA PushWaiting ==
    ASSUME NEW S, NEW s \in Seq(S), NEW e
    PROVE  Waiting(Append(s, e)) = Waiting(s) \cup {e}
<1>1. DOMAIN Append(s, e) = DOMAIN s \cup {Len(s) + 1}
  OBVIOUS
<1>2. \A i \in DOMAIN s : Append(s, e)[i] = s[i]
  OBVIOUS
<1>3. Append(s, e)[Len(s) + 1] = e
  OBVIOUS
<1> QED
  BY <1>1, <1>2, <1>3 DEF Waiting

LEMMA PopWaiting ==
    ASSUME NEW S, NEW s \in Seq(S), s # <<>>
    PROVE  /\ Head(s) \in S
           /\ Tail(s) \in Seq(S)
           /\ Waiting(s) = Waiting(Tail(s)) \cup {Head(s)}
<1>1. Head(s) \in S /\ Tail(s) \in Seq(S)
  OBVIOUS
<1>2. DOMAIN s = 1..Len(s) /\ DOMAIN Tail(s) = 1..(Len(s) - 1) /\ Len(s) \in Nat \ {0}
  OBVIOUS
<1>3. \A i \in 1..(Len(s) - 1) : Tail(s)[i] = s[i + 1]
  OBVIOUS
<1>4. Head(s) = s[1]
  OBVIOUS
<1>5. Waiting(Tail(s)) \cup {Head(s)} \subseteq Waiting(s)
  BY <1>2, <1>3, <1>4 DEF Waiting
<1>6. ASSUME NEW i \in 1..Len(s) PROVE s[i] \in Waiting(Tail(s)) \cup {Head(s)}
  <2>1. CASE i = 1
    BY <2>1, <1>4
  <2>2. CASE i # 1
    <3>1. i - 1 \in 1..(Len(s) - 1)
      BY <2>2, <1>2
    <3>2. Tail(s)[i - 1] = s[i]
      BY <3>1, <1>3, <1>2
    <3> QED
      BY <3>1, <3>2, <1>2 DEF Waiting
  <2> QED
    BY <2>1, <2>2
<1>7. Waiting(s) \subseteq Waiting(Tail(s)) \cup {Head(s)}
  BY <1>2, <1>6 DEF Waiting
<1> QED
  BY <1>1, <1>5, <1>7

LEMMA QueuedWaiting ==
    /\ Queued = delayed \cup active \cup Waiting(ready)
    /\ Queued' = delayed' \cup active' \cup Waiting(ready')
BY DEF Queued, Waiting

-----------------------------------------------------------------------------
(* Type correctness                                                        *)

LEMMA StepType == TypeOK /\ [Next]_vars => TypeOK'
<1> SUFFICES ASSUME TypeOK, [Next]_vars PROVE TypeOK'
  OBVIOUS
<1> USE QueueAssumption DEF TypeOK, queue, loop, bounds
<1>1. ASSUME NEW w \in Workers, Reserve(w) PROVE TypeOK'
  BY <1>1, PopWaiting DEF Reserve, PopToActive
<1>2. ASSUME NEW w \in Workers, TryAcquireJobLock(w) PROVE TypeOK'
  <2>1. holding[w] \in Jobs
    BY <1>2 DEF TryAcquireJobLock
  <2>2. lapsed' \in [Workers -> BOOLEAN]
    BY <1>2 DEF TryAcquireJobLock
  <2>3. lock' \in [Jobs -> Workers \cup {NoWorker}]
    BY <1>2, <2>1 DEF TryAcquireJobLock
  <2>4. lapses' \in 0..MaxLapses /\ faults' \in 0..MaxFaults /\ crashes' \in 0..MaxCrashes
    BY <1>2 DEF TryAcquireJobLock, Fault
  <2> QED
    BY <1>2, <2>2, <2>3, <2>4 DEF TryAcquireJobLock
<1>3. ASSUME NEW w \in Workers, Process(w) PROVE TypeOK'
  BY <1>3 DEF Process
<1>4. ASSUME NEW w \in Workers, RequeueAfter(w) PROVE TypeOK'
  BY <1>4 DEF RequeueAfter, Finish, Idle
<1>5. ASSUME NEW w \in Workers, Ack(w) PROVE TypeOK'
  BY <1>5 DEF Ack, Finish, Idle
<1>6. ASSUME NEW w \in Workers, ReleaseLock(w) PROVE TypeOK'
  BY <1>6 DEF ReleaseLock, Idle, Fault
<1>7. ASSUME NEW w \in Workers, ReserveUnanswered(w) PROVE TypeOK'
  BY <1>7, PopWaiting DEF ReserveUnanswered, PopToActive, Fault
<1>8. ASSUME NEW w \in Workers, Heartbeat(w) PROVE TypeOK'
  BY <1>8 DEF Heartbeat
<1>9. ASSUME NEW w \in Workers, QueueCallFails(w) PROVE TypeOK'
  BY <1>9 DEF QueueCallFails, Finish, Idle, Fault
<1>10. ASSUME NEW w \in Workers, Crash(w) PROVE TypeOK'
  BY <1>10 DEF Crash, Idle
<1>11. ASSUME NEW j \in Jobs, Enqueue(j) PROVE TypeOK'
  BY <1>11 DEF Enqueue, Push
<1>12. ASSUME NEW j \in Jobs, MoveDueDelayedToReady(j) PROVE TypeOK'
  BY <1>12 DEF MoveDueDelayedToReady, Push
<1>13. ASSUME NEW j \in Jobs, RecoverStaleActive(j) PROVE TypeOK'
  BY <1>13 DEF RecoverStaleActive, Push
<1>14. ASSUME NEW j \in Jobs, GoStale(j) PROVE TypeOK'
  BY <1>14 DEF GoStale, Lapse
<1>15. ASSUME NEW j \in Jobs, LockExpires(j) PROVE TypeOK'
  <2>1. lapsed' \in [Workers -> BOOLEAN]
    BY <1>15 DEF LockExpires
  <2>2. lapses' \in 0..MaxLapses /\ faults' \in 0..MaxFaults /\ crashes' \in 0..MaxCrashes
    BY <1>15 DEF LockExpires, Lapse
  <2> QED
    BY <1>15, <2>1, <2>2 DEF LockExpires
<1>16. ASSUME NEW j \in Jobs, InflightExpires(j) PROVE TypeOK'
  BY <1>16 DEF InflightExpires, Lapse
<1>17. CASE UNCHANGED vars
  BY <1>17 DEF vars
<1> QED
  BY <1>1, <1>2, <1>3, <1>4, <1>5, <1>6, <1>7, <1>8, <1>9, <1>10, <1>11, <1>12,
     <1>13, <1>14, <1>15, <1>16, <1>17 DEF Next, RunOnce

\* The lists, sets, keys and locks have the values the scripts can give them,
\* and a worker has a job exactly while RunOnce is not between two jobs.
THEOREM TypeCorrect == Spec => []TypeOK
<1>1. Init => TypeOK
  BY QueueAssumption DEF Init, TypeOK
<1> QED
  BY <1>1, StepType, PTL DEF Spec

-----------------------------------------------------------------------------
(* No inflight key without an entry                                        *)

LEMMA StepQueued == TypeOK /\ InflightIsQueued /\ [Next]_vars => InflightIsQueued'
<1> SUFFICES ASSUME TypeOK, InflightIsQueued, [Next]_vars PROVE InflightIsQueued'
  OBVIOUS
<1> USE QueuedWaiting DEF InflightIsQueued, queue, loop, bounds
<1> HIDE DEF Queued
<1>1. ready \in Seq(Jobs)
  BY DEF TypeOK
<1>2. ASSUME PopToActive PROVE InflightIsQueued'
  BY <1>1, <1>2, PopWaiting DEF PopToActive
<1>3. ASSUME NEW w \in Workers, RunOnce(w) PROVE InflightIsQueued'
  BY <1>2, <1>3 DEF RunOnce, Reserve, TryAcquireJobLock, Process, RequeueAfter, Ack,
                    ReleaseLock
<1>4. ASSUME NEW w \in Workers, ReserveUnanswered(w) PROVE InflightIsQueued'
  BY <1>2, <1>4 DEF ReserveUnanswered
<1>5. ASSUME NEW w \in Workers, Heartbeat(w) \/ QueueCallFails(w) \/ Crash(w)
      PROVE  InflightIsQueued'
  BY <1>5 DEF Heartbeat, QueueCallFails, Crash
<1>6. ASSUME NEW j \in Jobs, Push(j) PROVE Waiting(ready') = Waiting(ready) \cup {j}
  BY <1>1, <1>6, PushWaiting DEF Push
<1>7. ASSUME NEW j \in Jobs, Enqueue(j) PROVE InflightIsQueued'
  BY <1>6, <1>7 DEF Enqueue
<1>8. ASSUME NEW j \in Jobs, MoveDueDelayedToReady(j) PROVE InflightIsQueued'
  BY <1>6, <1>8 DEF MoveDueDelayedToReady
<1>9. ASSUME NEW j \in Jobs, RecoverStaleActive(j) PROVE InflightIsQueued'
  BY <1>6, <1>9 DEF RecoverStaleActive
<1>10. ASSUME NEW j \in Jobs, GoStale(j) \/ LockExpires(j) \/ InflightExpires(j)
       PROVE  InflightIsQueued'
  BY <1>10 DEF GoStale, LockExpires, InflightExpires
<1>11. CASE UNCHANGED vars
  BY <1>11 DEF vars
<1> QED
  BY <1>3, <1>4, <1>5, <1>7, <1>8, <1>9, <1>10, <1>11 DEF Next

\* No script, failing call, recovery, expiry or crash leaves an inflight key, which
\* refuses every later Enqueue, to a job that is in no list and no set.
THEOREM InflightQueued == Spec => []InflightIsQueued
<1>1. Init => InflightIsQueued
  BY DEF Init, InflightIsQueued
<1> QED
  BY <1>1, StepQueued, TypeCorrect, PTL DEF Spec

-----------------------------------------------------------------------------
(* One owner                                                               *)

\* The calls a worker makes as the owner of the job's lock
Owning == {"process", "requeue", "ack", "release"}

\* A worker whose lock did not run out finds its own token in the lock key, up to
\* the call that releases it. OneOwnerAtWork alone is not preserved: a successor
\* gets the lock only because the key is gone, which says nothing about a worker
\* that is not known to have its token there.
OwnerInv ==
    \A w \in Workers : step[w] \in Owning /\ ~lapsed[w] => lock[holding[w]] = w

LEMMA StepOwner == TypeOK /\ OwnerInv /\ [Next]_vars => OwnerInv'
<1> SUFFICES ASSUME TypeOK, OwnerInv, [Next]_vars,
                    NEW v \in Workers, (step[v] \in Owning)', ~lapsed'[v]
             PROVE  lock'[holding'[v]] = v
  BY DEF OwnerInv
<1> USE QueueAssumption DEF TypeOK, OwnerInv, Owning, queue, loop, bounds
<1>1. ASSUME NEW w \in Workers, Reserve(w) PROVE lock'[holding'[v]] = v
  BY <1>1 DEF Reserve
<1>2. ASSUME NEW w \in Workers, TryAcquireJobLock(w) PROVE lock'[holding'[v]] = v
  BY <1>2 DEF TryAcquireJobLock
<1>3. ASSUME NEW w \in Workers, Process(w) PROVE lock'[holding'[v]] = v
  BY <1>3 DEF Process
<1>4. ASSUME NEW w \in Workers, RequeueAfter(w) \/ Ack(w) \/ QueueCallFails(w)
      PROVE  lock'[holding'[v]] = v
  BY <1>4 DEF RequeueAfter, Ack, QueueCallFails, Finish, Idle
<1>5. ASSUME NEW w \in Workers, ReleaseLock(w) PROVE lock'[holding'[v]] = v
  BY <1>5 DEF ReleaseLock, Idle
<1>6. ASSUME NEW w \in Workers, ReserveUnanswered(w) \/ Heartbeat(w)
      PROVE  lock'[holding'[v]] = v
  BY <1>6 DEF ReserveUnanswered, Heartbeat
<1>7. ASSUME NEW w \in Workers, Crash(w) PROVE lock'[holding'[v]] = v
  BY <1>7 DEF Crash, Idle
<1>8. ASSUME NEW j \in Jobs,
             Enqueue(j) \/ MoveDueDelayedToReady(j) \/ RecoverStaleActive(j) \/ GoStale(j)
                \/ InflightExpires(j)
      PROVE  lock'[holding'[v]] = v
  BY <1>8 DEF Enqueue, MoveDueDelayedToReady, RecoverStaleActive, GoStale, InflightExpires
<1>9. ASSUME NEW j \in Jobs, LockExpires(j) PROVE lock'[holding'[v]] = v
  BY <1>9 DEF LockExpires, LiveOwner
<1>10. CASE UNCHANGED vars
  BY <1>10 DEF vars
<1> QED
  BY <1>1, <1>2, <1>3, <1>4, <1>5, <1>6, <1>7, <1>8, <1>9, <1>10 DEF Next, RunOnce

\* Of several workers that process a job, at most one has not lost its lock,
\* however many lapses and successors there were before.
THEOREM OneOwner == Spec => []OneOwnerAtWork
<1>1. Init => OwnerInv
  BY DEF Init, OwnerInv, Owning
<1>2. OwnerInv => OneOwnerAtWork
  BY DEF OwnerInv, OneOwnerAtWork, Owning
<1> QED
  BY <1>1, <1>2, StepOwner, TypeCorrect, PTL DEF Spec

-----------------------------------------------------------------------------
(* The Redis queue implements JobQueue                                     *)

PromiseStep == [Promise!QueueNext]_(Promise!queueVars)

LEMMA InitRefines == Init => Promise!QueueInit
BY DEF Init, Promise!QueueInit, Queued, Held

\* A worker that goes from a job to the next call of RunOnce holds what it held,
\* and one that gives its job back holds nothing.
LEMMA HeldAfter ==
    ASSUME TypeOK, NEW w \in Workers
    PROVE  /\ step[w] = "idle" => Held[w] = NoJob
           /\ step[w] \notin {"idle", "release"} => Held[w] = holding[w] /\ holding[w] \in Jobs
           /\ step[w] # "idle" /\ Finish(w) => Held' = [Held EXCEPT ![w] = NoJob]
           /\ Idle(w) => Held' = [Held EXCEPT ![w] = NoJob]
           /\ Idle(w) /\ step[w] = "release" => Held' = Held
           /\ \A to \in {"process", "conflict", "requeue", "ack"} :
                 /\ step[w] \notin {"idle", "release"}
                 /\ step' = [step EXCEPT ![w] = to]
                 /\ UNCHANGED holding
                 => Held' = Held
           /\ \A j \in Jobs :
                 /\ step' = [step EXCEPT ![w] = "lock"]
                 /\ holding' = [holding EXCEPT ![w] = j]
                 => Held' = [Held EXCEPT ![w] = j]
BY QueueAssumption DEF TypeOK, Held, Finish, Idle

LEMMA HeldStays == UNCHANGED loop => Held' = Held
BY DEF Held, loop

LEMMA StepRefines == TypeOK /\ [Next]_vars => PromiseStep
<1> SUFFICES ASSUME TypeOK, [Next]_vars PROVE PromiseStep
  OBVIOUS
<1> USE QueueAssumption, QueuedWaiting, HeldAfter, HeldStays
    DEF PromiseStep, Promise!QueueNext, Promise!queueVars, queue
<1>1. ready \in Seq(Jobs)
  BY DEF TypeOK
<1>2. ASSUME PopToActive PROVE Head(ready) \in Queued \cap Jobs /\ Queued' = Queued
  BY <1>1, <1>2, PopWaiting DEF PopToActive
<1>3. ASSUME NEW j \in Jobs, Push(j) PROVE Waiting(ready') = Waiting(ready) \cup {j}
  BY <1>1, <1>3, PushWaiting DEF Push
<1>4. ASSUME NEW w \in Workers, Reserve(w) PROVE PromiseStep
  BY <1>2, <1>4 DEF Reserve, Promise!Deliver
<1>5. ASSUME NEW w \in Workers, TryAcquireJobLock(w) PROVE PromiseStep
  BY <1>5 DEF TryAcquireJobLock
<1>6. ASSUME NEW w \in Workers, Process(w) PROVE PromiseStep
  BY <1>6 DEF Process
<1>7. ASSUME NEW w \in Workers, RequeueAfter(w) PROVE PromiseStep
  BY <1>7 DEF RequeueAfter, Promise!RequeueAfter, Promise!LetGo
<1>8. ASSUME NEW w \in Workers, Ack(w) PROVE PromiseStep
  <2>1. Queued' \in {Queued, Queued \ {holding[w]}}
    BY <1>8 DEF Ack
  <2> QED
    BY <1>8, <2>1 DEF Ack, Promise!Ack, Promise!LetGo
<1>9. ASSUME NEW w \in Workers, ReleaseLock(w) PROVE PromiseStep
  BY <1>9 DEF ReleaseLock
<1>10. ASSUME NEW w \in Workers, ReserveUnanswered(w) PROVE PromiseStep
  BY <1>2, <1>10 DEF ReserveUnanswered
<1>11. ASSUME NEW w \in Workers, Heartbeat(w) PROVE PromiseStep
  BY <1>11 DEF Heartbeat
<1>12. ASSUME NEW w \in Workers, QueueCallFails(w) PROVE PromiseStep
  BY <1>12 DEF QueueCallFails, Promise!Drop, Promise!LetGo
<1>13. ASSUME NEW w \in Workers, Crash(w) PROVE PromiseStep
  <2>1. CASE step[w] = "release"
    BY <1>13, <2>1 DEF Crash
  <2>2. CASE step[w] # "release"
    BY <1>13, <2>2 DEF Crash, Promise!Drop, Promise!LetGo
  <2> QED
    BY <2>1, <2>2
<1>14. ASSUME NEW j \in Jobs, Enqueue(j) PROVE PromiseStep
  BY <1>3, <1>14 DEF Enqueue, Promise!Enqueue
<1>15. ASSUME NEW j \in Jobs, MoveDueDelayedToReady(j) \/ RecoverStaleActive(j) PROVE PromiseStep
  BY <1>3, <1>15 DEF MoveDueDelayedToReady, RecoverStaleActive, TypeOK
<1>16. ASSUME NEW j \in Jobs, GoStale(j) \/ LockExpires(j) \/ InflightExpires(j)
       PROVE  PromiseStep
  BY <1>16 DEF GoStale, LockExpires, InflightExpires
<1>17. CASE UNCHANGED vars
  BY <1>17 DEF vars, loop
<1> QED
  BY <1>4, <1>5, <1>6, <1>7, <1>8, <1>9, <1>10, <1>11, <1>12, <1>13, <1>14, <1>15,
     <1>16, <1>17 DEF Next, RunOnce

\* The Redis lists and sets are an at-least-once queue: only a worker that holds a
\* job takes it out, by acknowledging it.
THEOREM Refinement == Spec => DeliversAtLeastOnce
BY InitRefines, StepRefines, TypeCorrect, PTL
   DEF Spec, PromiseStep, DeliversAtLeastOnce, Promise!QueueSpec
=============================================================================
