----------------------------- MODULE BatchImage -----------------------------
(***************************************************************************)
(* Batch image jobs: submission and cancellation                           *)
(* (batch_image_public.go), the sweep over submissions that never reached  *)
(* the provider (batch_image_billing_recovery.go), the workers' pipeline   *)
(* (batch_image_processor.go, batch_image_settlement.go) and the job rows  *)
(* (batch_image_repo.go), over the balance holds and the job queue.        *)
(*                                                                         *)
(* A call to the database, the billing repository, the queue or the        *)
(* provider is one action. Any of them may fail without effect (Fault,     *)
(* bounded by MaxFaults), and the process may stop between any two         *)
(* (bounded by MaxCrashes). Several workers may process one job at a time: *)
(* the job lock expires when its holder's heartbeat does not get through.  *)
(***************************************************************************)
EXTENDS BalanceHolds, FiniteSets

CONSTANTS
    Workers,        \* worker loops, of all instances
    NoJob,          \* the worker has no job
    Costs,          \* the actual costs an indexed result may lead to
    MaxRetries,     \* batchImageSettlementMaxRetries
    MaxFaults,      \* bound: failing calls
    MaxCrashes      \* bound: stopping processes

ASSUME BatchAssumption ==
    /\ IsFiniteSet(Jobs)
    /\ NoJob \notin Jobs
    /\ Costs \subseteq Nat
    /\ MaxRetries \in Nat \ {0}
    /\ MaxFaults \in Nat
    /\ MaxCrashes \in Nat

VARIABLES
    status,         \* batch_image_jobs.status, "none" before the insert
    named,          \* provider_job_name is set
    cost,           \* success_count times the unit price
    retry,          \* retry_count, up to MaxRetries
    age,            \* updated_at: after the sweep's cutoff or not
    provider,       \* the provider's job
    submit,         \* per job: the next call of its Submit
    cancel,         \* per job: the next call of its Cancel
    sweep,          \* per job: the next call of the sweep
    work,           \* per worker: the next call of its pipeline
    pending,        \* the queue: see JobQueue
    holding,
    faults,         \* failing calls so far
    crashes,        \* stopped processes so far
    dropped,        \* history: a job's last enqueue failed or was never made
    lapsed          \* history: a job's lock expired and a second worker took it

rowVars == <<status, named, cost, retry, age>>
callVars == <<submit, cancel, sweep, work>>
queueVars == <<pending, holding, lapsed>>
faultVars == <<faults, crashes>>
vars == <<holdVars, rowVars, provider, callVars, queueVars, faultVars, dropped>>

Queue == INSTANCE JobQueue WITH QueuedJobs <- Jobs

Terminal == {"completed", "failed", "cancelled", "output_deleted"}
Unsubmitted == {"created", "uploading"}
Live == Unsubmitted \cup {"submitted", "running", "indexing", "settling"}

\* CanTransitionBatchImageJob
CanTransition(from, to) ==
    \/ from \in Live /\ to = "failed"
    \/ <<from, to>> \in
          {<<"created", "uploading">>, <<"created", "submitted">>,
           <<"created", "cancelled">>, <<"uploading", "submitted">>,
           <<"uploading", "cancelled">>, <<"submitted", "running">>,
           <<"submitted", "indexing">>, <<"submitted", "cancelled">>,
           <<"running", "running">>, <<"running", "indexing">>,
           <<"running", "cancelled">>, <<"indexing", "settling">>,
           <<"settling", "completed">>}
    \/ from \in Terminal \ {"output_deleted"} /\ to = "output_deleted"

Init ==
    /\ HoldsInit
    /\ Queue!QueueInit
    /\ status = [j \in Jobs |-> "none"]
    /\ named = [j \in Jobs |-> FALSE]
    /\ cost = [j \in Jobs |-> 0]
    /\ retry = [j \in Jobs |-> 0]
    /\ age = [j \in Jobs |-> "fresh"]
    /\ provider = [j \in Jobs |-> "none"]
    /\ submit = [j \in Jobs |-> "create"]
    /\ cancel = [j \in Jobs |-> "idle"]
    /\ sweep = [j \in Jobs |-> "idle"]
    /\ work = [w \in Workers |-> "idle"]
    /\ faults = 0
    /\ crashes = 0
    /\ dropped = [j \in Jobs |-> FALSE]
    /\ lapsed = [j \in Jobs |-> FALSE]

-----------------------------------------------------------------------------
\* A call fails without effect.
Fault == faults < MaxFaults /\ faults' = faults + 1

NoFault == UNCHANGED faults

\* A call that could succeed fails by a fault, one that cannot fails anyway.
FailsUnless(can) == IF can THEN Fault ELSE NoFault

\* An update of the row's status, which renews updated_at.
SetStatus(j, to) ==
    /\ status' = [status EXCEPT ![j] = to]
    /\ age' = [age EXCEPT ![j] = "fresh"]
    /\ UNCHANGED <<named, cost, retry>>

\* TransitionBatchImageJobStatus on a row it accepts
Transition(j, to) ==
    /\ CanTransition(status[j], to)
    /\ SetStatus(j, to)

\* The queue takes the job, or the call fails and the job may be forgotten.
TryEnqueue(j) ==
    \/ /\ Queue!Enqueue(j)
       /\ dropped' = [dropped EXCEPT ![j] = FALSE]
       /\ NoFault
       /\ UNCHANGED lapsed
    \/ /\ Fault
       /\ dropped' = [dropped EXCEPT ![j] = j \notin pending]
       /\ UNCHANGED queueVars

-----------------------------------------------------------------------------
(* Submit *)

SubmitAt(j, at, to) ==
    /\ submit[j] = at
    /\ submit' = [submit EXCEPT ![j] = to]
    /\ UNCHANGED <<cancel, sweep, work, crashes>>

CreateBatchImageJob(j) ==
    /\ SubmitAt(j, "create", "reserve")
    /\ SetStatus(j, "created")
    /\ NoFault
    /\ UNCHANGED <<holdVars, provider, queueVars, dropped>>

\* reserveBatchImageBalanceHold; a refused or failed hold is recorded.
SubmitReserve(j) ==
    /\ UNCHANGED <<rowVars, provider, queueVars, dropped>>
    /\ \/ /\ SubmitAt(j, "reserve", "items")
          /\ Reserve(j)
          /\ NoFault
       \/ /\ SubmitAt(j, "reserve", "record")
          /\ UNCHANGED holdVars
          /\ FailsUnless(CanReserve(j))

\* createPendingItems
SubmitItems(j) ==
    /\ UNCHANGED <<holdVars, rowVars, provider, queueVars, dropped>>
    /\ \/ SubmitAt(j, "items", "upload") /\ NoFault
       \/ SubmitAt(j, "items", "release") /\ Fault

\* A concurrent Cancel or sweep makes the transition invalid: the hold is
\* released and the row keeps its status.
SubmitUpload(j) ==
    /\ UNCHANGED <<holdVars, provider, queueVars, dropped>>
    /\ \/ /\ SubmitAt(j, "upload", "provider")
          /\ Transition(j, "uploading")
          /\ NoFault
       \/ /\ SubmitAt(j, "upload", "releaseOnly")
          /\ ~CanTransition(status[j], "uploading")
          /\ NoFault
          /\ UNCHANGED rowVars
       \/ /\ SubmitAt(j, "upload", "release")
          /\ Fault
          /\ UNCHANGED rowVars

\* runSubmitHeartbeat while provider.Submit is running
TouchBatchImageJobSubmitting(j) ==
    /\ submit[j] = "provider"
    /\ status[j] \in Unsubmitted
    /\ age[j] # "fresh"
    /\ age' = [age EXCEPT ![j] = "fresh"]
    /\ UNCHANGED <<holdVars, status, named, cost, retry, provider, callVars,
                   queueVars, faultVars, dropped>>

\* provider.Submit
SubmitProvider(j) ==
    /\ UNCHANGED <<holdVars, rowVars, queueVars, dropped>>
    /\ \/ /\ SubmitAt(j, "provider", "name")
          /\ provider' = [provider EXCEPT ![j] = "running"]
          /\ NoFault
       \/ /\ SubmitAt(j, "provider", "release")
          /\ Fault
          /\ UNCHANGED provider

\* Mutant: the row is updated without looking at its status.
UpdateProviderSubmitBlindly(j) ==
    /\ UNCHANGED <<holdVars, provider, queueVars, dropped>>
    /\ SubmitAt(j, "name", "enqueue")
    /\ status' = [status EXCEPT ![j] = "submitted"]
    /\ named' = [named EXCEPT ![j] = TRUE]
    /\ age' = [age EXCEPT ![j] = "fresh"]
    /\ NoFault
    /\ UNCHANGED <<cost, retry>>

UpdateBatchImageJobProviderSubmit(j) ==
    /\ UNCHANGED <<holdVars, provider, queueVars, dropped>>
    /\ \/ /\ SubmitAt(j, "name", "enqueue")
          /\ CanTransition(status[j], "submitted")
          /\ status' = [status EXCEPT ![j] = "submitted"]
          /\ named' = [named EXCEPT ![j] = TRUE]
          /\ age' = [age EXCEPT ![j] = "fresh"]
          /\ NoFault
          /\ UNCHANGED <<cost, retry>>
       \/ /\ SubmitAt(j, "name", "abort")
          /\ FailsUnless(CanTransition(status[j], "submitted"))
          /\ UNCHANGED rowVars

\* The provider stops a job that is still running.
ProviderCancel(j) ==
    provider' = [provider EXCEPT ![j] = IF @ = "running" THEN "cancelled" ELSE @]

\* Best effort: a failing provider.Cancel is only logged.
AbortOrphanProviderJob(j) ==
    /\ SubmitAt(j, "abort", "done")
    /\ \/ ProviderCancel(j) /\ NoFault
       \/ UNCHANGED provider /\ Fault
    /\ UNCHANGED <<holdVars, rowVars, queueVars, dropped>>

\* The last step of Submit, and of a submission whose release failed
SubmitEnqueue(j) ==
    /\ SubmitAt(j, "enqueue", "done")
    /\ TryEnqueue(j)
    /\ UNCHANGED <<holdVars, rowVars, provider>>

\* releaseFailedSubmitHold: a failed release is recorded and retried by a worker.
ReleaseFailedSubmitHold(j) ==
    /\ UNCHANGED <<rowVars, provider, queueVars, dropped>>
    /\ \E at \in {"release", "releaseOnly"} :
          \/ /\ SubmitAt(j, at, IF at = "release" THEN "record" ELSE "done")
             /\ Release(j)
             /\ NoFault
          \/ /\ SubmitAt(j, at, "recordUnreleased")
             /\ FailsUnless(CanRelease(j))
             /\ UNCHANGED holdVars

\* RecordBatchImageJobSubmitFailure writes failed over whatever status it finds;
\* its error is ignored.
RecordSubmitFailure(j) ==
    /\ \/ SubmitAt(j, "record", "done")
       \/ SubmitAt(j, "recordUnreleased", "enqueue")
    /\ \/ SetStatus(j, "failed") /\ NoFault
       \/ UNCHANGED rowVars /\ Fault
    /\ UNCHANGED <<holdVars, provider, queueVars, dropped>>

\* The client repeats Submit with its idempotency key.
Resubmit(j) ==
    /\ submit[j] = "done"
    /\ status[j] = "submitted"
    /\ TryEnqueue(j)
    /\ UNCHANGED <<holdVars, rowVars, provider, callVars, crashes>>

\* The process stops in the middle of Submit.
CrashSubmit(j) ==
    /\ submit[j] \notin {"create", "done"}
    /\ crashes < MaxCrashes
    /\ crashes' = crashes + 1
    /\ submit' = [submit EXCEPT ![j] = "done"]
    /\ dropped' = [dropped EXCEPT ![j] = @ \/ submit[j] \in {"recordUnreleased", "enqueue"}]
    /\ UNCHANGED <<holdVars, rowVars, provider, cancel, sweep, work, queueVars, faults>>

Submit(j) ==
    \/ CreateBatchImageJob(j) \/ SubmitReserve(j) \/ SubmitItems(j)
    \/ SubmitUpload(j) \/ SubmitProvider(j)
    \/ UpdateBatchImageJobProviderSubmit(j) \/ AbortOrphanProviderJob(j)
    \/ SubmitEnqueue(j) \/ ReleaseFailedSubmitHold(j) \/ RecordSubmitFailure(j)

-----------------------------------------------------------------------------
(* Cancel *)

CancelAt(j, at, to) ==
    /\ cancel[j] = at
    /\ cancel' = [cancel EXCEPT ![j] = to]
    /\ UNCHANGED <<submit, sweep, work, crashes>>

\* The owner's call reads the row and decides by what it read.
CancelRead(j) ==
    /\ \/ status[j] \in {"failed", "cancelled"} /\ CancelAt(j, "idle", "release")
       \/ status[j] \in Live \ {"settling"} /\ named[j] /\ CancelAt(j, "idle", "provider")
       \/ status[j] \in Live \ {"settling"} /\ ~named[j] /\ CancelAt(j, "idle", "transition")
    /\ NoFault
    /\ UNCHANGED <<holdVars, rowVars, provider, queueVars, dropped>>

CancelProvider(j) ==
    /\ \/ CancelAt(j, "provider", "enqueue") /\ ProviderCancel(j) /\ NoFault
       \/ CancelAt(j, "provider", "idle") /\ UNCHANGED provider /\ Fault
    /\ UNCHANGED <<holdVars, rowVars, queueVars, dropped>>

CancelTransition(j) ==
    /\ \/ CancelAt(j, "transition", "release") /\ Transition(j, "cancelled")
       \/ /\ CancelAt(j, "transition", "idle")
          /\ ~CanTransition(status[j], "cancelled")
          /\ UNCHANGED rowVars
    /\ NoFault
    /\ UNCHANGED <<holdVars, provider, queueVars, dropped>>

CancelRelease(j) ==
    /\ \/ CancelAt(j, "release", "idle") /\ Release(j) /\ NoFault
       \/ /\ CancelAt(j, "release", "enqueue")
          /\ FailsUnless(CanRelease(j))
          /\ UNCHANGED holdVars
    /\ UNCHANGED <<rowVars, provider, queueVars, dropped>>

CancelEnqueue(j) ==
    /\ CancelAt(j, "enqueue", "idle")
    /\ TryEnqueue(j)
    /\ UNCHANGED <<holdVars, rowVars, provider>>

\* The process stops in the middle of Cancel.
CrashCancel(j) ==
    /\ cancel[j] # "idle"
    /\ crashes < MaxCrashes
    /\ crashes' = crashes + 1
    /\ cancel' = [cancel EXCEPT ![j] = "idle"]
    /\ dropped' = [dropped EXCEPT ![j] = @ \/ cancel[j] \in {"release", "enqueue"}]
    /\ UNCHANGED <<holdVars, rowVars, provider, submit, sweep, work, queueVars, faults>>

Cancel(j) ==
    \/ CancelProvider(j) \/ CancelTransition(j)
    \/ CancelRelease(j) \/ CancelEnqueue(j)

-----------------------------------------------------------------------------
(* The sweep over stale submissions *)

SweepAt(j, at, to) ==
    /\ sweep[j] = at
    /\ sweep' = [sweep EXCEPT ![j] = to]
    /\ UNCHANGED <<submit, cancel, work, crashes>>

\* Nothing has renewed updated_at for StaleAfter.
Age(j) ==
    /\ status[j] \in Unsubmitted
    /\ age[j] = "fresh"
    /\ age' = [age EXCEPT ![j] = "stale"]
    /\ UNCHANGED <<holdVars, status, named, cost, retry, provider, callVars,
                   queueVars, faultVars, dropped>>

\* What both statements of the sweep ask of the row
StaleUnsubmitted(j) ==
    /\ age[j] = "stale"
    /\ status[j] \in Unsubmitted
    /\ ~named[j]

\* ListStaleUnsubmittedBatchImageJobs
ListStale(j) ==
    /\ SweepAt(j, "idle", "listed")
    /\ StaleUnsubmitted(j)
    /\ NoFault
    /\ UNCHANGED <<holdVars, rowVars, provider, queueVars, dropped>>

\* Mutant: the sweep fails what it listed without comparing again.
FailListed(j) ==
    /\ SweepAt(j, "listed", "release")
    /\ SetStatus(j, "failed")
    /\ NoFault
    /\ UNCHANGED <<holdVars, provider, queueVars, dropped>>

\* FailStaleUnsubmittedBatchImageJob compares again what the listing found: the
\* row may have been renewed or submitted in between.
FailStaleUnsubmitted(j) ==
    /\ \/ /\ SweepAt(j, "listed", "release")
          /\ StaleUnsubmitted(j)
          /\ SetStatus(j, "failed")
          /\ NoFault
       \/ /\ SweepAt(j, "listed", "idle")
          /\ FailsUnless(StaleUnsubmitted(j))
          /\ UNCHANGED rowVars
    /\ UNCHANGED <<holdVars, provider, queueVars, dropped>>

\* Mutant: a failed release is not put in the queue.
SweepReleaseOnce(j) ==
    /\ \/ SweepAt(j, "release", "idle") /\ Release(j) /\ NoFault
       \/ /\ SweepAt(j, "release", "idle")
          /\ FailsUnless(CanRelease(j))
          /\ UNCHANGED holdVars
    /\ UNCHANGED <<rowVars, provider, queueVars, dropped>>

SweepRelease(j) ==
    /\ \/ SweepAt(j, "release", "idle") /\ Release(j) /\ NoFault
       \/ /\ SweepAt(j, "release", "enqueue")
          /\ FailsUnless(CanRelease(j))
          /\ UNCHANGED holdVars
    /\ UNCHANGED <<rowVars, provider, queueVars, dropped>>

\* enqueueReleaseRetry
SweepEnqueue(j) ==
    /\ SweepAt(j, "enqueue", "idle")
    /\ TryEnqueue(j)
    /\ UNCHANGED <<holdVars, rowVars, provider>>

\* The process stops; after the update nobody lists the row again.
CrashSweep(j) ==
    /\ sweep[j] # "idle"
    /\ crashes < MaxCrashes
    /\ crashes' = crashes + 1
    /\ sweep' = [sweep EXCEPT ![j] = "idle"]
    /\ dropped' = [dropped EXCEPT ![j] = @ \/ sweep[j] # "listed"]
    /\ UNCHANGED <<holdVars, rowVars, provider, submit, cancel, work, queueVars, faults>>

Sweep(j) ==
    \/ ListStale(j) \/ FailStaleUnsubmitted(j)
    \/ SweepRelease(j) \/ SweepEnqueue(j)

-----------------------------------------------------------------------------
(* The workers' pipeline *)

WorkAt(w, at, to) ==
    /\ work[w] = at
    /\ work' = [work EXCEPT ![w] = to]
    /\ UNCHANGED <<submit, cancel, sweep, crashes, dropped, provider>>

\* A step that touches neither the row, nor the money, nor the queue
OnlyWork == UNCHANGED <<holdVars, rowVars, queueVars>>

Reserved(w, j) ==
    /\ WorkAt(w, "idle", "read")
    /\ Queue!Deliver(w, j)
    /\ lapsed' = [lapsed EXCEPT ![j] = @ \/ \E v \in Workers : holding[v] = j]
    /\ NoFault
    /\ UNCHANGED <<holdVars, rowVars>>

\* BatchImagePipelineProcessor.Process chooses between settlement and provider.
PipelineRead(w, j) ==
    /\ WorkAt(w, "read", IF status[j] = "settling" THEN "settle" ELSE "process")
    /\ NoFault
    /\ OnlyWork

\* BatchImageProviderProcessor.Process reads the row again; a job that has
\* started to settle in between is done for it.
ProcessRead(w, j) ==
    /\ WorkAt(w, "process",
          CASE status[j] \in {"failed", "cancelled"} -> "release"
            [] status[j] \in {"settling", "completed", "output_deleted"} -> "ack"
            [] ~named[j] -> "requeue"
            [] status[j] = "indexing" -> "index"
            [] OTHER -> "get")
    /\ NoFault
    /\ OnlyWork

\* provider.Get
GetProviderStatus(w, j) ==
    /\ WorkAt(w, "get",
          CASE provider[j] = "running" -> "toRunning"
            [] provider[j] = "succeeded" -> "toIndexing"
            [] provider[j] = "failed" -> "toFailed"
            [] provider[j] = "cancelled" -> "toCancelled")
    /\ NoFault
    /\ OnlyWork

\* The transition the provider's or the indexer's answer asks for, and what
\* follows it; a refused transition is an error and the job is tried again.
ProcessTransition(w, j) ==
    /\ \E t \in {<<"toRunning", "running", "requeue">>,
                 <<"toIndexing", "indexing", "index">>,
                 <<"toFailed", "failed", "release">>,
                 <<"toCancelled", "cancelled", "release">>,
                 <<"toSettling", "settling", "requeue">>} :
          \/ WorkAt(w, t[1], t[3]) /\ Transition(j, t[2])
          \/ /\ WorkAt(w, t[1], "requeue")
             /\ ~CanTransition(status[j], t[2])
             /\ UNCHANGED rowVars
    /\ NoFault
    /\ UNCHANGED <<holdVars, queueVars>>

\* Mutant: the items are replaced whatever the job's status.
ReplaceAlways(j) == TRUE

\* The items are replaced only while the job is indexing.
ReplaceAllowed(j) == status[j] = "indexing"

\* BatchImageResultIndexer.Index reads the provider's output and replaces the
\* items; a read that breaks off fails the job.
Index(w, j) ==
    /\ \/ /\ WorkAt(w, "index", "toSettling")
          /\ ReplaceAllowed(j)
          /\ \E c \in Costs : cost' = [cost EXCEPT ![j] = c]
          /\ UNCHANGED <<status, named, retry, age>>
       \/ WorkAt(w, "index", "requeue") /\ ~ReplaceAllowed(j) /\ UNCHANGED rowVars
       \/ WorkAt(w, "index", "toFailed") /\ UNCHANGED rowVars
    /\ NoFault
    /\ UNCHANGED <<holdVars, queueVars>>

\* Mutant: a failed release of a finished job is acknowledged.
ReleaseTerminalHoldOnce(w, j) ==
    /\ \/ WorkAt(w, "release", "ack") /\ Release(j) /\ NoFault
       \/ /\ WorkAt(w, "release", "ack")
          /\ FailsUnless(CanRelease(j))
          /\ UNCHANGED holdVars
    /\ UNCHANGED <<rowVars, queueVars>>

\* releaseTerminalHold
ReleaseTerminalHold(w, j) ==
    /\ \/ WorkAt(w, "release", "ack") /\ Release(j) /\ NoFault
       \/ /\ WorkAt(w, "release", "requeue")
          /\ FailsUnless(CanRelease(j))
          /\ UNCHANGED holdVars
    /\ UNCHANGED <<rowVars, queueVars>>

\* Mutant: the settlement is given up one attempt early.
SettleReadEarly(w, j) ==
    /\ WorkAt(w, "settle",
          CASE status[j] = "completed" -> "ack"
            [] status[j] # "settling" -> "requeue"
            [] retry[j] + 1 >= MaxRetries -> "exhaust"
            [] cost[j] > Hold -> "settlementFailed"
            [] OTHER -> "capture")
    /\ NoFault
    /\ OnlyWork

\* Settle reads the row again before it moves money.
SettleRead(w, j) ==
    /\ WorkAt(w, "settle",
          CASE status[j] = "completed" -> "ack"
            [] status[j] # "settling" -> "requeue"
            [] retry[j] >= MaxRetries -> "exhaust"
            [] cost[j] > Hold -> "settlementFailed"
            [] OTHER -> "capture")
    /\ NoFault
    /\ OnlyWork

SettleCapture(w, j) ==
    /\ \/ WorkAt(w, "capture", "mark") /\ Capture(j, cost[j]) /\ NoFault
       \/ /\ WorkAt(w, "capture", "settlementFailed")
          /\ FailsUnless(CanCapture(j, cost[j]))
          /\ UNCHANGED holdVars
    /\ UNCHANGED <<rowVars, queueVars>>

MarkBatchImageJobSettled(w, j) ==
    /\ \/ /\ WorkAt(w, "mark", "ack")
          /\ status[j] = "settling"
          /\ SetStatus(j, "completed")
       \/ WorkAt(w, "mark", "requeue") /\ status[j] # "settling" /\ UNCHANGED rowVars
    /\ NoFault
    /\ UNCHANGED <<holdVars, queueVars>>

\* SetBatchImageJobSettlementFailed counts the attempt, whatever the status.
CountFailure(j) ==
    /\ retry' = [retry EXCEPT ![j] = IF @ < MaxRetries THEN @ + 1 ELSE @]
    /\ age' = [age EXCEPT ![j] = "fresh"]
    /\ UNCHANGED <<status, named, cost>>

\* recordSettlementFailure; when only its audit event fails the attempt is
\* counted and the call returns as if it were not.
RecordSettlementFailure(w, j) ==
    /\ CountFailure(j)
    /\ \/ /\ WorkAt(w, "settlementFailed",
                    IF retry'[j] >= MaxRetries THEN "exhaust" ELSE "requeue")
          /\ NoFault
       \/ WorkAt(w, "settlementFailed", "requeue") /\ Fault
    /\ UNCHANGED <<holdVars, queueVars>>

\* failExhaustedSettlement: release, then failed
FailExhaustedRelease(w, j) ==
    /\ \/ WorkAt(w, "exhaust", "toExhausted") /\ Release(j) /\ NoFault /\ UNCHANGED rowVars
       \/ /\ WorkAt(w, "exhaust", "requeue")
          /\ FailsUnless(CanRelease(j))
          /\ CountFailure(j)
          /\ UNCHANGED holdVars
    /\ UNCHANGED queueVars

FailExhaustedTransition(w, j) ==
    /\ \/ WorkAt(w, "toExhausted", "ack") /\ Transition(j, "failed")
       \/ /\ WorkAt(w, "toExhausted", "requeue")
          /\ ~CanTransition(status[j], "failed")
          /\ UNCHANGED rowVars
    /\ NoFault
    /\ UNCHANGED <<holdVars, queueVars>>

\* RunOnce: a terminal result is acknowledged, anything else is tried again.
WorkerAck(w, j) ==
    /\ WorkAt(w, "ack", "idle")
    /\ Queue!Ack(w)
    /\ NoFault
    /\ UNCHANGED <<holdVars, rowVars, lapsed>>

WorkerRequeue(w, j) ==
    /\ WorkAt(w, "requeue", "idle")
    /\ Queue!RequeueAfter(w)
    /\ NoFault
    /\ UNCHANGED <<holdVars, rowVars, lapsed>>

\* A call of the pipeline fails: the job is tried again.
WorkerError(w, j) ==
    /\ \E at \in {"read", "process", "get", "toRunning", "toIndexing", "toFailed",
                  "toCancelled", "toSettling", "index", "settle", "mark",
                  "settlementFailed", "toExhausted"} : WorkAt(w, at, "requeue")
    /\ Fault
    /\ OnlyWork

\* The worker's process stops; the queue will deliver the job again.
CrashWorker(w, j) ==
    /\ crashes < MaxCrashes
    /\ crashes' = crashes + 1
    /\ work' = [work EXCEPT ![w] = "idle"]
    /\ Queue!Drop(w)
    /\ UNCHANGED <<holdVars, rowVars, provider, submit, cancel, sweep, faults,
                   dropped, lapsed>>

Pipeline(w, j) ==
    /\ holding[w] = j
    /\ \/ PipelineRead(w, j) \/ ProcessRead(w, j) \/ GetProviderStatus(w, j)
       \/ ProcessTransition(w, j) \/ Index(w, j) \/ ReleaseTerminalHold(w, j)
       \/ SettleRead(w, j) \/ SettleCapture(w, j) \/ MarkBatchImageJobSettled(w, j)
       \/ RecordSettlementFailure(w, j) \/ FailExhaustedRelease(w, j)
       \/ FailExhaustedTransition(w, j) \/ WorkerAck(w, j) \/ WorkerRequeue(w, j)
       \/ WorkerError(w, j)

-----------------------------------------------------------------------------
(* The environment *)

ProviderFinishes(j) ==
    /\ provider[j] = "running"
    /\ \E s \in {"succeeded", "failed"} : provider' = [provider EXCEPT ![j] = s]
    /\ UNCHANGED <<holdVars, rowVars, callVars, queueVars, faultVars, dropped>>

\* MarkBatchImageOutputDeleted, by the owner or when the outputs expire
CleanupOutput(j) ==
    /\ status[j] = "completed"
    /\ SetStatus(j, "output_deleted")
    /\ UNCHANGED <<holdVars, provider, callVars, queueVars, faultVars, dropped>>

Next ==
    \/ \E j \in Jobs :
          \/ Submit(j) \/ TouchBatchImageJobSubmitting(j) \/ Resubmit(j) \/ CrashSubmit(j)
          \/ CancelRead(j) \/ Cancel(j) \/ CrashCancel(j)
          \/ Age(j) \/ Sweep(j) \/ CrashSweep(j)
          \/ ProviderFinishes(j) \/ CleanupOutput(j)
    \/ \E w \in Workers, j \in Jobs :
          \/ Reserved(w, j)
          \/ Pipeline(w, j)
          \/ holding[w] = j /\ CrashWorker(w, j)

Spec == Init /\ [][Next]_vars

\* Requests in progress, the sweep and the workers keep running, time passes
\* and the provider finishes what it started. Nobody has to cancel or to retry.
Fairness ==
    /\ \A j \in Jobs :
          /\ WF_vars(Submit(j)) /\ WF_vars(Cancel(j))
          /\ WF_vars(Age(j)) /\ WF_vars(Sweep(j))
          /\ WF_vars(ProviderFinishes(j))
    /\ \A w \in Workers, j \in Jobs :
          WF_vars(Reserved(w, j)) /\ WF_vars(Pipeline(w, j))

FairSpec == Spec /\ Fairness

-----------------------------------------------------------------------------
SubmitSteps == {"create", "reserve", "items", "upload", "provider", "name", "abort",
                "enqueue", "release", "releaseOnly", "record",
                "recordUnreleased", "done"}
CancelSteps == {"idle", "provider", "transition", "release", "enqueue"}
WorkSteps == {"idle", "read", "process", "get", "toRunning", "toIndexing", "toFailed",
              "toCancelled", "toSettling", "index", "release", "settle", "capture",
              "mark", "settlementFailed", "exhaust", "toExhausted", "ack", "requeue"}

\* The variables have the values the code can give them.
TypeOK ==
    /\ HoldsTypeOK
    /\ status \in [Jobs -> Live \cup Terminal \cup {"none"}]
    /\ named \in [Jobs -> BOOLEAN]
    /\ cost \in [Jobs -> Costs \cup {0}]
    /\ retry \in [Jobs -> 0..MaxRetries]
    /\ age \in [Jobs -> {"fresh", "stale"}]
    /\ provider \in [Jobs -> {"none", "running", "succeeded", "failed", "cancelled"}]
    /\ submit \in [Jobs -> SubmitSteps]
    /\ cancel \in [Jobs -> CancelSteps]
    /\ sweep \in [Jobs -> {"idle", "listed", "release", "enqueue"}]
    /\ work \in [Workers -> WorkSteps]
    /\ pending \subseteq Jobs
    /\ holding \in [Workers -> Jobs \cup {NoJob}]
    /\ \A w \in Workers : holding[w] = NoJob <=> work[w] = "idle"
    /\ faults \in 0..MaxFaults
    /\ crashes \in 0..MaxCrashes
    /\ dropped \in [Jobs -> BOOLEAN]
    /\ lapsed \in [Jobs -> BOOLEAN]

\* No batch's capture or release is paid from what is frozen for another one:
\* whatever fails or is repeated, the frozen balance covers the other batches
\* and every hold still outstanding, except for a job whose settlement was
\* given up, and refunded, after its capture had been committed.
FrozenCoversHolds ==
    LET both == {j \in Jobs : {"capture", "release"} \subseteq moves[j]}
        outstanding == {j \in Jobs : Outstanding(j)}
    IN  frozen + Hold * Cardinality(both)
            >= OtherFrozen + Hold * Cardinality(outstanding)

\* A job is completed only with its hold captured, and at the cost of the items
\* it has: no worker that lost its lock rewrites the items of a settled job.
CompletedIsCharged ==
    \A j \in Jobs :
        status[j] \in {"completed", "output_deleted"} =>
            "capture" \in moves[j] /\ charged[j] = cost[j]

\* The sweep never fails a job that reached the provider: a failed job is not
\* being worked on upstream under its own name.
FailedIsNotRunning ==
    \A j \in Jobs : status[j] = "failed" /\ named[j] => provider[j] # "running"

\* Nothing will look at the job again.
NoOneActs(j) ==
    /\ submit[j] = "done" /\ cancel[j] = "idle" /\ sweep[j] = "idle"
    /\ status[j] \notin Unsubmitted
    /\ j \notin pending
    /\ \A w \in Workers : holding[w] # j

\* A frozen balance is out of everybody's sight: its release was claimed before
\* it was reserved, the queue refused the job's last enqueue or the process died
\* before it, or a second worker acknowledged the job while it was settling, for
\* another one or, a third worker having failed it meanwhile, for nobody.
OutOfSight(j) ==
    \/ Phantom(j)
    \/ dropped[j]
    \/ lapsed[j] /\ status[j] \in {"settling", "failed"}

\* A hold is forgotten in those cases only: after any other crash, failure or
\* race some queue entry, sweep or request in progress still leads to it.
HoldIsRemembered ==
    \A j \in Jobs : Outstanding(j) /\ NoOneActs(j) => OutOfSight(j)

\* While the job lock holds, a job that has been charged is refunded only when
\* its settlement is given up after MaxRetries failures.
RefundedAfterChargeIsGivenUp ==
    \A j \in Jobs :
        {"capture", "release"} \subseteq moves[j] => retry[j] = MaxRetries \/ lapsed[j]

\* No step brings a finished job back, and a completed one is never failed or
\* cancelled afterwards.
FinishedStaysFinished ==
    [][\A j \in Jobs :
          /\ status[j] \in Terminal => status'[j] \in Terminal
          /\ status[j] = "completed" => status'[j] \in {"completed", "output_deleted"}]_vars

\* A frozen balance is kept or given back in the end, unless it is out of sight.
HoldIsSettled ==
    \A j \in Jobs : Outstanding(j) ~> ~Outstanding(j) \/ OutOfSight(j)
=============================================================================
