------------------------- MODULE SchedulerSnapshot -------------------------
(***************************************************************************)
(* The scheduler's snapshot of one group with one account, from the        *)
(* billing transaction that exhausts the account's quota to the cached     *)
(* copy the gateway schedules by (service/scheduler_snapshot_service.go).  *)
(* Pollers consume the outbox, rebuilders rebuild everything at an         *)
(* interval, readers that miss the cache publish what they load. Each call *)
(* to the database or to Redis is one action; a process may stop between   *)
(* any two, and a lock or a lease may run out under a live owner.          *)
(***************************************************************************)
EXTENDS UsageBilling, SchedulerOutbox, SchedulerBucket, FiniteSets

CONSTANTS
    Pollers,        \* runOutboxWorker loops, one per instance
    Rebuilders,     \* runFullRebuildWorker loops
    Readers,        \* ListSchedulableAccounts calls
    MaxChanges,     \* bound: quota resets and changes of the group's status
    MaxFaults       \* bound: crashes, failing calls, lost enqueues, early TTLs

ASSUME SnapshotAssumption ==
    /\ NoProc \notin Pollers \cup Rebuilders \cup Readers
    /\ Pollers \cap Rebuilders = {}
    /\ (Pollers \cup Rebuilders) \cap Readers = {}
    /\ {MaxChanges, MaxFaults} \subseteq Nat

VARIABLES
    group,          \* the group's row is active
    admin,          \* the next call of a quota reset or a group change
    meta,           \* sched:meta of the account: "absent", "under" or "over"
    snapEpoch,      \* history: the epoch in which the active snapshot was loaded
    pc,             \* per process: its next call
    mem,            \* per process: what it remembers between calls
    excused,        \* history: a change of the group or its lease got lost
    changes, faults

procVars == <<pc, mem>>
countVars == <<excused, changes, faults>>
vars == <<usageVars, outboxVars, bucketVars, group, admin, meta, snapEpoch,
          procVars, countVars>>

Procs == Pollers \cup Rebuilders \cup Readers

\* token, data, loaded: of the snapshot being written; open: the group as read
\* in the lease; strict: busy and fenced are errors; batch, last, seen: the
\* events of a poll, the id of the last one, what the batch has rebuilt already.
NoMem == [token |-> 0, data |-> "absent", loaded |-> 0, open |-> FALSE,
          strict |-> FALSE, batch |-> <<>>, last |-> 0, seen |-> {}]

\* An empty cache and an active group; or a disabled group whose event a poller
\* was handling when it stopped, after it had retired the bucket.
Init ==
    /\ UsageInit
    /\ \E old \in BOOLEAN :
          /\ OutboxInit(old)
          /\ BucketInit(old)
          /\ group = ~old
    /\ admin = "idle"
    /\ meta = "absent"
    /\ snapEpoch = 0
    /\ pc = [p \in Procs |-> "idle"]
    /\ mem = [p \in Procs |-> NoMem]
    /\ excused = FALSE
    /\ changes = 0
    /\ faults = 0

\* What a query of the account finds
Current == IF Over THEN "over" ELSE "under"

-----------------------------------------------------------------------------
(* The database *)

Fault == faults < MaxFaults /\ faults' = faults + 1

cacheVars == <<bucketVars, meta, snapEpoch>>

\* Apply up to its last statement; the outbox row has its id but is not visible.
ApplyUsage(r, c) ==
    /\ LET insert == CrossesQuota(c) /\ ~Duplicate("account")
       IN  /\ BeginApply(r, c, IF insert THEN nextId ELSE 0)
           /\ nextId' = IF insert THEN nextId + 1 ELSE nextId
    /\ UNCHANGED <<rows, watermark, group, admin, countVars, cacheVars, procVars>>

CommitUsage ==
    /\ CommitApply
    /\ rows' = IF tx.row = 0 THEN rows ELSE WithRow(tx.row, "account")
    /\ UNCHANGED <<nextId, watermark, group, admin, countVars, cacheVars, procVars>>

RollbackUsage ==
    /\ Fault
    /\ UNCHANGED excused
    /\ RollbackApply
    /\ UNCHANGED <<outboxVars, group, admin, changes, cacheVars, procVars>>

\* Nothing is under way and every event has been consumed.
Quiet ==
    /\ \A p \in Procs : pc[p] = "idle"
    /\ admin = "idle"
    /\ tx = NoTx
    /\ After(watermark) = {}

\* The retention job of the dedup rows, which are a year old by then (365 days by
\* default): what went on when they were written is over.
ArchiveDedup(r) ==
    /\ Quiet
    /\ CleanupUsageBillingDedup(r)
    /\ UNCHANGED <<balance, keyUsed, keyStatus, used, tx, outboxVars, group, admin,
                   countVars, cacheVars, procVars>>

\* ResetQuotaUsedAndClearRateLimitCooldown updates the row, then enqueues, then
\* copies the account to the cache. The update waits for the row's lock.
ResetQuota ==
    /\ admin = "idle"
    /\ tx = NoTx
    /\ changes < MaxChanges
    /\ changes' = changes + 1
    /\ used' = 0
    /\ admin' = "enqueueAccount"
    /\ UNCHANGED <<dedupVars, balance, keyUsed, keyStatus, tx, outboxVars, group,
                   excused, faults, cacheVars, procVars>>

\* groupRepository.Update and Delete change the row, then enqueue.
ToggleGroup ==
    /\ admin = "idle"
    /\ changes < MaxChanges
    /\ changes' = changes + 1
    /\ group' = ~group
    /\ admin' = "enqueueGroup"
    /\ UNCHANGED <<usageVars, outboxVars, excused, faults, cacheVars,
                   procVars>>

\* An insert waits for an open transaction that has inserted the same key.
AdminEnqueue ==
    /\ \/ /\ admin = "enqueueAccount"
          /\ tx = NoTx
          /\ EnqueueOutbox("account")
          /\ admin' = "sync"
       \/ /\ admin = "enqueueGroup"
          /\ EnqueueOutbox("group")
          /\ admin' = "idle"
    /\ UNCHANGED <<usageVars, group, countVars, cacheVars, procVars>>

\* syncSchedulerAccountSnapshot reads the account and writes it to the cache.
AdminSync ==
    /\ \/ /\ admin = "sync"
          /\ admin' = Current
          /\ UNCHANGED meta
       \/ /\ admin \in {"under", "over"}
          /\ admin' = "idle"
          /\ meta' = admin
    /\ UNCHANGED <<usageVars, outboxVars, bucketVars, group, snapEpoch, procVars,
                   countVars>>

\* The process stops before the enqueue, or the enqueue fails and is logged.
AdminLosesEvent ==
    /\ admin \in {"enqueueAccount", "enqueueGroup"}
    /\ Fault
    /\ excused' = TRUE
    /\ admin' = "idle"
    /\ UNCHANGED <<usageVars, outboxVars, group, changes, cacheVars, procVars>>

-----------------------------------------------------------------------------
(* Steps of a process *)

dbVars == <<usageVars, group, admin, countVars>>

At(p, label) == pc[p] = label

Goto(p, label) == pc' = [pc EXCEPT ![p] = label]

Remember(p, m) == mem' = [mem EXCEPT ![p] = m]

\* The event has been handled, marks says what the batch need not do again; a
\* process that is not a poller is done.
Handled(p, marks) ==
    IF p \in Pollers
    THEN /\ Goto(p, "event")
         /\ Remember(p, [NoMem EXCEPT !.batch = Tail(mem[p].batch),
                                      !.last = mem[p].last,
                                      !.seen = mem[p].seen \cup marks])
    ELSE Goto(p, "idle") /\ Remember(p, NoMem)

\* An error: the poll or the rebuild is given up, the watermark stays.
Abort(p) == Goto(p, "idle") /\ Remember(p, NoMem)

\* CaptureBucketWriteToken by a reader that has missed the cache
ReadMiss(p) ==
    /\ p \in Readers
    /\ At(p, "idle")
    /\ ~active
    /\ ~retired
    /\ Goto(p, "load")
    /\ Remember(p, [NoMem EXCEPT !.token = epoch])
    /\ UNCHANGED <<dbVars, outboxVars, cacheVars>>

\* rebuildBuckets captures the token of a bucket and skips a retired one.
Capture(p) ==
    /\ At(p, "token")
    /\ IF retired
       THEN Handled(p, {})
       ELSE Goto(p, "lock") /\ Remember(p, [mem[p] EXCEPT !.token = epoch])
    /\ UNCHANGED <<dbVars, outboxVars, cacheVars>>

\* A busy bucket is skipped, or an error for the strict caller.
LockForRebuild(p) ==
    /\ At(p, "lock")
    /\ \/ /\ TryLockBucket(p)
          /\ Goto(p, "load")
          /\ UNCHANGED mem
       \/ /\ lock # NoProc
          /\ IF mem[p].strict THEN Abort(p) ELSE Handled(p, {})
          /\ UNCHANGED bucketVars
    /\ UNCHANGED <<dbVars, outboxVars, meta, snapEpoch>>

Load(p) ==
    /\ At(p, "load")
    /\ Goto(p, "write")
    /\ Remember(p, [mem[p] EXCEPT !.data = Current, !.loaded = epoch])
    /\ UNCHANGED <<dbVars, outboxVars, cacheVars>>

\* A fenced write is an error for the strict caller and ignored by the others.
Fenced(p) ==
    \/ p \in Readers /\ Goto(p, "idle") /\ Remember(p, NoMem)
    \/ p \notin Readers /\ mem[p].strict /\ Goto(p, "unlockAbort") /\ UNCHANGED mem
    \/ p \notin Readers /\ ~mem[p].strict /\ Goto(p, "unlock") /\ UNCHANGED mem

\* SetSnapshot: allocateSnapshotVersion, then the account and the set
WriteSnapshot(p) ==
    /\ At(p, "write")
    /\ IF MayWrite(mem[p].token)
       THEN /\ Goto(p, "activate")
            /\ meta' = mem[p].data
            /\ Remember(p, [mem[p] EXCEPT !.data = "absent"])
       ELSE Fenced(p) /\ UNCHANGED meta
    /\ UNCHANGED <<dbVars, outboxVars, bucketVars, snapEpoch>>

ActivateSnapshot(p) ==
    /\ At(p, "activate")
    /\ IF MayWrite(mem[p].token)
       THEN /\ Activate
            /\ snapEpoch' = mem[p].loaded
            /\ IF p \in Readers THEN Handled(p, {}) ELSE Goto(p, "unlock") /\ UNCHANGED mem
       ELSE Fenced(p) /\ UNCHANGED <<bucketVars, snapEpoch>>
    /\ UNCHANGED <<dbVars, outboxVars, meta>>

\* The deferred UnlockBucket, and the end of the rebuild
Unlock(p) ==
    /\ \/ At(p, "unlock") /\ Handled(p, IF mem[p].strict THEN {"lifecycle", "bucket"} ELSE {})
       \/ At(p, "unlockAbort") /\ Abort(p)
    /\ UnlockBucket
    /\ UNCHANGED <<dbVars, outboxVars, meta, snapEpoch>>

-----------------------------------------------------------------------------
(* prepareGroupLifecycle *)

\* handleGroupEvent, unless the batch has been through this group, and the full
\* rebuild's own way here
WantsLease(p) ==
    \/ At(p, "lease")
    \/ /\ At(p, "event")
       /\ mem[p].batch # <<>>
       /\ Head(mem[p].batch) = "group"
       /\ "lifecycle" \notin mem[p].seen

\* Mutant: a busy lease is taken for somebody else doing the work.
AcquireLeaseOrSkip(p) ==
    /\ WantsLease(p)
    /\ \/ /\ TryAcquireGroupLifecycleLease(p)
          /\ Goto(p, "readGroup")
          /\ UNCHANGED mem
       \/ /\ lease # NoProc
          /\ Handled(p, {})
          /\ UNCHANGED bucketVars
    /\ UNCHANGED <<dbVars, outboxVars, meta, snapEpoch>>

AcquireLease(p) ==
    /\ WantsLease(p)
    /\ \/ /\ TryAcquireGroupLifecycleLease(p)
          /\ Goto(p, "readGroup")
          /\ UNCHANGED mem
       \/ /\ lease # NoProc
          /\ Abort(p)
          /\ UNCHANGED bucketVars
    /\ UNCHANGED <<dbVars, outboxVars, meta, snapEpoch>>

ReadGroup(p) ==
    /\ At(p, "readGroup")
    /\ Goto(p, "decide")
    /\ Remember(p, [mem[p] EXCEPT !.open = group])
    /\ UNCHANGED <<dbVars, outboxVars, cacheVars>>

\* Reopening returns the token of the rebuild that follows.
Decide(p) ==
    /\ At(p, "decide")
    /\ Goto(p, "release")
    /\ IF mem[p].open
       THEN ReopenBucket /\ Remember(p, [mem[p] EXCEPT !.token = epoch])
       ELSE RetireBucket /\ UNCHANGED mem
    /\ snapEpoch' = IF active' THEN snapEpoch ELSE 0
    /\ UNCHANGED <<dbVars, outboxVars, meta>>

\* A lease that was lost meanwhile is an error.
ReleaseLease(p) ==
    /\ At(p, "release")
    /\ ReleaseGroupLifecycleLease(p)
    /\ CASE lease # p -> Abort(p)
         [] lease = p /\ mem[p].open ->
               Goto(p, "lock") /\ Remember(p, [mem[p] EXCEPT !.strict = TRUE])
         [] OTHER -> Handled(p, {"lifecycle", "bucket"})
    /\ UNCHANGED <<dbVars, outboxVars, meta, snapEpoch>>

-----------------------------------------------------------------------------
(* pollOutbox *)

Poll(p) ==
    /\ p \in Pollers
    /\ At(p, "idle")
    /\ After(watermark) # {}
    /\ ListAfterAndReleaseDedup
    /\ Goto(p, "event")
    /\ \E ids \in Listings :
          Remember(p, [NoMem EXCEPT !.batch = [i \in DOMAIN ids |-> rows[ids[i]].kind],
                                    !.last = Last(ids)])
    /\ UNCHANGED <<dbVars, cacheVars>>

\* handleAccountEvent: GetByID
HandleAccountEvent(p) ==
    /\ At(p, "event")
    /\ mem[p].batch # <<>>
    /\ Head(mem[p].batch) = "account"
    /\ Goto(p, "setAccount")
    /\ Remember(p, [mem[p] EXCEPT !.data = Current])
    /\ UNCHANGED <<dbVars, outboxVars, cacheVars>>

\* The bucket counts as rebuilt from here, whatever becomes of the rebuild.
SetAccount(p) ==
    /\ At(p, "setAccount")
    /\ meta' = mem[p].data
    /\ IF "bucket" \in mem[p].seen
       THEN Handled(p, {})
       ELSE /\ Goto(p, "token")
            /\ Remember(p, [mem[p] EXCEPT !.data = "absent", !.seen = @ \cup {"bucket"}])
    /\ UNCHANGED <<dbVars, outboxVars, bucketVars, snapEpoch>>

SkipGroupEvent(p) ==
    /\ At(p, "event")
    /\ mem[p].batch # <<>>
    /\ Head(mem[p].batch) = "group"
    /\ "lifecycle" \in mem[p].seen
    /\ Handled(p, {})
    /\ UNCHANGED <<dbVars, outboxVars, cacheVars>>

\* The watermark and, unless another instance has the advisory lock, the cleanup
AdvanceWatermark(p) ==
    /\ At(p, "event")
    /\ mem[p].batch = <<>>
    /\ SetOutboxWatermark(mem[p].last)
    /\ DeleteConsumedUpTo(mem[p].last)
    /\ Abort(p)
    /\ UNCHANGED <<dbVars, cacheVars, nextId>>

-----------------------------------------------------------------------------
(* rebuildFullSnapshot *)

\* The registered buckets, and then the active groups
ListBuckets(p) ==
    /\ p \in Rebuilders
    /\ At(p, "idle")
    /\ Goto(p, IF registered THEN "listRegistered" ELSE "listNone")
    /\ UNCHANGED <<dbVars, outboxVars, cacheVars, mem>>

ListActiveGroups(p) ==
    /\ At(p, "listRegistered") \/ At(p, "listNone")
    /\ Goto(p, CASE group -> "capture"
                 [] ~group /\ At(p, "listRegistered") -> "lease"
                 [] OTHER -> "idle")
    /\ UNCHANGED <<dbVars, outboxVars, cacheVars, mem>>

\* Mutant: a retired bucket is left to the group's next event.
CaptureOrSkip(p) ==
    /\ At(p, "capture")
    /\ IF retired
       THEN Goto(p, "idle") /\ UNCHANGED mem
       ELSE Goto(p, "lock") /\ Remember(p, [mem[p] EXCEPT !.token = epoch])
    /\ UNCHANGED <<dbVars, outboxVars, cacheVars>>

\* An active group whose bucket is retired goes through its lifecycle.
CaptureCanonical(p) ==
    /\ At(p, "capture")
    /\ IF retired
       THEN Goto(p, "lease") /\ UNCHANGED mem
       ELSE Goto(p, "lock") /\ Remember(p, [mem[p] EXCEPT !.token = epoch])
    /\ UNCHANGED <<dbVars, outboxVars, cacheVars>>

-----------------------------------------------------------------------------
(* Faults *)

HasLock(p) == p \notin Readers
              /\ pc[p] \in {"load", "write", "activate", "unlock", "unlockAbort"}
HasLease(p) == pc[p] \in {"readGroup", "decide", "release"}

\* The process stops; what it has locked stays locked.
Crash(p) ==
    /\ ~At(p, "idle")
    /\ Fault
    /\ UNCHANGED excused
    /\ Abort(p)
    /\ UNCHANGED <<usageVars, outboxVars, bucketVars, group, admin, meta, snapEpoch, changes>>

\* A call fails: the deferred unlock and release still run.
CallFails(p) ==
    /\ ~At(p, "idle")
    /\ ~At(p, "unlockAbort")
    /\ Fault
    /\ UNCHANGED excused
    /\ Abort(p)
    /\ lock' = IF HasLock(p) THEN NoProc ELSE lock
    /\ lease' = IF HasLease(p) /\ lease = p THEN NoProc ELSE lease
    /\ UNCHANGED <<usageVars, outboxVars, epoch, retired, active, registered, group,
                   admin, meta, snapEpoch, changes>>

\* A TTL runs out: of an owner that is gone, or of one that is slow.
Lapse(live) == IF live THEN Fault ELSE UNCHANGED faults

LockExpires ==
    /\ lock # NoProc
    /\ Lapse(HasLock(lock))
    /\ UNCHANGED excused
    /\ UnlockBucket
    /\ UNCHANGED <<usageVars, outboxVars, group, admin, meta, snapEpoch, procVars, changes>>

LeaseExpires ==
    /\ lease # NoProc
    /\ Lapse(HasLease(lease))
    /\ excused' = (excused \/ HasLease(lease))
    /\ ReleaseGroupLifecycleLease(lease)
    /\ UNCHANGED <<usageVars, outboxVars, group, admin, meta, snapEpoch, procVars, changes>>

-----------------------------------------------------------------------------
\* A step of a process once it has begun
Proceed(p) ==
    \/ Capture(p)
    \/ LockForRebuild(p)
    \/ Load(p)
    \/ WriteSnapshot(p)
    \/ ActivateSnapshot(p)
    \/ Unlock(p)
    \/ AcquireLease(p)
    \/ ReadGroup(p)
    \/ Decide(p)
    \/ ReleaseLease(p)
    \/ HandleAccountEvent(p)
    \/ SetAccount(p)
    \/ SkipGroupEvent(p)
    \/ AdvanceWatermark(p)
    \/ ListActiveGroups(p)
    \/ CaptureCanonical(p)

Next ==
    \/ \E r \in Requests, c \in Costs : ApplyUsage(r, c)
    \/ CommitUsage
    \/ RollbackUsage
    \/ \E r \in Requests : ArchiveDedup(r)
    \/ ResetQuota
    \/ ToggleGroup
    \/ AdminEnqueue
    \/ AdminSync
    \/ AdminLosesEvent
    \/ \E p \in Procs :
          \/ ReadMiss(p)
          \/ Poll(p)
          \/ ListBuckets(p)
          \/ Proceed(p)
          \/ Crash(p)
          \/ CallFails(p)
    \/ LockExpires
    \/ LeaseExpires

Spec == Init /\ [][Next]_vars

\* Both loops run on timers, a call returns, a transaction ends, a TTL runs
\* out. Nothing says that a gateway request arrives.
Fairness ==
    /\ \A p \in Procs : WF_vars(Poll(p) \/ ListBuckets(p) \/ Proceed(p))
    /\ WF_vars(CommitUsage)
    /\ WF_vars(AdminEnqueue \/ AdminSync)
    /\ WF_vars(LockExpires)
    /\ WF_vars(LeaseExpires)

FairSpec == Spec /\ Fairness

-----------------------------------------------------------------------------
\* The variables have the values the code can give them; no process remembers an
\* epoch or an event that does not exist yet.
TypeOK ==
    /\ UsageTypeOK
    /\ OutboxTypeOK
    /\ group \in BOOLEAN
    /\ admin \in {"idle", "enqueueAccount", "enqueueGroup", "sync", "under", "over"}
    /\ meta \in {"absent", "under", "over"}
    /\ snapEpoch \in 0..epoch
    /\ {lock, lease} \subseteq Procs \cup {NoProc}
    /\ \A p \in Procs :
          /\ mem[p].token \in 0..epoch
          /\ mem[p].last \in 0..(nextId - 1)
          /\ ToSet(mem[p].batch) \subseteq Kinds

\* Each claimed request has been charged exactly once, to the balance and to the
\* key, however often it is sent again and wherever its dedup row is by now; and a
\* key that has used up its quota is no longer active (the gateway checks the
\* status, not the sum, on its hot path).
ChargedOnce ==
    /\ balance = StartBalance - Charged
    /\ keyUsed = Charged
    /\ keyStatus = "quota_exhausted" <=> keyUsed >= KeyQuota

\* A snapshot that is being served belongs to a bucket that is open and was
\* loaded after the bucket's last retirement: a writer that loaded the group
\* before it was disabled cannot bring it back when it is enabled again.
SnapshotIsFenced == active => ~retired /\ snapEpoch = epoch

\* When every event has been consumed and nobody is at work, the bucket is
\* retired if and only if the group is disabled, provided that no enqueue was
\* lost and no lease ran out under its owner. Crashes, failed calls and busy
\* leases do not matter: the watermark stays behind the event.
ConsumedMeansReconciled == Quiet /\ ~excused => (retired <=> ~group)

\* Whatever was lost, overtaken or skipped, the periodic full rebuild ends with
\* the cache serving what the database says.
Converges == <>[](IF group THEN active /\ meta = Current ELSE ~active)
=============================================================================
