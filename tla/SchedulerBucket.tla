-------------------------- MODULE SchedulerBucket --------------------------
(***************************************************************************)
(* One bucket of the scheduler's snapshot cache in Redis                   *)
(* (repository/scheduler_cache.go): the epoch and the tombstone that fence *)
(* writers, the active snapshot, the rebuild lock and the group's          *)
(* lifecycle lease. A Lua script is one action. With one account every     *)
(* version of the snapshot has the same members and what is known of the   *)
(* account lives outside of it, so that an older version is dropped for a  *)
(* newer one cannot be seen and versions are left out.                     *)
(***************************************************************************)
EXTENDS Naturals

CONSTANT NoProc     \* the lock or the lease is free

VARIABLES
    epoch,          \* sched:epoch
    retired,        \* sched:retired exists
    active,         \* sched:active and sched:ready exist
    registered,     \* the bucket is a member of sched:buckets
    lock,           \* sched:lock: who set it
    lease           \* sched:group:lifecycle-lock: whose token it holds

bucketVars == <<epoch, retired, active, registered, lock, lease>>

\* A bucket that has never been written, or one that has been retired
BucketInit(old) ==
    /\ retired = old
    /\ epoch = IF old THEN 2 ELSE 1
    /\ active = FALSE
    /\ registered = FALSE
    /\ lock = NoProc
    /\ lease = NoProc

\* Mutant: only the tombstone is looked at.
NotRetired(token) == ~retired

\* Capture, allocate and activate refuse a retired bucket and an older epoch.
MayWrite(token) == ~retired /\ token = epoch

\* activateSnapshotVersion
Activate ==
    /\ active' = TRUE
    /\ registered' = TRUE
    /\ UNCHANGED <<epoch, retired, lock, lease>>

\* Only the first of several retirements starts a new epoch.
RetireBucket ==
    /\ epoch' = IF retired THEN epoch ELSE epoch + 1
    /\ retired' = TRUE
    /\ active' = FALSE
    /\ registered' = FALSE
    /\ UNCHANGED <<lock, lease>>

\* Reopening keeps the epoch of the retirement and is a no-op on an open bucket.
ReopenBucket ==
    /\ retired' = FALSE
    /\ active' = (active /\ ~retired)
    /\ registered' = (registered /\ ~retired)
    /\ UNCHANGED <<epoch, lock, lease>>

TryLockBucket(p) ==
    /\ lock = NoProc
    /\ lock' = p
    /\ UNCHANGED <<epoch, retired, active, registered, lease>>

\* UnlockBucket deletes the key whoever set it.
UnlockBucket ==
    /\ lock' = NoProc
    /\ UNCHANGED <<epoch, retired, active, registered, lease>>

TryAcquireGroupLifecycleLease(p) ==
    /\ lease = NoProc
    /\ lease' = p
    /\ UNCHANGED <<epoch, retired, active, registered, lock>>

\* Compares the token; a lease that is no longer the caller's is an error.
ReleaseGroupLifecycleLease(p) ==
    /\ lease' = IF lease = p THEN NoProc ELSE lease
    /\ UNCHANGED <<epoch, retired, active, registered, lock>>
=============================================================================
