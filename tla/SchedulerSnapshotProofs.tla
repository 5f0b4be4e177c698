---------------------- MODULE SchedulerSnapshotProofs ----------------------
(***************************************************************************)
(* Proofs about SchedulerSnapshot, and the usage billing and bucket cache   *)
(* it is composed of, for any number of requests, pollers, rebuilders and  *)
(* readers, any costs and quotas, and any number of changes and faults.    *)
(***************************************************************************)
EXTENDS SchedulerSnapshot, FiniteSetTheorems, TLAPS

-----------------------------------------------------------------------------
(* The fence: epochs, tokens and the load in between                       *)

MemFields == {"token", "data", "loaded", "open", "strict", "batch", "last", "seen"}

\* What a process at a label may remember while the bucket is in epoch e: its token
\* and its load are of epochs that have been, and what it writes was loaded
\* after it took the token.
MemOK(label, m, e) ==
    /\ DOMAIN m = MemFields
    /\ m.token \in 0..e
    /\ m.loaded \in 0..e
    /\ label \in {"write", "activate"} => m.token <= m.loaded

ProcInv ==
    /\ pc = [p \in Procs |-> pc[p]]
    /\ DOMAIN mem = Procs
    /\ mem = [p \in Procs |-> mem[p]]
    /\ \A p \in Procs : MemOK(pc[p], mem[p], epoch)

BucketInv == epoch \in Nat /\ SnapshotIsFenced

\* SnapshotIsFenced alone is not inductive: that the activated snapshot was loaded
\* in the present epoch follows from the writer's token, which is compared, being
\* older than its load, which is not.
FenceInv == BucketInv /\ ProcInv

LEMMA NoMemOK ==
    ASSUME NEW label, NEW e \in Nat
    PROVE  MemOK(label, NoMem, e)
BY DEF MemOK, NoMem, MemFields

LEMMA MemOKLater ==
    ASSUME NEW label, NEW m, NEW e \in Nat, NEW f \in Nat, e <= f, MemOK(label, m, e)
    PROVE  MemOK(label, m, f)
BY DEF MemOK

\* A process moves on with a memory that suits its label and the epoch.
LEMMA MoveOn ==
    ASSUME FenceInv, NEW p \in Procs, NEW label, NEW m,
           epoch' \in Nat, epoch <= epoch',
           Goto(p, label), Remember(p, m), MemOK(label, m, epoch')
    PROVE  ProcInv'
<1>1. pc' = [q \in Procs |-> pc'[q]]
  BY DEF FenceInv, ProcInv, Goto
<1>2. DOMAIN mem' = Procs /\ mem' = [q \in Procs |-> mem'[q]]
  BY DEF FenceInv, ProcInv, Remember
<1>3. ASSUME NEW q \in Procs PROVE MemOK(pc'[q], mem'[q], epoch')
  <2>1. CASE q = p
    BY <2>1 DEF FenceInv, ProcInv, Goto, Remember
  <2>2. CASE q # p
    <3>1. pc'[q] = pc[q] /\ mem'[q] = mem[q]
      BY <2>2 DEF FenceInv, ProcInv, Goto, Remember
    <3>2. MemOK(pc[q], mem[q], epoch)
      BY DEF FenceInv, ProcInv
    <3> QED
      BY <3>1, <3>2, MemOKLater DEF FenceInv, BucketInv
  <2> QED
    BY <2>1, <2>2
<1> QED
  BY <1>1, <1>2, <1>3 DEF ProcInv

\* With the memory it has, unless it begins to write
LEMMA MoveOnly ==
    ASSUME FenceInv, NEW p \in Procs, NEW label,
           epoch' \in Nat, epoch <= epoch', Goto(p, label), UNCHANGED mem,
           label \in {"write", "activate"} => pc[p] \in {"write", "activate"}
    PROVE  ProcInv'
<1>1. Remember(p, mem[p])
  BY DEF FenceInv, ProcInv, Remember
<1>2. MemOK(label, mem[p], epoch)
  BY DEF FenceInv, ProcInv, MemOK
<1>3. MemOK(label, mem[p], epoch')
  BY <1>2, MemOKLater DEF FenceInv, BucketInv
<1> QED
  BY <1>1, <1>3, MoveOn

LEMMA HandledOK ==
    ASSUME FenceInv, NEW p \in Procs, NEW marks, epoch' \in Nat, epoch <= epoch',
           Handled(p, marks)
    PROVE  ProcInv'
<1>1. CASE p \in Pollers
  <2> DEFINE m == [NoMem EXCEPT !.batch = Tail(mem[p].batch), !.last = mem[p].last,
                                !.seen = mem[p].seen \cup marks]
  <2>1. MemOK("event", m, epoch')
    BY DEF MemOK, NoMem, MemFields
  <2>2. Goto(p, "event") /\ Remember(p, m)
    BY <1>1 DEF Handled
  <2> HIDE DEF m
  <2> QED
    BY <2>1, <2>2, MoveOn
<1>2. CASE p \notin Pollers
  BY <1>2, NoMemOK, MoveOn DEF Handled
<1> QED
  BY <1>1, <1>2

LEMMA AbortOK ==
    ASSUME FenceInv, NEW p \in Procs, epoch' \in Nat, epoch <= epoch', Abort(p)
    PROVE  ProcInv'
BY NoMemOK, MoveOn DEF Abort

LEMMA ProcStays ==
    ASSUME FenceInv, UNCHANGED <<procVars, epoch>>
    PROVE  ProcInv'
BY DEF FenceInv, ProcInv, procVars

LEMMA BucketStays ==
    ASSUME FenceInv, UNCHANGED <<epoch, retired, active, snapEpoch>>
    PROVE  BucketInv' /\ epoch' \in Nat /\ epoch <= epoch'
BY DEF FenceInv, BucketInv, SnapshotIsFenced

LEMMA StepFence == FenceInv /\ [Next]_vars => FenceInv'
<1> SUFFICES ASSUME FenceInv, [Next]_vars PROVE FenceInv'
  OBVIOUS
<1> USE DEF cacheVars, bucketVars, At
<1> DEFINE Safe == BucketInv' /\ ProcInv'
<1> SUFFICES Safe
  BY DEF FenceInv
<1>0. epoch \in Nat /\ \A p \in Procs : MemOK(pc[p], mem[p], epoch)
  BY DEF FenceInv, BucketInv, ProcInv
<1>1. ASSUME UNCHANGED <<procVars, cacheVars>> PROVE Safe
  BY <1>1, ProcStays, BucketStays
<1>2. ASSUME NEW r \in Requests, NEW c \in Costs, ApplyUsage(r, c) PROVE Safe
  BY <1>1, <1>2 DEF ApplyUsage
<1>3. CASE CommitUsage \/ RollbackUsage \/ ResetQuota \/ ToggleGroup \/ AdminEnqueue
           \/ AdminLosesEvent \/ \E r \in Requests : ArchiveDedup(r)
  BY <1>1, <1>3 DEF CommitUsage, RollbackUsage, ResetQuota, ToggleGroup, AdminEnqueue,
                    AdminLosesEvent, ArchiveDedup
<1>4. CASE AdminSync
  BY <1>4, ProcStays, BucketStays DEF AdminSync
<1>5. CASE LockExpires \/ LeaseExpires
  BY <1>5, ProcStays, BucketStays
     DEF LockExpires, LeaseExpires, UnlockBucket, ReleaseGroupLifecycleLease
<1>6. ASSUME NEW p \in Procs, ReadMiss(p) PROVE Safe
  <2>1. MemOK("load", [NoMem EXCEPT !.token = epoch], epoch)
    BY <1>0 DEF MemOK, NoMem, MemFields
  <2>2. epoch' = epoch
    BY <1>6 DEF ReadMiss
  <2> QED
    BY <1>6, <2>1, <2>2, MoveOn, BucketStays DEF ReadMiss
<1>7. ASSUME NEW p \in Procs, Poll(p) PROVE Safe
  <2>0. PICK ids \in Listings :
             Remember(p, [NoMem EXCEPT !.batch = [i \in DOMAIN ids |-> rows[ids[i]].kind],
                                       !.last = Last(ids)])
    BY <1>7 DEF Poll
  <2> DEFINE m == [NoMem EXCEPT !.batch = [i \in DOMAIN ids |-> rows[ids[i]].kind],
                                !.last = Last(ids)]
  <2>1. MemOK("event", m, epoch)
    BY <1>0 DEF MemOK, NoMem, MemFields
  <2>2. Goto(p, "event") /\ Remember(p, m) /\ UNCHANGED cacheVars
    BY <1>7, <2>0 DEF Poll
  <2> HIDE DEF m
  <2> QED
    BY <2>1, <2>2, MoveOn, BucketStays
<1>8. ASSUME NEW p \in Procs, ListBuckets(p) PROVE Safe
  BY <1>8, MoveOnly, BucketStays DEF ListBuckets
<1>9. ASSUME NEW p \in Procs, Capture(p) \/ CaptureCanonical(p) PROVE Safe
  <2>1. MemOK("lock", [mem[p] EXCEPT !.token = epoch], epoch)
    BY <1>0 DEF MemOK, MemFields
  <2>2. BucketInv' /\ epoch' = epoch
    BY <1>9, BucketStays DEF Capture, CaptureCanonical
  <2>3. CASE Capture(p)
    BY <1>0, <2>1, <2>2, <2>3, MoveOn, HandledOK DEF Capture
  <2>4. CASE CaptureCanonical(p)
    BY <1>0, <2>1, <2>2, <2>4, MoveOn, MoveOnly DEF CaptureCanonical
  <2> QED
    BY <1>9, <2>3, <2>4
<1>10. ASSUME NEW p \in Procs, LockForRebuild(p) PROVE Safe
  <2>1. BucketInv' /\ epoch' = epoch
    BY <1>10, BucketStays DEF LockForRebuild, TryLockBucket
  <2> QED
    BY <1>0, <1>10, <2>1, MoveOnly, AbortOK, HandledOK DEF LockForRebuild
<1>11. ASSUME NEW p \in Procs, Load(p) PROVE Safe
  <2> DEFINE m == [mem[p] EXCEPT !.data = Current, !.loaded = epoch]
  <2>1. MemOK("write", m, epoch)
    BY <1>0 DEF MemOK, MemFields
  <2>2. Goto(p, "write") /\ Remember(p, m) /\ UNCHANGED cacheVars
    BY <1>11 DEF Load
  <2> HIDE DEF m
  <2> QED
    BY <1>0, <2>1, <2>2, MoveOn, BucketStays
<1>12. ASSUME NEW p \in Procs, Fenced(p), epoch' = epoch PROVE ProcInv'
  BY <1>0, <1>12, MoveOnly, AbortOK DEF Fenced, Abort
<1>13. ASSUME NEW p \in Procs, WriteSnapshot(p) PROVE Safe
  <2>1. BucketInv' /\ epoch' = epoch
    BY <1>13, BucketStays DEF WriteSnapshot
  <2>2. MemOK("activate", [mem[p] EXCEPT !.data = "absent"], epoch)
    BY <1>0, <1>13 DEF MemOK, MemFields, WriteSnapshot
  <2> QED
    BY <1>0, <1>12, <1>13, <2>1, <2>2, MoveOn DEF WriteSnapshot
<1>14. ASSUME NEW p \in Procs, ActivateSnapshot(p) PROVE Safe
  <2>1. CASE MayWrite(mem[p].token)
    <3>1. mem[p].loaded = epoch
      BY <1>0, <1>14, <2>1 DEF ActivateSnapshot, MayWrite, MemOK
    <3>2. BucketInv' /\ epoch' = epoch
      BY <1>0, <1>14, <2>1, <3>1
         DEF ActivateSnapshot, MayWrite, Activate, BucketInv, SnapshotIsFenced
    <3> QED
      BY <1>0, <1>14, <2>1, <3>2, MoveOnly, HandledOK DEF ActivateSnapshot
  <2>2. CASE ~MayWrite(mem[p].token)
    BY <1>12, <1>14, <2>2, BucketStays DEF ActivateSnapshot
  <2> QED
    BY <2>1, <2>2
<1>15. ASSUME NEW p \in Procs, Unlock(p) PROVE Safe
  <2>1. BucketInv' /\ epoch' = epoch
    BY <1>15, BucketStays DEF Unlock, UnlockBucket
  <2> QED
    BY <1>0, <1>15, <2>1, AbortOK, HandledOK DEF Unlock
<1>16. ASSUME NEW p \in Procs, AcquireLease(p) PROVE Safe
  <2>1. BucketInv' /\ epoch' = epoch
    BY <1>16, BucketStays DEF AcquireLease, TryAcquireGroupLifecycleLease
  <2> QED
    BY <1>0, <1>16, <2>1, MoveOnly, AbortOK DEF AcquireLease
<1>17. ASSUME NEW p \in Procs, ReadGroup(p) PROVE Safe
  <2>1. MemOK("decide", [mem[p] EXCEPT !.open = group], epoch)
    BY <1>0 DEF MemOK, MemFields
  <2> QED
    BY <1>0, <1>17, <2>1, MoveOn, BucketStays DEF ReadGroup
<1>18. ASSUME NEW p \in Procs, Decide(p) PROVE Safe
  <2>1. CASE mem[p].open
    <3>1. BucketInv' /\ epoch' = epoch
      BY <1>0, <1>18, <2>1 DEF Decide, ReopenBucket, FenceInv, BucketInv, SnapshotIsFenced
    <3>2. MemOK("release", [mem[p] EXCEPT !.token = epoch], epoch)
      BY <1>0 DEF MemOK, MemFields
    <3> QED
      BY <1>0, <1>18, <2>1, <3>1, <3>2, MoveOn DEF Decide
  <2>2. CASE ~mem[p].open
    <3>1. BucketInv' /\ epoch' \in Nat /\ epoch <= epoch'
      BY <1>0, <1>18, <2>2 DEF Decide, RetireBucket, BucketInv, SnapshotIsFenced
    <3> QED
      BY <1>18, <2>2, <3>1, MoveOnly DEF Decide
  <2> QED
    BY <2>1, <2>2
<1>19. ASSUME NEW p \in Procs, ReleaseLease(p) PROVE Safe
  <2>1. BucketInv' /\ epoch' = epoch
    BY <1>19, BucketStays DEF ReleaseLease, ReleaseGroupLifecycleLease
  <2>2. MemOK("lock", [mem[p] EXCEPT !.strict = TRUE], epoch)
    BY <1>0 DEF MemOK, MemFields
  <2> QED
    BY <1>0, <1>19, <2>1, <2>2, MoveOn, AbortOK, HandledOK DEF ReleaseLease
<1>20. ASSUME NEW p \in Procs, HandleAccountEvent(p) PROVE Safe
  <2>1. MemOK("setAccount", [mem[p] EXCEPT !.data = Current], epoch)
    BY <1>0 DEF MemOK, MemFields
  <2> QED
    BY <1>0, <1>20, <2>1, MoveOn, BucketStays DEF HandleAccountEvent
<1>21. ASSUME NEW p \in Procs, SetAccount(p) PROVE Safe
  <2> DEFINE m == [mem[p] EXCEPT !.data = "absent", !.seen = @ \cup {"bucket"}]
  <2>1. BucketInv' /\ epoch' = epoch
    BY <1>21, BucketStays DEF SetAccount
  <2>2. MemOK("token", m, epoch)
    BY <1>0 DEF MemOK, MemFields
  <2>3. Handled(p, {}) \/ (Goto(p, "token") /\ Remember(p, m))
    BY <1>21 DEF SetAccount
  <2> HIDE DEF m
  <2> QED
    BY <1>0, <2>1, <2>2, <2>3, MoveOn, HandledOK
<1>22. ASSUME NEW p \in Procs, SkipGroupEvent(p) PROVE Safe
  BY <1>0, <1>22, HandledOK, BucketStays DEF SkipGroupEvent
<1>23. ASSUME NEW p \in Procs, AdvanceWatermark(p) PROVE Safe
  BY <1>0, <1>23, AbortOK, BucketStays DEF AdvanceWatermark
<1>24. ASSUME NEW p \in Procs, ListActiveGroups(p) PROVE Safe
  <2>1. PICK label \in {"capture", "lease", "idle"} : Goto(p, label)
    BY <1>24 DEF ListActiveGroups
  <2> QED
    BY <1>24, <2>1, MoveOnly, BucketStays DEF ListActiveGroups
<1>25. ASSUME NEW p \in Procs, Crash(p) PROVE Safe
  BY <1>25, AbortOK, BucketStays DEF Crash
<1>26. ASSUME NEW p \in Procs, CallFails(p) PROVE Safe
  BY <1>26, AbortOK, BucketStays DEF CallFails
<1>27. CASE UNCHANGED vars
  BY <1>1, <1>27 DEF vars
<1> QED
  BY <1>2, <1>3, <1>4, <1>5, <1>6, <1>7, <1>8, <1>9, <1>10, <1>11, <1>13, <1>14,
     <1>15, <1>16, <1>17, <1>18, <1>19, <1>20, <1>21, <1>22, <1>23, <1>24, <1>25,
     <1>26, <1>27 DEF Next, Proceed

LEMMA InitFence == Init => FenceInv
BY NoMemOK DEF Init, BucketInit, FenceInv, BucketInv, ProcInv, SnapshotIsFenced

\* Whatever the writers, retirements, reopenings, crashes and lapses, a snapshot
\* that is served belongs to an open bucket and was loaded in its present epoch.
THEOREM Fencing == Spec => []SnapshotIsFenced
<1>1. FenceInv => SnapshotIsFenced
  BY DEF FenceInv, BucketInv
<1> QED
  BY <1>1, InitFence, StepFence, PTL DEF Spec

-----------------------------------------------------------------------------
(* Billing: what is charged is what is claimed                             *)

\* The open transaction has a request nobody has claimed, a claim is in one of the
\* two tables, and balance, quota and status move together.
BillingInv ==
    /\ \/ tx = NoTx
       \/ tx.request \in Requests /\ tx.cost \in Costs /\ ~Claimed(tx.request)
    /\ DOMAIN dedup \cap DOMAIN archive = {}
    /\ keyUsed \in Nat
    /\ balance = StartBalance - keyUsed
    /\ keyStatus \in {"active", "quota_exhausted"}
    /\ keyStatus = "quota_exhausted" <=> keyUsed >= KeyQuota

\* A step leaves claims and money alone, or claims one request that had not been
\* claimed and charges what it cost to the balance and to the key.
ChargeStep ==
    \/ Claims' = Claims /\ UNCHANGED <<balance, keyUsed>>
    \/ \E r \in Requests, c \in Costs :
          /\ r \notin DOMAIN Claims
          /\ Claims' = Inserted(Claims, r, c)
          /\ balance' = balance - c
          /\ keyUsed' = keyUsed + c

LEMMA ClaimedDomain == \A r : Claimed(r) <=> r \in DOMAIN Claims
BY DEF Claimed, Claims

\* The retention job moves a claim from one table to the other.
LEMMA ArchiveKeepsClaims ==
    ASSUME NEW r, CleanupUsageBillingDedup(r), DOMAIN dedup \cap DOMAIN archive = {}
    PROVE  /\ Claims' = Claims
           /\ \A q : Claimed(q)' <=> Claimed(q)
           /\ DOMAIN dedup' \cap DOMAIN archive' = {}
<1>1. DOMAIN dedup' = DOMAIN dedup \ {r} /\ \A q \in DOMAIN dedup \ {r} : dedup'[q] = dedup[q]
  BY DEF CleanupUsageBillingDedup
<1>2. /\ DOMAIN archive' = DOMAIN archive \cup {r}
      /\ archive'[r] = dedup[r]
      /\ \A q \in DOMAIN archive : archive'[q] = archive[q]
  BY DEF CleanupUsageBillingDedup, Inserted
<1>3. r \in DOMAIN dedup /\ r \notin DOMAIN archive
  BY DEF CleanupUsageBillingDedup
<1>4. DOMAIN dedup' \cup DOMAIN archive' = DOMAIN dedup \cup DOMAIN archive
  BY <1>1, <1>2, <1>3
<1>5. ASSUME NEW q \in DOMAIN dedup \cup DOMAIN archive
      PROVE  (IF q \in DOMAIN dedup' THEN dedup'[q] ELSE archive'[q])
                = IF q \in DOMAIN dedup THEN dedup[q] ELSE archive[q]
  BY <1>1, <1>2, <1>3
<1> QED
  BY <1>1, <1>2, <1>3, <1>4, <1>5 DEF Claims, Claimed

LEMMA CommitCharges ==
    ASSUME BillingInv, CommitApply
    PROVE  BillingInv' /\ ChargeStep
<1> DEFINE r == tx.request
           c == tx.cost
<1>1. r \in Requests /\ c \in Costs /\ ~Claimed(r) /\ c \in Nat \ {0}
  BY UsageAssumption DEF BillingInv, CommitApply
<1>2. DOMAIN dedup' = DOMAIN dedup \cup {r} /\ archive' = archive
  BY DEF CommitApply, Claim, Inserted
<1>3. Claims' = Inserted(Claims, r, c)
  <2>1. dedup' = Inserted(dedup, r, c)
    BY DEF CommitApply, Claim
  <2> QED
    BY <1>1, <1>2, <2>1 DEF Claims, Claimed, Inserted
<1>4. ChargeStep
  BY <1>1, <1>3, ClaimedDomain DEF ChargeStep, CommitApply
<1>5. KeyQuota \in Nat \ {0} /\ StartBalance \in Nat
  BY UsageAssumption
<1>6. /\ keyStatus' \in {"active", "quota_exhausted"}
      /\ keyStatus' = "quota_exhausted" <=> keyUsed' >= KeyQuota
  BY <1>1, <1>5 DEF BillingInv, CommitApply, ExhaustsKey
<1>7. keyUsed' \in Nat /\ balance' = StartBalance - keyUsed'
  BY <1>1, <1>5 DEF BillingInv, CommitApply
<1>8. DOMAIN dedup' \cap DOMAIN archive' = {} /\ tx' = NoTx
  BY <1>1, <1>2 DEF BillingInv, Claimed, CommitApply
<1> QED
  BY <1>4, <1>6, <1>7, <1>8 DEF BillingInv

LEMMA StepBilling == BillingInv /\ [Next]_vars => BillingInv' /\ ChargeStep
<1> SUFFICES ASSUME BillingInv, [Next]_vars PROVE BillingInv' /\ ChargeStep
  OBVIOUS
<1>1. ASSUME UNCHANGED <<dedupVars, balance, keyUsed, keyStatus>>,
             tx' = tx \/ tx' = NoTx
      PROVE  BillingInv' /\ ChargeStep
  BY <1>1 DEF BillingInv, ChargeStep, Claims, Claimed, dedupVars
<1>2. ASSUME UNCHANGED usageVars PROVE BillingInv' /\ ChargeStep
  BY <1>1, <1>2 DEF usageVars
<1>3. ASSUME NEW r \in Requests, NEW c \in Costs, ApplyUsage(r, c)
      PROVE  BillingInv' /\ ChargeStep
  <2>1. ~Claimed(r)
    BY <1>3 DEF ApplyUsage, BeginApply, ClaimResult
  <2>2. UNCHANGED <<dedupVars, balance, keyUsed, keyStatus>>
    BY <1>3 DEF ApplyUsage, BeginApply
  <2>3. tx'.request = r /\ tx'.cost = c
    BY <1>3 DEF ApplyUsage, BeginApply
  <2> QED
    BY <2>1, <2>2, <2>3 DEF BillingInv, ChargeStep, Claims, Claimed, dedupVars
<1>4. CASE CommitUsage
  BY <1>4, CommitCharges DEF CommitUsage
<1>5. CASE RollbackUsage
  BY <1>1, <1>5 DEF RollbackUsage, RollbackApply
<1>6. ASSUME NEW r \in Requests, ArchiveDedup(r) PROVE BillingInv' /\ ChargeStep
  <2>1. DOMAIN dedup \cap DOMAIN archive = {}
    BY DEF BillingInv
  <2>2. CleanupUsageBillingDedup(r) /\ UNCHANGED <<balance, keyUsed, keyStatus, tx>>
    BY <1>6 DEF ArchiveDedup
  <2> QED
    BY <2>1, <2>2, ArchiveKeepsClaims DEF BillingInv, ChargeStep
<1>7. CASE ResetQuota
  BY <1>1, <1>7 DEF ResetQuota
<1>8. CASE ToggleGroup \/ AdminEnqueue \/ AdminSync \/ AdminLosesEvent \/ LockExpires
           \/ LeaseExpires
  BY <1>2, <1>8 DEF ToggleGroup, AdminEnqueue, AdminSync, AdminLosesEvent, LockExpires,
                    LeaseExpires
<1>9. ASSUME NEW p \in Procs,
             ReadMiss(p) \/ Poll(p) \/ ListBuckets(p) \/ Proceed(p) \/ Crash(p) \/ CallFails(p)
      PROVE  BillingInv' /\ ChargeStep
  BY <1>2, <1>9
     DEF dbVars, ReadMiss, Poll, ListBuckets, Proceed, Crash, CallFails, Capture,
         LockForRebuild, Load, WriteSnapshot, ActivateSnapshot, Unlock, AcquireLease,
         ReadGroup, Decide, ReleaseLease, HandleAccountEvent, SetAccount, SkipGroupEvent,
         AdvanceWatermark, ListActiveGroups, CaptureCanonical
<1>10. CASE UNCHANGED vars
  BY <1>2, <1>10 DEF vars
<1> QED
  BY <1>3, <1>4, <1>5, <1>6, <1>7, <1>8, <1>9, <1>10 DEF Next

LEMMA InitBilling == Init => BillingInv
BY UsageAssumption DEF Init, UsageInit, DedupInit, BillingInv

LEMMA BillingInvariance == Spec => []BillingInv
BY InitBilling, StepBilling, PTL DEF Spec

\* However often a request is sent again, and whether its dedup row is archived or
\* not, no step charges a request that has been claimed, forgets a claim or
\* charges without one.
THEOREM ChargedByClaim == Spec => [][ChargeStep]_vars
BY BillingInvariance, StepBilling, PTL DEF Spec

\* Balance and key are charged alike, and the key's status, on which the gateway's
\* hot path relies, says exhausted exactly when its quota has been used up.
KeyStatusIsTrue ==
    /\ balance = StartBalance - keyUsed
    /\ keyStatus = "quota_exhausted" <=> keyUsed >= KeyQuota

\* A key is never exhausted while its status says active, nor the other way round,
\* and what the key has used is what the balance has lost.
THEOREM KeyStatusTrue == Spec => []KeyStatusIsTrue
<1>1. BillingInv => KeyStatusIsTrue
  BY DEF BillingInv, KeyStatusIsTrue
<1> QED
  BY <1>1, BillingInvariance, PTL

\* The units of money in a table of claims
Units(f) == UNION {{r} \X (1..f[r]) : r \in DOMAIN f}

\* A new claim adds as many units as it costs.
LEMMA InsertedUnits ==
    ASSUME NEW f, NEW r, NEW c \in Nat, r \notin DOMAIN f, IsFiniteSet(Units(f))
    PROVE  /\ IsFiniteSet(Units(Inserted(f, r, c)))
           /\ Cardinality(Units(Inserted(f, r, c))) = Cardinality(Units(f)) + c
<1> DEFINE g == Inserted(f, r, c)
           new == {r} \X (1..c)
<1>1. /\ DOMAIN g = DOMAIN f \cup {r}
      /\ g[r] = c
      /\ \A q \in DOMAIN f : g[q] = f[q]
  BY DEF Inserted
<1> HIDE DEF g
<1>2. Units(g) = Units(f) \cup new
  <2>1. ASSUME NEW u PROVE u \in Units(g) <=> u \in Units(f) \cup new
    <3>1. u \in Units(g) <=> \E q \in DOMAIN g : u \in {q} \X (1..g[q])
      BY DEF Units
    <3>2. u \in Units(f) <=> \E q \in DOMAIN f : u \in {q} \X (1..f[q])
      BY DEF Units
    <3>3. ASSUME NEW q \in DOMAIN f
          PROVE  u \in {q} \X (1..g[q]) <=> u \in {q} \X (1..f[q])
      BY <1>1
    <3>4. u \in {r} \X (1..g[r]) <=> u \in new
      BY <1>1
    <3> HIDE DEF new
    <3> QED
      BY <1>1, <3>1, <3>2, <3>3, <3>4, Zenon
  <2> QED
    BY <2>1
<1>3. Units(f) \cap new = {}
  <2>1. ASSUME NEW u \in Units(f), u \in new PROVE FALSE
    <3>1. PICK q \in DOMAIN f : u \in {q} \X (1..f[q])
      BY <2>1 DEF Units
    <3>2. u[1] = q /\ u[1] = r
      BY <2>1, <3>1
    <3> QED
      BY <3>2
  <2> QED
    BY <2>1
<1>4. IsFiniteSet(new) /\ Cardinality(new) = c
  <2>1. IsFiniteSet({r}) /\ Cardinality({r}) = 1
    BY FS_Singleton
  <2>2. IsFiniteSet(1..c) /\ Cardinality(1..c) = c
    BY FS_Interval
  <2>3. \A S, T : IsFiniteSet(S) /\ IsFiniteSet(T) =>
           /\ IsFiniteSet(S \X T)
           /\ Cardinality(S \X T) = Cardinality(S) * Cardinality(T)
    BY FS_Product
  <2>4. IsFiniteSet(new) /\ Cardinality(new) = Cardinality({r}) * Cardinality(1..c)
    BY <2>1, <2>2, <2>3, Zenon
  <2> HIDE DEF new
  <2> QED
    BY <2>1, <2>2, <2>4
<1> HIDE DEF new
<1>5. /\ IsFiniteSet(Units(f) \cup new)
      /\ Cardinality(Units(f) \cup new)
            = Cardinality(Units(f)) + Cardinality(new) - Cardinality(Units(f) \cap new)
  BY <1>4, FS_Union
<1>6. Cardinality(Units(f) \cap new) = 0 /\ Cardinality(Units(f)) \in Nat
  BY <1>3, FS_EmptySet, FS_CardinalityType
<1> QED
  BY <1>2, <1>4, <1>5, <1>6 DEF g

\* What the key has used is the number of units that have been claimed.
ChargedInv == IsFiniteSet(Units(Claims)) /\ keyUsed = Cardinality(Units(Claims))

LEMMA StepCharged == ChargedInv /\ [ChargeStep]_vars => ChargedInv'
<1> SUFFICES ASSUME ChargedInv, [ChargeStep]_vars PROVE ChargedInv'
  OBVIOUS
<1>1. CASE Claims' = Claims /\ keyUsed' = keyUsed
  BY <1>1 DEF ChargedInv
<1>2. ASSUME NEW r \in Requests, NEW c \in Costs, r \notin DOMAIN Claims,
             Claims' = Inserted(Claims, r, c), keyUsed' = keyUsed + c
      PROVE  ChargedInv'
  <2>1. c \in Nat
    BY UsageAssumption
  <2>2. PICK f : f = Claims
    OBVIOUS
  <2>3. /\ IsFiniteSet(Units(Inserted(f, r, c)))
        /\ Cardinality(Units(Inserted(f, r, c))) = Cardinality(Units(f)) + c
    BY <1>2, <2>1, <2>2, InsertedUnits DEF ChargedInv
  <2> QED
    BY <1>2, <2>2, <2>3 DEF ChargedInv
<1>3. CASE UNCHANGED vars
  <2>1. Claims' = Claims /\ keyUsed' = keyUsed
    BY <1>3 DEF vars, usageVars, dedupVars, Claims
  <2> QED
    BY <1>1, <2>1
<1> QED
  BY <1>1, <1>2, <1>3 DEF ChargeStep

\* However often a request is sent again and wherever its dedup row is, the balance
\* has lost and the key has used the cost of the claimed requests, each once.
THEOREM EveryClaimOnce == Spec => []ChargedOnce
<1>1. Init => ChargedInv
  <2> SUFFICES ASSUME Init PROVE ChargedInv
    OBVIOUS
  <2>1. DOMAIN Claims = {} /\ keyUsed = 0
    BY DEF Init, UsageInit, DedupInit, Claims
  <2>2. Units(Claims) = {}
    BY <2>1 DEF Units
  <2> QED
    BY <2>1, <2>2, FS_EmptySet DEF ChargedInv
<1>2. ChargedInv /\ BillingInv => ChargedOnce
  <2>1. Charged = Cardinality(Units(Claims))
    BY DEF Charged, ChargedUnits, Units
  <2> QED
    BY <2>1 DEF ChargedInv, BillingInv, ChargedOnce
<1> QED
  BY <1>1, <1>2, StepCharged, ChargedByClaim, BillingInvariance, PTL DEF Spec

-----------------------------------------------------------------------------
(* Reconciliation: a change of the group is not forgotten                  *)

HasGroup(b) == \E i \in 1..Len(b) : b[i] = "group"

AccountLabels == {"setAccount", "token", "lock", "load", "write", "activate", "unlock"}
LeaseLabels == {"readGroup", "decide", "release"}
RebuilderLabels == {"listRegistered", "listNone", "capture", "lease"}

\* A poller at a label, remembering m, is still to go through the group's lifecycle
\* before it can finish its batch.
ObligedAt(label, m) ==
    /\ label \notin {"idle", "decide", "release", "unlockAbort"}
    /\ HasGroup(m.batch)
    /\ "lifecycle" \notin m.seen
    /\ ~m.strict

\* It is beyond that, or about to decide by a reading of the group that is not g.
PastAt(label, m, g) ==
    /\ label # "idle"
    /\ ~ObligedAt(label, m)
    /\ label = "decide" => ~(m.open <=> g)

\* What a poller remembers of its batch
BatchOK(label, m) ==
    /\ m.batch \in Seq(Kinds)
    /\ m.last \in Nat
    /\ label \notin RebuilderLabels
    /\ label \notin {"idle", "event"} => m.batch # <<>>
    /\ label \in AccountLabels /\ ~m.strict => Head(m.batch) = "account"

\* Rows and ids; a group event that still has its key is ahead of every poller.
OutboxInv ==
    /\ nextId \in Nat
    /\ watermark \in Nat /\ watermark < nextId
    /\ \A i \in DOMAIN rows : /\ i \in Nat /\ i < nextId
                              /\ rows[i] \in [kind : Kinds, keyed : BOOLEAN]
    /\ \/ tx = NoTx
       \/ tx.row \in Nat /\ tx.row < nextId /\ (tx.row # 0 => tx.row \notin DOMAIN rows)
    /\ \A i \in DOMAIN rows : rows[i].kind = "group" /\ rows[i].keyed => watermark < i

PollerInv ==
    /\ \A p \in Pollers :
          /\ BatchOK(pc[p], mem[p])
          /\ mem[p].last < nextId
          /\ \A i \in DOMAIN rows : rows[i].kind = "group" /\ rows[i].keyed => mem[p].last < i
    /\ \A p \in Procs : pc[p] = "event" => p \in Pollers

\* Only the holder of the lease reads the group and decides by it.
LeaseInv == ~excused => \A p \in Procs : pc[p] \in LeaseLabels => lease = p

\* A change of the group that a poller with watermark n has yet to see
Beyond(n) ==
    \/ admin = "enqueueGroup"
    \/ \E i \in DOMAIN rows : i > n /\ rows[i].kind = "group"

\* The bucket is not what the group's row says, or is about to become so.
Unsettled ==
    \/ retired <=> group
    \/ \E p \in Procs : pc[p] = "decide" /\ ~(mem[p].open <=> group)

\* There is then a change ahead of the watermark, and of every poller that would
\* move the watermark without looking at the group again.
SettleInv ==
    ~excused /\ Unsettled =>
       /\ Beyond(watermark)
       /\ \A p \in Pollers : PastAt(pc[p], mem[p], group) => Beyond(mem[p].last)

ReconcileInv == OutboxInv /\ PollerInv /\ LeaseInv /\ SettleInv

sharedVars == <<rows, nextId, watermark, group, admin, retired, excused, tx>>

LEMMA PollersAreProcs == Pollers \subseteq Procs
BY DEF Procs

\* A process moves on, sees no more of the group than it has seen, and is
\* not past the group's lifecycle unless it was.
LEMMA SettledMove ==
    ASSUME FenceInv, ReconcileInv, NEW p \in Procs, NEW label, NEW m,
           Goto(p, label), Remember(p, m), UNCHANGED sharedVars,
           \A q \in Procs : q # p /\ lease = q => lease' = q,
           label \in LeaseLabels /\ ~excused => lease' = p,
           label = "decide" => (m.open <=> group),
           label = "event" => p \in Pollers,
           p \in Pollers => /\ BatchOK(label, m)
                            /\ m.last = mem[p].last \/ m.last = 0
                            /\ PastAt(label, m, group) =>
                                  PastAt(pc[p], mem[p], group) /\ m.last = mem[p].last
    PROVE  ReconcileInv'
<1>1. /\ pc'[p] = label /\ mem'[p] = m
      /\ \A q \in Procs : q # p => pc'[q] = pc[q] /\ mem'[q] = mem[q]
  BY DEF FenceInv, ProcInv, Goto, Remember
<1>2. OutboxInv'
  BY DEF ReconcileInv, OutboxInv, sharedVars
<1>3. PollerInv'
  <2>0. rows' = rows /\ nextId' = nextId
    BY DEF sharedVars
  <2>4. \A q \in Procs : pc'[q] = "event" => q \in Pollers
    BY <1>1 DEF ReconcileInv, PollerInv
  <2> SUFFICES ASSUME NEW q \in Pollers
               PROVE  /\ BatchOK(pc'[q], mem'[q])
                      /\ mem'[q].last < nextId
                      /\ \A i \in DOMAIN rows : rows[i].kind = "group" /\ rows[i].keyed =>
                            mem'[q].last < i
    BY <2>0, <2>4 DEF PollerInv
  <2>1. q \in Procs
    BY PollersAreProcs
  <2>2. CASE q # p
    BY <1>1, <2>1, <2>2 DEF ReconcileInv, PollerInv
  <2>3. CASE q = p
    <3>1. /\ nextId \in Nat /\ nextId > 0
          /\ \A i \in DOMAIN rows : rows[i].kind = "group" /\ rows[i].keyed => 0 < i
      BY DEF ReconcileInv, OutboxInv
    <3>2. /\ mem[p].last < nextId
          /\ \A i \in DOMAIN rows : rows[i].kind = "group" /\ rows[i].keyed => mem[p].last < i
      BY <2>3 DEF ReconcileInv, PollerInv
    <3> QED
      BY <1>1, <2>3, <3>1, <3>2
  <2> QED
    BY <2>2, <2>3
<1>4. LeaseInv'
  BY <1>1 DEF ReconcileInv, LeaseInv, sharedVars
<1>5. SettleInv'
  <2>1. \A n : Beyond(n)' <=> Beyond(n)
    BY DEF Beyond, sharedVars
  <2>2. group' = group /\ retired' = retired /\ excused' = excused /\ watermark' = watermark
    BY DEF sharedVars
  <2>3. Unsettled' => Unsettled
    BY <1>1, <2>2 DEF Unsettled
  <2>4. ASSUME NEW q \in Pollers, PastAt(pc'[q], mem'[q], group)
        PROVE  PastAt(pc[q], mem[q], group) /\ mem'[q].last = mem[q].last
    BY <1>1, <2>4, PollersAreProcs
  <2> QED
    BY <2>1, <2>2, <2>3, <2>4 DEF ReconcileInv, SettleInv
<1> QED
  BY <1>2, <1>3, <1>4, <1>5 DEF ReconcileInv

\* A poll or a rebuild is given up; the lease, if it changes, is given back.
LEMMA SettledAbort ==
    ASSUME FenceInv, ReconcileInv, NEW p \in Procs, Abort(p), UNCHANGED sharedVars,
           \A q \in Procs : q # p /\ lease = q => lease' = q
    PROVE  ReconcileInv'
<1>1. Goto(p, "idle") /\ Remember(p, NoMem)
  BY DEF Abort
<1>2. BatchOK("idle", NoMem) /\ NoMem.last = 0 /\ ~PastAt("idle", NoMem, group)
  BY DEF BatchOK, NoMem, PastAt, AccountLabels, RebuilderLabels
<1> QED
  BY <1>1, <1>2, SettledMove DEF LeaseLabels

\* With the memory it has, in the same part of its work
LEMMA SettledGoto ==
    ASSUME FenceInv, ReconcileInv, NEW p \in Procs, NEW label, Goto(p, label),
           UNCHANGED mem, UNCHANGED <<sharedVars, lease>>,
           label \notin LeaseLabels \cup {"event"},
           p \in Pollers => BatchOK(label, mem[p]),
           p \in Pollers /\ PastAt(label, mem[p], group) => PastAt(pc[p], mem[p], group)
    PROVE  ReconcileInv'
<1>1. Remember(p, mem[p])
  BY DEF FenceInv, ProcInv, Remember
<1>2. label # "decide" /\ label # "event" /\ label \notin LeaseLabels
  BY DEF LeaseLabels
<1> QED
  BY <1>1, <1>2, SettledMove

LEMMA TailHasGroup ==
    ASSUME NEW b \in Seq(Kinds), b # <<>>
    PROVE  /\ Tail(b) \in Seq(Kinds)
           /\ HasGroup(b) /\ Head(b) = "account" => HasGroup(Tail(b))
<1>1. Tail(b) \in Seq(Kinds)
  OBVIOUS
<1>2. ASSUME HasGroup(b), Head(b) = "account" PROVE HasGroup(Tail(b))
  <2>1. PICK i \in 1..Len(b) : b[i] = "group"
    BY <1>2 DEF HasGroup
  <2>2. i # 1
    BY <1>2, <2>1
  <2>3. i - 1 \in 1..Len(Tail(b)) /\ Tail(b)[i - 1] = b[i]
    BY <2>2
  <2> QED
    BY <2>1, <2>3 DEF HasGroup
<1> QED
  BY <1>1, <1>2

\* An event has been handled: a poller that is not past the lifecycle has been
\* at an account event.
LEMMA SettledHandled ==
    ASSUME FenceInv, ReconcileInv, NEW p \in Procs, NEW marks, Handled(p, marks),
           UNCHANGED sharedVars, pc[p] \notin {"idle", "decide"},
           \A q \in Procs : q # p /\ lease = q => lease' = q,
           p \in Pollers => mem[p].batch # <<>>,
           p \in Pollers /\ ObligedAt(pc[p], mem[p]) =>
               Head(mem[p].batch) = "account" /\ "lifecycle" \notin marks
    PROVE  ReconcileInv'
<1>1. CASE p \notin Pollers
  <2>1. Abort(p)
    BY <1>1 DEF Handled, Abort
  <2> QED
    BY <2>1, SettledAbort
<1>2. CASE p \in Pollers
  <2> DEFINE m == [NoMem EXCEPT !.batch = Tail(mem[p].batch), !.last = mem[p].last,
                                !.seen = mem[p].seen \cup marks]
  <2>1. Goto(p, "event") /\ Remember(p, m)
    BY <1>2 DEF Handled
  <2>2. /\ m.batch = Tail(mem[p].batch) /\ m.last = mem[p].last
        /\ m.seen = mem[p].seen \cup marks /\ ~m.strict
    BY DEF NoMem
  <2> HIDE DEF m
  <2>3. mem[p].batch \in Seq(Kinds) /\ mem[p].last \in Nat
    BY <1>2 DEF ReconcileInv, PollerInv, BatchOK
  <2>4. PICK b : b = mem[p].batch
    OBVIOUS
  <2>5. /\ Tail(b) \in Seq(Kinds)
        /\ HasGroup(b) /\ Head(b) = "account" => HasGroup(Tail(b))
    BY <1>2, <2>3, <2>4, TailHasGroup
  <2>6. BatchOK("event", m)
    BY <2>2, <2>3, <2>4, <2>5 DEF BatchOK, AccountLabels, RebuilderLabels
  <2>7. ASSUME PastAt("event", m, group) PROVE PastAt(pc[p], mem[p], group)
    <3>1. ~(HasGroup(m.batch) /\ "lifecycle" \notin m.seen)
      BY <2>2, <2>7 DEF PastAt, ObligedAt
    <3>2. ~ObligedAt(pc[p], mem[p])
      BY <1>2, <2>2, <2>4, <2>5, <3>1 DEF ObligedAt
    <3> QED
      BY <3>2 DEF PastAt
  <2> QED
    BY <1>2, <2>1, <2>2, <2>6, <2>7, SettledMove DEF LeaseLabels
<1> QED
  BY <1>1, <1>2

\* A process remembers more, in the same part of its work.
LEMMA SettledRemember ==
    ASSUME FenceInv, ReconcileInv, NEW p \in Procs, NEW label, NEW m,
           Goto(p, label), Remember(p, m), UNCHANGED <<sharedVars, lease>>,
           label \notin LeaseLabels \cup {"idle", "event", "unlockAbort"},
           m.batch = mem[p].batch, m.last = mem[p].last, m.strict = mem[p].strict,
           m.seen \in {mem[p].seen, mem[p].seen \cup {"bucket"}},
           p \in Pollers => /\ BatchOK(label, m)
                            /\ pc[p] \notin LeaseLabels \cup {"idle", "unlockAbort"}
    PROVE  ReconcileInv'
<1>1. ASSUME p \in Pollers, PastAt(label, m, group) PROVE PastAt(pc[p], mem[p], group)
  BY <1>1 DEF PastAt, ObligedAt, LeaseLabels
<1>2. label # "decide" /\ label # "event" /\ label \notin LeaseLabels
  BY DEF LeaseLabels
<1> QED
  BY <1>1, <1>2, SettledMove

LEMMA StepRebuild ==
    ASSUME FenceInv, ReconcileInv, NEW p \in Procs,
           Capture(p) \/ LockForRebuild(p) \/ Load(p) \/ WriteSnapshot(p)
           \/ ActivateSnapshot(p) \/ Unlock(p)
    PROVE  ReconcileInv'
<1> USE DEF At
<1>0. /\ DOMAIN mem[p] = MemFields
      /\ p \in Pollers => BatchOK(pc[p], mem[p])
  BY DEF FenceInv, ProcInv, MemOK, ReconcileInv, PollerInv
<1>1. /\ UNCHANGED <<sharedVars, lease>>
      /\ pc[p] \in {"token", "lock", "load", "write", "activate", "unlock", "unlockAbort"}
  BY DEF Capture, LockForRebuild, Load, WriteSnapshot, ActivateSnapshot, Unlock, sharedVars,
         dbVars, usageVars, countVars, outboxVars, cacheVars, bucketVars, TryLockBucket,
         UnlockBucket, Activate
<1>2. ASSUME Abort(p) PROVE ReconcileInv'
  BY <1>1, <1>2, SettledAbort
<1>3. ASSUME NEW marks, Handled(p, marks), pc[p] # "unlockAbort",
             mem[p].strict \/ "lifecycle" \notin marks
      PROVE  ReconcileInv'
  <2>1. p \in Pollers => mem[p].batch # <<>>
    BY <1>0, <1>1 DEF BatchOK
  <2>2. p \in Pollers /\ ObligedAt(pc[p], mem[p]) =>
          Head(mem[p].batch) = "account" /\ "lifecycle" \notin marks
    BY <1>0, <1>1, <1>3 DEF BatchOK, ObligedAt, AccountLabels
  <2> QED
    BY <1>1, <1>3, <2>1, <2>2, SettledHandled
<1>4. ASSUME NEW label \in {"lock", "load", "write", "activate", "unlock"}, NEW m,
             Goto(p, label), Remember(p, m), pc[p] # "unlockAbort",
             m.batch = mem[p].batch, m.last = mem[p].last, m.strict = mem[p].strict,
             m.seen = mem[p].seen
      PROVE  ReconcileInv'
  <2>1. p \in Pollers => BatchOK(label, m)
    BY <1>0, <1>1, <1>4 DEF BatchOK, AccountLabels, RebuilderLabels
  <2> QED
    BY <1>1, <1>4, <2>1, SettledRemember DEF LeaseLabels
<1>5. ASSUME NEW label \in {"lock", "load", "write", "activate", "unlock"},
             Goto(p, label), UNCHANGED mem, pc[p] # "unlockAbort"
      PROVE  ReconcileInv'
  <2>1. Remember(p, mem[p])
    BY <1>5 DEF FenceInv, ProcInv, Remember
  <2> QED
    BY <1>4, <1>5, <2>1
<1>6. ASSUME Fenced(p), pc[p] # "unlockAbort" PROVE ReconcileInv'
  <2>1. CASE Goto(p, "idle") /\ Remember(p, NoMem)
    BY <1>2, <2>1 DEF Abort
  <2>2. CASE Goto(p, "unlock") /\ UNCHANGED mem
    BY <1>5, <1>6, <2>2
  <2>3. CASE mem[p].strict /\ Goto(p, "unlockAbort") /\ UNCHANGED mem
    <3>1. p \in Pollers => BatchOK("unlockAbort", mem[p])
      BY <1>0, <1>1 DEF BatchOK, AccountLabels, RebuilderLabels
    <3>2. PastAt(pc[p], mem[p], group)
      BY <1>1, <2>3 DEF PastAt, ObligedAt
    <3> QED
      BY <1>1, <2>3, <3>1, <3>2, SettledGoto DEF LeaseLabels
  <2> QED
    BY <1>6, <2>1, <2>2, <2>3 DEF Fenced
<1>7. CASE Capture(p)
  <2>1. CASE retired
    BY <1>3, <1>7, <2>1 DEF Capture
  <2>2. CASE ~retired
    <3>1. Goto(p, "lock") /\ Remember(p, [mem[p] EXCEPT !.token = epoch]) /\ pc[p] = "token"
      BY <1>7, <2>2 DEF Capture
    <3> QED
      BY <1>0, <1>4, <3>1 DEF MemFields
  <2> QED
    BY <2>1, <2>2
<1>8. CASE LockForRebuild(p)
  <2>1. CASE Goto(p, "load") /\ UNCHANGED mem
    BY <1>5, <1>8, <2>1 DEF LockForRebuild
  <2>2. CASE Abort(p)
    BY <1>2, <2>2
  <2>3. CASE Handled(p, {})
    BY <1>3, <1>8, <2>3 DEF LockForRebuild
  <2> QED
    BY <1>8, <2>1, <2>2, <2>3 DEF LockForRebuild
<1>9. CASE Load(p)
  <2>1. /\ Goto(p, "write") /\ pc[p] = "load"
        /\ Remember(p, [mem[p] EXCEPT !.data = Current, !.loaded = epoch])
    BY <1>9 DEF Load
  <2> QED
    BY <1>0, <1>4, <2>1 DEF MemFields
<1>10. CASE WriteSnapshot(p)
  <2>1. CASE MayWrite(mem[p].token)
    <3>1. /\ Goto(p, "activate") /\ pc[p] = "write"
          /\ Remember(p, [mem[p] EXCEPT !.data = "absent"])
      BY <1>10, <2>1 DEF WriteSnapshot
    <3> QED
      BY <1>0, <1>4, <3>1 DEF MemFields
  <2>2. CASE ~MayWrite(mem[p].token)
    BY <1>6, <1>10, <2>2 DEF WriteSnapshot
  <2> QED
    BY <2>1, <2>2
<1>11. CASE ActivateSnapshot(p)
  <2>1. CASE Fenced(p)
    BY <1>6, <1>11, <2>1 DEF ActivateSnapshot
  <2>2. CASE Handled(p, {})
    BY <1>3, <1>11, <2>2 DEF ActivateSnapshot
  <2>3. CASE Goto(p, "unlock") /\ UNCHANGED mem
    BY <1>5, <1>11, <2>3 DEF ActivateSnapshot
  <2> QED
    BY <1>11, <2>1, <2>2, <2>3 DEF ActivateSnapshot
<1>12. CASE Unlock(p)
  <2>1. CASE Abort(p)
    BY <1>2, <2>1
  <2>2. CASE At(p, "unlock") /\ Handled(p, IF mem[p].strict THEN {"lifecycle", "bucket"} ELSE {})
    BY <1>3, <2>2
  <2> QED
    BY <1>12, <2>1, <2>2 DEF Unlock
<1> QED
  BY <1>7, <1>8, <1>9, <1>10, <1>11, <1>12

LEMMA StepLifecycle ==
    ASSUME FenceInv, ReconcileInv, NEW p \in Procs,
           AcquireLease(p) \/ ReadGroup(p) \/ ReleaseLease(p)
    PROVE  ReconcileInv'
<1> USE DEF At
<1>0. /\ DOMAIN mem[p] = MemFields
      /\ p \in Pollers => BatchOK(pc[p], mem[p])
      /\ NoProc \notin Procs
  BY SnapshotAssumption DEF FenceInv, ProcInv, MemOK, ReconcileInv, PollerInv, Procs
<1>1. UNCHANGED sharedVars
  BY DEF AcquireLease, ReadGroup, ReleaseLease, sharedVars, dbVars, usageVars, countVars,
         outboxVars, cacheVars, bucketVars, TryAcquireGroupLifecycleLease,
         ReleaseGroupLifecycleLease
<1>2. CASE AcquireLease(p)
  <2>1. CASE Abort(p) /\ UNCHANGED bucketVars
    BY <1>1, <2>1, SettledAbort DEF bucketVars
  <2>2. CASE TryAcquireGroupLifecycleLease(p) /\ Goto(p, "readGroup") /\ UNCHANGED mem
    <3>1. lease = NoProc /\ lease' = p
      BY <2>2 DEF TryAcquireGroupLifecycleLease
    <3>2. Remember(p, mem[p])
      BY <2>2 DEF FenceInv, ProcInv, Remember
    <3>3. p \in Pollers => pc[p] = "event" /\ mem[p].batch # <<>>
      BY <1>0, <1>2 DEF AcquireLease, WantsLease, BatchOK, RebuilderLabels
    <3>4. p \in Pollers => BatchOK("readGroup", mem[p])
      BY <1>0, <3>3 DEF BatchOK, RebuilderLabels, AccountLabels
    <3>5. p \in Pollers /\ PastAt("readGroup", mem[p], group) => PastAt(pc[p], mem[p], group)
      BY <3>3 DEF PastAt, ObligedAt
    <3> QED
      BY <1>0, <1>1, <2>2, <3>1, <3>2, <3>4, <3>5, SettledMove
  <2> QED
    BY <1>2, <2>1, <2>2 DEF AcquireLease
<1>3. CASE ReadGroup(p)
  <2> DEFINE m == [mem[p] EXCEPT !.open = group]
  <2>1. Goto(p, "decide") /\ Remember(p, m) /\ pc[p] = "readGroup" /\ lease' = lease
    BY <1>3 DEF ReadGroup, cacheVars, bucketVars
  <2>2. /\ m.batch = mem[p].batch /\ m.last = mem[p].last /\ m.strict = mem[p].strict
        /\ m.open = group
    BY <1>0 DEF MemFields
  <2> HIDE DEF m
  <2>3. p \in Pollers => BatchOK("decide", m)
    BY <1>0, <2>1, <2>2 DEF BatchOK, RebuilderLabels, AccountLabels
  <2>4. ~PastAt("decide", m, group)
    BY <2>2 DEF PastAt
  <2>5. ~excused => lease' = p
    BY <2>1 DEF ReconcileInv, LeaseInv, LeaseLabels
  <2> QED
    BY <1>1, <2>1, <2>2, <2>3, <2>4, <2>5, SettledMove
<1>4. CASE ReleaseLease(p)
  <2>1. /\ pc[p] = "release"
        /\ \A q \in Procs : q # p /\ lease = q => lease' = q
    BY <1>4 DEF ReleaseLease, ReleaseGroupLifecycleLease
  <2>2. PastAt(pc[p], mem[p], group) /\ ~ObligedAt(pc[p], mem[p])
    BY <2>1 DEF PastAt, ObligedAt
  <2>3. CASE Abort(p)
    BY <1>1, <2>1, <2>3, SettledAbort
  <2>4. CASE Handled(p, {"lifecycle", "bucket"})
    <3>1. p \in Pollers => mem[p].batch # <<>>
      BY <1>0, <2>1 DEF BatchOK
    <3> QED
      BY <1>1, <2>1, <2>2, <2>4, <3>1, SettledHandled
  <2>5. CASE Goto(p, "lock") /\ Remember(p, [mem[p] EXCEPT !.strict = TRUE])
    <3> DEFINE m == [mem[p] EXCEPT !.strict = TRUE]
    <3>1. m.batch = mem[p].batch /\ m.last = mem[p].last /\ m.strict
      BY <1>0 DEF MemFields
    <3>2. Goto(p, "lock") /\ Remember(p, m)
      BY <2>5
    <3> HIDE DEF m
    <3>3. p \in Pollers => BatchOK("lock", m)
      BY <1>0, <2>1, <3>1 DEF BatchOK, RebuilderLabels, AccountLabels
    <3> QED
      BY <1>1, <2>1, <2>2, <3>1, <3>2, <3>3, SettledMove DEF LeaseLabels
  <2> QED
    BY <1>4, <2>3, <2>4, <2>5 DEF ReleaseLease
<1> QED
  BY <1>2, <1>3, <1>4

\* The bucket follows the group as it was read; if it is another by now, there is
\* a change ahead of everybody who does not look again.
LEMMA StepDecide ==
    ASSUME FenceInv, ReconcileInv, NEW p \in Procs, Decide(p)
    PROVE  ReconcileInv'
<1> USE DEF At
<1>0. /\ DOMAIN mem[p] = MemFields
      /\ p \in Pollers => BatchOK(pc[p], mem[p])
      /\ pc[p] = "decide"
  BY DEF FenceInv, ProcInv, MemOK, ReconcileInv, PollerInv, Decide
<1>1. UNCHANGED <<rows, nextId, watermark, group, admin, excused, tx, lease>>
  BY DEF Decide, dbVars, usageVars, countVars, outboxVars, ReopenBucket, RetireBucket
<1>2. retired' <=> ~mem[p].open
  BY DEF Decide, ReopenBucket, RetireBucket
<1>3. /\ pc'[p] = "release"
      /\ \A q \in Procs : q # p => pc'[q] = pc[q] /\ mem'[q] = mem[q]
      /\ mem'[p].batch = mem[p].batch /\ mem'[p].last = mem[p].last
      /\ mem'[p].seen = mem[p].seen /\ mem'[p].strict = mem[p].strict
  <2>1. pc'[p] = "release" /\ \A q \in Procs : q # p => pc'[q] = pc[q]
    BY DEF Decide, FenceInv, ProcInv, Goto
  <2>2. CASE mem' = mem
    BY <2>1, <2>2
  <2>3. CASE Remember(p, [mem[p] EXCEPT !.token = epoch])
    <3>1. mem'[p] = [mem[p] EXCEPT !.token = epoch] /\ \A q \in Procs : q # p => mem'[q] = mem[q]
      BY <2>3 DEF FenceInv, ProcInv, Remember
    <3> QED
      BY <1>0, <2>1, <3>1 DEF MemFields
  <2> QED
    BY <2>2, <2>3 DEF Decide
<1>4. OutboxInv'
  BY <1>1 DEF ReconcileInv, OutboxInv
<1>5. PollerInv'
  <2>1. p \in Pollers => BatchOK("release", mem'[p])
    BY <1>0, <1>3 DEF BatchOK, RebuilderLabels, AccountLabels
  <2> QED
    BY <1>1, <1>3, <2>1, PollersAreProcs DEF ReconcileInv, PollerInv
<1>6. LeaseInv'
  BY <1>0, <1>1, <1>3 DEF ReconcileInv, LeaseInv, LeaseLabels
<1>7. ASSUME ~excused PROVE \A q \in Procs : q # p => pc[q] # "decide"
  BY <1>0, <1>7 DEF ReconcileInv, LeaseInv, LeaseLabels
<1>8. SettleInv'
  <2> SUFFICES ASSUME ~excused, Unsettled'
               PROVE  /\ Beyond(watermark)'
                      /\ \A q \in Pollers : PastAt(pc'[q], mem'[q], group) => Beyond(mem[q].last)'
    BY <1>1 DEF SettleInv
  <2>1. ~(mem[p].open <=> group)
    BY <1>1, <1>2, <1>3, <1>7 DEF Unsettled
  <2>2. Unsettled /\ PastAt(pc[p], mem[p], group)
    BY <1>0, <2>1 DEF Unsettled, PastAt, ObligedAt
  <2>3. \A n : Beyond(n)' <=> Beyond(n)
    BY <1>1 DEF Beyond
  <2>4. /\ Beyond(watermark)
        /\ \A q \in Pollers : PastAt(pc[q], mem[q], group) => Beyond(mem[q].last)
    BY <2>2 DEF ReconcileInv, SettleInv
  <2>5. ASSUME NEW q \in Pollers, PastAt(pc'[q], mem'[q], group)
        PROVE  PastAt(pc[q], mem[q], group) /\ mem'[q].last = mem[q].last
    BY <1>3, <2>2, <2>5, PollersAreProcs
  <2> QED
    BY <1>1, <2>3, <2>4, <2>5
<1> QED
  BY <1>4, <1>5, <1>6, <1>8 DEF ReconcileInv

LEMMA StepEvent ==
    ASSUME FenceInv, ReconcileInv, NEW p \in Procs,
           HandleAccountEvent(p) \/ SetAccount(p) \/ SkipGroupEvent(p)
    PROVE  ReconcileInv'
<1> USE DEF At
<1>0. /\ DOMAIN mem[p] = MemFields
      /\ p \in Pollers => BatchOK(pc[p], mem[p])
  BY DEF FenceInv, ProcInv, MemOK, ReconcileInv, PollerInv
<1>1. UNCHANGED <<sharedVars, lease>>
  BY DEF HandleAccountEvent, SetAccount, SkipGroupEvent, sharedVars, dbVars, usageVars,
         countVars, outboxVars, cacheVars, bucketVars
<1>2. CASE HandleAccountEvent(p)
  <2> DEFINE m == [mem[p] EXCEPT !.data = Current]
  <2>1. /\ Goto(p, "setAccount") /\ Remember(p, m) /\ pc[p] = "event"
        /\ mem[p].batch # <<>> /\ Head(mem[p].batch) = "account"
    BY <1>2 DEF HandleAccountEvent
  <2>2. /\ m.batch = mem[p].batch /\ m.last = mem[p].last /\ m.strict = mem[p].strict
        /\ m.seen = mem[p].seen
    BY <1>0 DEF MemFields
  <2> HIDE DEF m
  <2>3. p \in Pollers => BatchOK("setAccount", m)
    BY <1>0, <2>1, <2>2 DEF BatchOK, RebuilderLabels, AccountLabels
  <2> QED
    BY <1>1, <2>1, <2>2, <2>3, SettledRemember DEF LeaseLabels
<1>3. CASE SetAccount(p)
  <2>1. pc[p] = "setAccount"
    BY <1>3 DEF SetAccount
  <2>2. p \in Pollers => mem[p].batch # <<>> /\ (~mem[p].strict => Head(mem[p].batch) = "account")
    BY <1>0, <2>1 DEF BatchOK, AccountLabels
  <2>3. CASE Handled(p, {})
    BY <1>1, <2>1, <2>2, <2>3, SettledHandled DEF ObligedAt
  <2>4. CASE /\ Goto(p, "token")
             /\ Remember(p, [mem[p] EXCEPT !.data = "absent", !.seen = @ \cup {"bucket"}])
    <3> DEFINE m == [mem[p] EXCEPT !.data = "absent", !.seen = @ \cup {"bucket"}]
    <3>1. Goto(p, "token") /\ Remember(p, m)
      BY <2>4
    <3>2. /\ m.batch = mem[p].batch /\ m.last = mem[p].last /\ m.strict = mem[p].strict
          /\ m.seen = mem[p].seen \cup {"bucket"}
      BY <1>0 DEF MemFields
    <3> HIDE DEF m
    <3>3. p \in Pollers => BatchOK("token", m)
      BY <1>0, <2>1, <3>2 DEF BatchOK, RebuilderLabels, AccountLabels
    <3> QED
      BY <1>1, <2>1, <3>1, <3>2, <3>3, SettledRemember DEF LeaseLabels
  <2> QED
    BY <1>3, <2>3, <2>4 DEF SetAccount
<1>4. CASE SkipGroupEvent(p)
  BY <1>1, <1>4, SettledHandled DEF SkipGroupEvent, ObligedAt
<1> QED
  BY <1>2, <1>3, <1>4

LEMMA StepOther ==
    ASSUME FenceInv, ReconcileInv, NEW p \in Procs,
           ReadMiss(p) \/ ListBuckets(p) \/ ListActiveGroups(p) \/ CaptureCanonical(p)
           \/ Crash(p) \/ CallFails(p)
    PROVE  ReconcileInv'
<1> USE DEF At
<1>0. DOMAIN mem[p] = MemFields
  BY DEF FenceInv, ProcInv, MemOK
<1>1. UNCHANGED sharedVars /\ \A q \in Procs : q # p /\ lease = q => lease' = q
  BY DEF ReadMiss, ListBuckets, ListActiveGroups, CaptureCanonical, Crash, CallFails, sharedVars,
         dbVars, usageVars, countVars, outboxVars, cacheVars, bucketVars
<1>2. CASE Crash(p) \/ CallFails(p)
  BY <1>1, <1>2, SettledAbort DEF Crash, CallFails
<1>3. ASSUME p \notin Pollers, NEW m, NEW label, label \notin LeaseLabels \cup {"event"},
             Goto(p, label), Remember(p, m)
      PROVE  ReconcileInv'
  <2>1. label # "decide" /\ label # "event" /\ label \notin LeaseLabels
    BY <1>3 DEF LeaseLabels
  <2> QED
    BY <1>1, <1>3, <2>1, SettledMove
<1>4. UNCHANGED mem => Remember(p, mem[p])
  BY DEF FenceInv, ProcInv, Remember
<1>5. CASE ReadMiss(p)
  <2>1. p \notin Pollers
    BY <1>5, SnapshotAssumption DEF ReadMiss
  <2> QED
    BY <1>3, <1>5, <2>1 DEF ReadMiss, LeaseLabels
<1>6. CASE ListBuckets(p)
  <2>1. p \notin Pollers
    BY <1>6, SnapshotAssumption DEF ListBuckets
  <2> QED
    BY <1>3, <1>4, <1>6, <2>1 DEF ListBuckets, LeaseLabels
<1>7. CASE ListActiveGroups(p)
  <2>1. p \notin Pollers
    BY <1>7 DEF ListActiveGroups, ReconcileInv, PollerInv, BatchOK, RebuilderLabels
  <2>2. Remember(p, mem[p])
    BY <1>4, <1>7 DEF ListActiveGroups
  <2>3. Goto(p, "capture") \/ Goto(p, "lease") \/ Goto(p, "idle")
    BY <1>7 DEF ListActiveGroups
  <2> QED
    BY <1>3, <2>1, <2>2, <2>3 DEF LeaseLabels
<1>8. CASE CaptureCanonical(p)
  <2>1. p \notin Pollers
    BY <1>8 DEF CaptureCanonical, ReconcileInv, PollerInv, BatchOK, RebuilderLabels
  <2> QED
    BY <1>3, <1>4, <1>8, <2>1 DEF CaptureCanonical, LeaseLabels
<1> QED
  BY <1>2, <1>5, <1>6, <1>7, <1>8

\* A poll clears the keys of all it lists; if none of it is a group event, a change
\* that is still ahead has not been enqueued yet.
LEMMA StepPoll ==
    ASSUME FenceInv, ReconcileInv, NEW p \in Procs, Poll(p)
    PROVE  ReconcileInv'
<1> USE DEF At
<1>0. /\ p \in Pollers /\ ListAfterAndReleaseDedup
      /\ UNCHANGED <<nextId, watermark, group, admin, retired, excused, tx, lease>>
  BY DEF Poll, ListAfterAndReleaseDedup, dbVars, usageVars, countVars, cacheVars, bucketVars
<1>1. PICK ids \in Listings :
             Remember(p, [NoMem EXCEPT !.batch = [i \in DOMAIN ids |-> rows[ids[i]].kind],
                                       !.last = Last(ids)])
  BY DEF Poll
<1>2. /\ nextId \in Nat /\ watermark \in Nat
      /\ \A i \in DOMAIN rows : /\ i \in Nat /\ i < nextId
                                /\ rows[i] \in [kind : Kinds, keyed : BOOLEAN]
  BY DEF ReconcileInv, OutboxInv
<1>3. After(watermark) \subseteq DOMAIN rows /\ After(watermark) # {}
  BY DEF After, Poll
<1>4. PICK n \in Nat \ {0} : ids \in [1..n -> After(watermark)]
  <2> DEFINE S == After(watermark)
  <2>1. S \subseteq 0..nextId
    BY <1>2, <1>3
  <2>2. IsFiniteSet(0..nextId)
    BY <1>2, FS_Interval
  <2>3. PICK T : T = S
    OBVIOUS
  <2>4. IsFiniteSet(T)
    BY <2>1, <2>2, <2>3, FS_Subset
  <2>5. Cardinality(T) \in Nat /\ Cardinality(T) # 0
    BY <1>3, <2>3, <2>4, FS_CardinalityType, FS_EmptySet
  <2> QED
    BY <1>1, <2>3, <2>5 DEF Listings
<1>5. \A i \in After(watermark) : \E k \in 1..n : ids[k] = i
  BY <1>1, <1>4 DEF Listings, ToSet
<1> DEFINE b == [i \in 1..n |-> rows[ids[i]].kind]
           m == [NoMem EXCEPT !.batch = b, !.last = ids[n]]
<1>6. b \in Seq(Kinds) /\ Len(b) = n
  <2>1. \A i \in 1..n : rows[ids[i]].kind \in Kinds
    BY <1>2, <1>3, <1>4
  <2> QED
    BY <1>4, <2>1
<1>7. Remember(p, m) /\ Goto(p, "event")
  <2>1. DOMAIN ids = 1..n /\ Len(ids) = n
    BY <1>4
  <2> QED
    BY <1>1, <2>1 DEF Last, Poll
<1>8. m.batch = b /\ m.last = ids[n] /\ m.seen = {} /\ ~m.strict
  BY DEF NoMem
<1> HIDE DEF m
<1>9. /\ pc'[p] = "event" /\ mem'[p] = m
      /\ \A q \in Procs : q # p => pc'[q] = pc[q] /\ mem'[q] = mem[q]
  BY <1>7 DEF FenceInv, ProcInv, Goto, Remember
<1>10. ids[n] \in DOMAIN rows /\ ids[n] \in Nat /\ ids[n] < nextId
  BY <1>2, <1>3, <1>4
<1>11. /\ DOMAIN rows' = DOMAIN rows
       /\ \A i \in DOMAIN rows : /\ rows'[i] \in [kind : Kinds, keyed : BOOLEAN]
                                 /\ rows'[i].kind = rows[i].kind
                                 /\ i \in After(watermark) => ~rows'[i].keyed
                                 /\ i \notin After(watermark) => rows'[i] = rows[i]
  BY <1>0, <1>2 DEF ListAfterAndReleaseDedup
<1>12. \A i \in DOMAIN rows : ~(rows'[i].kind = "group" /\ rows'[i].keyed)
  BY <1>2, <1>11 DEF ReconcileInv, OutboxInv, After
<1>13. OutboxInv'
  BY <1>0, <1>11, <1>12 DEF ReconcileInv, OutboxInv
<1>14. PollerInv'
  <2>1. BatchOK("event", m)
    BY <1>6, <1>8, <1>10 DEF BatchOK, RebuilderLabels, AccountLabels
  <2> QED
    BY <1>0, <1>8, <1>9, <1>10, <1>11, <1>12, <2>1, PollersAreProcs DEF ReconcileInv, PollerInv
<1>15. LeaseInv'
  BY <1>0, <1>9 DEF ReconcileInv, LeaseInv, LeaseLabels
<1>16. SettleInv'
  <2> SUFFICES ASSUME ~excused, Unsettled'
               PROVE  /\ Beyond(watermark)'
                      /\ \A q \in Pollers : PastAt(pc'[q], mem'[q], group) => Beyond(mem[q].last)'
    BY <1>0 DEF SettleInv
  <2>1. Unsettled
    BY <1>0, <1>9 DEF Unsettled
  <2>2. \A x : Beyond(x)' <=> Beyond(x)
    BY <1>0, <1>11 DEF Beyond
  <2>3. /\ Beyond(watermark)
        /\ \A q \in Pollers : PastAt(pc[q], mem[q], group) => Beyond(mem[q].last)
    BY <2>1 DEF ReconcileInv, SettleInv
  <2>4. ASSUME PastAt("event", m, group) PROVE Beyond(m.last)
    <3>1. ~HasGroup(b)
      BY <1>8, <2>4 DEF PastAt, ObligedAt
    <3>2. \A i \in After(watermark) : rows[i].kind # "group"
      BY <1>4, <1>5, <1>6, <3>1 DEF HasGroup
    <3> QED
      BY <2>3, <3>2 DEF Beyond, After
  <2> QED
    BY <1>0, <1>9, <2>2, <2>3, <2>4, PollersAreProcs
<1> QED
  BY <1>13, <1>14, <1>15, <1>16 DEF ReconcileInv

\* A poller that moves the watermark is past the lifecycle, so that a change which
\* is not settled is ahead of the rows it deletes.
LEMMA StepAdvance ==
    ASSUME FenceInv, ReconcileInv, NEW p \in Procs, AdvanceWatermark(p)
    PROVE  ReconcileInv'
<1> USE DEF At
<1>0. /\ pc[p] = "event" /\ mem[p].batch = <<>> /\ p \in Pollers
      /\ UNCHANGED <<nextId, group, admin, retired, excused, tx, lease>>
      /\ watermark' = mem[p].last
  BY DEF AdvanceWatermark, SetOutboxWatermark, dbVars, usageVars, countVars, cacheVars,
         bucketVars, ReconcileInv, PollerInv
<1> DEFINE n == mem[p].last
<1>1. PICK kept \in SUBSET {i \in DOMAIN rows : i <= n /\ rows[i].keyed} :
          rows' = [i \in After(n) \cup kept |-> rows[i]]
  BY DEF AdvanceWatermark, DeleteConsumedUpTo
<1>2. /\ DOMAIN rows' \subseteq DOMAIN rows
      /\ \A i \in DOMAIN rows' : rows'[i] = rows[i]
      /\ \A i \in DOMAIN rows : i > n => i \in DOMAIN rows'
  BY <1>1 DEF After
<1>3. /\ nextId \in Nat /\ \A i \in DOMAIN rows : i \in Nat
      /\ n \in Nat /\ n < nextId
      /\ \A i \in DOMAIN rows : rows[i].kind = "group" /\ rows[i].keyed => n < i
      /\ \A q \in Pollers : mem[q].last \in Nat
  BY <1>0 DEF ReconcileInv, OutboxInv, PollerInv, BatchOK
<1>4. /\ pc'[p] = "idle" /\ mem'[p] = NoMem
      /\ \A q \in Procs : q # p => pc'[q] = pc[q] /\ mem'[q] = mem[q]
  BY DEF AdvanceWatermark, Abort, FenceInv, ProcInv, Goto, Remember
<1>5. OutboxInv'
  BY <1>0, <1>2, <1>3 DEF ReconcileInv, OutboxInv
<1>6. PollerInv'
  <2>1. BatchOK("idle", NoMem) /\ NoMem.last = 0
    BY DEF BatchOK, NoMem, AccountLabels, RebuilderLabels
  <2>2. 0 < nextId /\ \A i \in DOMAIN rows : rows[i].kind = "group" /\ rows[i].keyed => 0 < i
    BY <1>3
  <2> QED
    BY <1>0, <1>2, <1>4, <2>1, <2>2, PollersAreProcs DEF ReconcileInv, PollerInv
<1>7. LeaseInv'
  BY <1>0, <1>4 DEF ReconcileInv, LeaseInv, LeaseLabels
<1>8. SettleInv'
  <2> SUFFICES ASSUME ~excused, Unsettled'
               PROVE  /\ Beyond(watermark)'
                      /\ \A q \in Pollers : PastAt(pc'[q], mem'[q], group) => Beyond(mem[q].last)'
    BY <1>0 DEF SettleInv
  <2>1. Unsettled
    BY <1>0, <1>4 DEF Unsettled
  <2>2. PastAt(pc[p], mem[p], group)
    BY <1>0 DEF PastAt, ObligedAt, HasGroup
  <2>3. \A q \in Pollers : PastAt(pc[q], mem[q], group) => Beyond(mem[q].last)
    BY <2>1 DEF ReconcileInv, SettleInv
  <2>4. Beyond(n)
    BY <1>0, <2>2, <2>3
  <2>5. ASSUME NEW x \in Nat, Beyond(x) PROVE Beyond(x)'
    <3>1. CASE admin = "enqueueGroup"
      BY <1>0, <3>1 DEF Beyond
    <3>2. CASE admin # "enqueueGroup"
      <4>1. PICK i \in DOMAIN rows : i > x /\ rows[i].kind = "group"
        BY <2>5, <3>2 DEF Beyond
      <4>2. PICK j \in DOMAIN rows : j > n /\ rows[j].kind = "group"
        BY <2>4, <3>2 DEF Beyond
      <4>3. CASE i > n
        BY <1>2, <4>1, <4>3 DEF Beyond
      <4>4. CASE ~(i > n)
        <5>1. j > x
          BY <1>3, <4>1, <4>2, <4>4
        <5> QED
          BY <1>2, <4>2, <5>1 DEF Beyond
      <4> QED
        BY <4>3, <4>4
    <3> QED
      BY <3>1, <3>2
  <2>7. ASSUME NEW q \in Pollers, PastAt(pc'[q], mem'[q], group)
        PROVE  Beyond(mem[q].last)'
    <3>1. q # p
      BY <1>4, <2>7 DEF PastAt
    <3>2. pc'[q] = pc[q] /\ mem'[q] = mem[q]
      BY <1>4, <3>1, PollersAreProcs
    <3>3. PICK x : x = mem[q].last
      OBVIOUS
    <3>4. Beyond(x) /\ x \in Nat
      BY <1>3, <2>3, <2>7, <3>2, <3>3
    <3>5. Beyond(x)'
      BY <2>5, <3>4
    <3> QED
      BY <3>2, <3>3, <3>5
  <2>8. Beyond(watermark)'
    <3>1. PICK x : x = n
      OBVIOUS
    <3>2. Beyond(x)'
      BY <1>3, <2>4, <2>5, <3>1
    <3> QED
      BY <1>0, <3>1, <3>2
  <2> QED
    BY <2>7, <2>8
<1> QED
  BY <1>5, <1>6, <1>7, <1>8 DEF ReconcileInv

\* A step outside of the processes that takes no change of the group away
LEMMA SettledRest ==
    ASSUME ReconcileInv, OutboxInv', nextId' >= nextId,
           UNCHANGED <<procVars, lease, group, retired, watermark, excused>>,
           \A i \in DOMAIN rows' : rows'[i].kind = "group" /\ rows'[i].keyed =>
              i >= nextId \/ (i \in DOMAIN rows /\ rows[i] = rows'[i]),
           \A x \in Nat : x < nextId /\ Beyond(x) => Beyond(x)'
    PROVE  ReconcileInv'
<1>0. /\ pc' = pc /\ mem' = mem /\ lease' = lease /\ group' = group /\ retired' = retired
      /\ watermark' = watermark /\ excused' = excused
  BY DEF procVars
<1>1. /\ watermark \in Nat /\ watermark < nextId /\ nextId \in Nat /\ nextId' \in Nat
      /\ \A p \in Pollers : mem[p].last \in Nat /\ mem[p].last < nextId
      /\ \A i \in DOMAIN rows' : i \in Nat
  BY DEF ReconcileInv, OutboxInv, PollerInv, BatchOK
<1>2. PollerInv'
  <2>1. ASSUME NEW p \in Pollers
        PROVE  /\ BatchOK(pc[p], mem[p])
               /\ mem[p].last < nextId'
               /\ \A i \in DOMAIN rows' :
                     rows'[i].kind = "group" /\ rows'[i].keyed => mem[p].last < i
    BY <1>1 DEF ReconcileInv, PollerInv
  <2>2. \A p \in Procs : pc[p] = "event" => p \in Pollers
    BY DEF ReconcileInv, PollerInv
  <2> QED
    BY <1>0, <2>1, <2>2 DEF PollerInv
<1>3. LeaseInv'
  BY <1>0 DEF ReconcileInv, LeaseInv
<1>4. SettleInv'
  <2>1. Unsettled' <=> Unsettled
    BY <1>0 DEF Unsettled
  <2>2. Beyond(watermark) => Beyond(watermark)'
    <3>1. PICK x : x = watermark
      OBVIOUS
    <3> QED
      BY <1>0, <1>1, <3>1
  <2>3. ASSUME NEW p \in Pollers PROVE Beyond(mem[p].last) => Beyond(mem[p].last)'
    <3>1. PICK x : x = mem[p].last
      OBVIOUS
    <3> QED
      BY <1>0, <1>1, <3>1
  <2> QED
    BY <1>0, <2>1, <2>2, <2>3 DEF ReconcileInv, SettleInv
<1> QED
  BY <1>2, <1>3, <1>4 DEF ReconcileInv

\* What an enqueue leaves of rows and ids
LEMMA Enqueued ==
    ASSUME ReconcileInv, NEW kind \in Kinds, EnqueueOutbox(kind), UNCHANGED tx
    PROVE  /\ OutboxInv'
           /\ nextId' >= nextId /\ watermark' = watermark
           /\ DOMAIN rows \subseteq DOMAIN rows'
           /\ \A i \in DOMAIN rows : rows'[i] = rows[i]
           /\ \A i \in DOMAIN rows' : i \in DOMAIN rows \/ i = nextId
           /\ \E i \in DOMAIN rows' : rows'[i].kind = kind /\ rows'[i].keyed
<1>0. /\ nextId \in Nat /\ watermark \in Nat /\ watermark < nextId
      /\ \A i \in DOMAIN rows : i \in Nat /\ i < nextId
  BY DEF ReconcileInv, OutboxInv
<1>1. CASE Duplicate(kind)
  <2>1. UNCHANGED <<rows, nextId, watermark>>
    BY <1>1 DEF EnqueueOutbox
  <2>2. OutboxInv'
    BY <2>1 DEF ReconcileInv, OutboxInv
  <2> QED
    BY <1>0, <1>1, <2>1, <2>2 DEF Duplicate
<1>2. CASE ~Duplicate(kind)
  <2>1. /\ rows' = WithRow(nextId, kind) /\ nextId' = nextId + 1 /\ watermark' = watermark
    BY <1>2 DEF EnqueueOutbox
  <2>2. /\ DOMAIN rows' = DOMAIN rows \cup {nextId}
        /\ rows'[nextId] = [kind |-> kind, keyed |-> TRUE]
        /\ \A i \in DOMAIN rows : i # nextId => rows'[i] = rows[i]
    BY <2>1 DEF WithRow
  <2>3. \A i \in DOMAIN rows : i # nextId
    BY <1>0
  <2>4. OutboxInv'
    <3>1. \A i \in DOMAIN rows' : i \in Nat /\ i < nextId'
                                 /\ rows'[i] \in [kind : Kinds, keyed : BOOLEAN]
      <4>1. [kind |-> kind, keyed |-> TRUE] \in [kind : Kinds, keyed : BOOLEAN]
        OBVIOUS
      <4>2. \A i \in DOMAIN rows : rows[i] \in [kind : Kinds, keyed : BOOLEAN]
        BY DEF ReconcileInv, OutboxInv
      <4>3. \A i \in DOMAIN rows' : rows'[i] \in [kind : Kinds, keyed : BOOLEAN]
        BY <2>2, <2>3, <4>1, <4>2, Zenon
      <4>4. \A i \in DOMAIN rows' : i \in Nat /\ i < nextId'
        BY <1>0, <2>1, <2>2
      <4> QED
        BY <4>3, <4>4
    <3>2. \/ tx' = NoTx
          \/ /\ tx'.row \in Nat /\ tx'.row < nextId'
             /\ tx'.row # 0 => tx'.row \notin DOMAIN rows'
      BY <1>0, <2>1, <2>2 DEF ReconcileInv, OutboxInv
    <3>3. \A i \in DOMAIN rows' : rows'[i].kind = "group" /\ rows'[i].keyed => watermark' < i
      BY <1>0, <2>1, <2>2, <2>3 DEF ReconcileInv, OutboxInv
    <3> QED
      BY <1>0, <2>1, <3>1, <3>2, <3>3 DEF OutboxInv
  <2> QED
    BY <1>0, <2>1, <2>2, <2>3, <2>4
<1> QED
  BY <1>1, <1>2

\* What the group's row, the outbox and the billing do
LEMMA StepDatabase ==
    ASSUME ReconcileInv, UNCHANGED procVars,
           \/ \E r \in Requests, c \in Costs : ApplyUsage(r, c)
           \/ CommitUsage \/ RollbackUsage \/ \E r \in Requests : ArchiveDedup(r)
           \/ ResetQuota \/ ToggleGroup \/ AdminEnqueue \/ AdminSync \/ AdminLosesEvent
           \/ LockExpires \/ LeaseExpires
    PROVE  ReconcileInv'
<1>0. /\ nextId \in Nat /\ watermark \in Nat /\ watermark < nextId
      /\ \A i \in DOMAIN rows : /\ i \in Nat /\ i < nextId
                                /\ rows[i] \in [kind : Kinds, keyed : BOOLEAN]
      /\ \/ tx = NoTx
         \/ tx.row \in Nat /\ tx.row < nextId /\ (tx.row # 0 => tx.row \notin DOMAIN rows)
      /\ \A p \in Pollers : mem[p].last \in Nat /\ mem[p].last < nextId
  BY DEF ReconcileInv, OutboxInv, PollerInv, BatchOK
<1>1. ASSUME UNCHANGED <<rows, nextId, watermark, lease, group, retired, excused>>,
             tx' = tx \/ tx' = NoTx, admin = "enqueueGroup" => admin' = "enqueueGroup"
      PROVE  ReconcileInv'
  <2>1. OutboxInv'
    BY <1>1 DEF ReconcileInv, OutboxInv
  <2>2. \A x : Beyond(x) => Beyond(x)'
    BY <1>1 DEF Beyond
  <2> QED
    BY <1>0, <1>1, <2>1, <2>2, SettledRest
<1>2. ASSUME NEW r \in Requests, NEW c \in Costs, ApplyUsage(r, c) PROVE ReconcileInv'
  <2>1. /\ UNCHANGED <<rows, watermark, lease, group, retired, excused, admin>>
        /\ \/ tx'.row = nextId /\ nextId' = nextId + 1
           \/ tx'.row = 0 /\ nextId' = nextId
    BY <1>2 DEF ApplyUsage, BeginApply, countVars, cacheVars, bucketVars
  <2>2. OutboxInv'
    BY <1>0, <2>1 DEF ReconcileInv, OutboxInv
  <2>3. \A x : Beyond(x) => Beyond(x)'
    BY <2>1 DEF Beyond
  <2>4. nextId' >= nextId
    BY <1>0, <2>1
  <2> QED
    BY <2>1, <2>2, <2>3, <2>4, SettledRest
<1>3. CASE CommitUsage
  <2>1. /\ UNCHANGED <<nextId, watermark, lease, group, retired, excused, admin>> /\ tx' = NoTx
        /\ tx # NoTx
    BY <1>3 DEF CommitUsage, CommitApply, countVars, cacheVars, bucketVars
  <2>2. CASE tx.row = 0
    BY <1>1, <1>3, <2>1, <2>2 DEF CommitUsage
  <2>3. CASE tx.row # 0
    <3>1. rows' = WithRow(tx.row, "account")
      BY <1>3, <2>3 DEF CommitUsage
    <3>2. /\ DOMAIN rows' = DOMAIN rows \cup {tx.row}
          /\ rows'[tx.row] = [kind |-> "account", keyed |-> TRUE]
          /\ \A i \in DOMAIN rows : rows'[i] = rows[i]
      BY <1>0, <2>1, <2>3, <3>1 DEF WithRow
    <3>3. OutboxInv'
      <4>1. \A i \in DOMAIN rows' : i \in Nat /\ i < nextId
                                   /\ rows'[i] \in [kind : Kinds, keyed : BOOLEAN]
        <5>1. [kind |-> "account", keyed |-> TRUE] \in [kind : Kinds, keyed : BOOLEAN]
          BY DEF Kinds
        <5>2. \A i \in DOMAIN rows : rows[i] \in [kind : Kinds, keyed : BOOLEAN]
          BY DEF ReconcileInv, OutboxInv
        <5>3. \A i \in DOMAIN rows' : rows'[i] \in [kind : Kinds, keyed : BOOLEAN]
          BY <3>2, <5>1, <5>2, Zenon
        <5>4. \A i \in DOMAIN rows' : i \in Nat /\ i < nextId
          BY <1>0, <2>1, <3>2
        <5> QED
          BY <5>3, <5>4
      <4>2. \A i \in DOMAIN rows' : rows'[i].kind = "group" /\ rows'[i].keyed => watermark < i
        BY <3>2 DEF ReconcileInv, OutboxInv
      <4> QED
        BY <1>0, <2>1, <4>1, <4>2 DEF OutboxInv
    <3>4. \A x : Beyond(x) => Beyond(x)'
      BY <2>1, <3>2 DEF Beyond
    <3>5. \A i \in DOMAIN rows' : rows'[i].kind = "group" /\ rows'[i].keyed =>
              i >= nextId \/ (i \in DOMAIN rows /\ rows[i] = rows'[i])
      BY <3>2
    <3>6. nextId' >= nextId
      BY <1>0, <2>1
    <3> QED
      BY <2>1, <3>3, <3>4, <3>5, <3>6, SettledRest
  <2> QED
    BY <2>2, <2>3
<1>4. CASE RollbackUsage \/ (\E r \in Requests : ArchiveDedup(r)) \/ ResetQuota \/ AdminSync
           \/ LockExpires
  <2>1. UNCHANGED <<rows, nextId, watermark, lease, group, retired, excused>>
    BY <1>4 DEF RollbackUsage, ArchiveDedup, ResetQuota, AdminSync, LockExpires, countVars,
                cacheVars, bucketVars, outboxVars, UnlockBucket
  <2>2. tx' = tx \/ tx' = NoTx
    BY <1>4 DEF RollbackUsage, RollbackApply, ArchiveDedup, ResetQuota, AdminSync, LockExpires,
                usageVars
  <2>3. admin = "enqueueGroup" => admin' = "enqueueGroup"
    BY <1>4 DEF RollbackUsage, ArchiveDedup, ResetQuota, AdminSync, LockExpires, Quiet
  <2> QED
    BY <1>1, <2>1, <2>2, <2>3
<1>5. CASE ToggleGroup
  <2>1. /\ UNCHANGED <<rows, nextId, watermark, tx, excused, lease, pc, mem>>
        /\ admin' = "enqueueGroup"
    BY <1>5 DEF ToggleGroup, outboxVars, usageVars, cacheVars, bucketVars, procVars
  <2>2. OutboxInv' /\ PollerInv' /\ LeaseInv'
    BY <2>1 DEF ReconcileInv, OutboxInv, PollerInv, LeaseInv
  <2>3. SettleInv'
    BY <2>1 DEF SettleInv, Beyond
  <2> QED
    BY <2>2, <2>3 DEF ReconcileInv
<1>6. CASE AdminEnqueue
  <2>1. UNCHANGED <<tx, lease, group, retired, excused>>
    BY <1>6 DEF AdminEnqueue, usageVars, countVars, cacheVars, bucketVars
  <2>2. PICK kind \in Kinds : /\ EnqueueOutbox(kind)
                              /\ admin = "enqueueGroup" => kind = "group"
    BY <1>6 DEF AdminEnqueue, Kinds
  <2>3. /\ OutboxInv'
        /\ nextId' >= nextId /\ watermark' = watermark
        /\ DOMAIN rows \subseteq DOMAIN rows'
        /\ \A i \in DOMAIN rows : rows'[i] = rows[i]
        /\ \A i \in DOMAIN rows' : i \in DOMAIN rows \/ i = nextId
    BY <2>1, <2>2, Enqueued
  <2>4. \A i \in DOMAIN rows' : i >= nextId \/ (i \in DOMAIN rows /\ rows[i] = rows'[i])
    BY <1>0, <2>3
  <2>5. CASE admin # "enqueueGroup"
    <3>1. \A x : Beyond(x) => Beyond(x)'
      BY <2>3, <2>5 DEF Beyond
    <3> QED
      BY <2>1, <2>3, <2>4, <3>1, SettledRest
  <2>6. CASE admin = "enqueueGroup"
    <3>1. PICK i \in DOMAIN rows' : rows'[i].kind = "group" /\ rows'[i].keyed
      BY <2>1, <2>2, <2>6, Enqueued
    <3>2. CASE i >= nextId
      <4>1. \A x \in Nat : x < nextId => Beyond(x)'
        <5>1. i \in Nat
          BY <2>3 DEF OutboxInv
        <5>2. \A x \in Nat : x < nextId => i > x
          BY <1>0, <3>2, <5>1
        <5> QED
          BY <3>1, <5>2 DEF Beyond
      <4> QED
        BY <2>1, <2>3, <2>4, <4>1, SettledRest
    <3>3. CASE i \in DOMAIN rows /\ rows[i] = rows'[i]
      <4>1. watermark < i /\ \A p \in Pollers : mem[p].last < i
        BY <3>1, <3>3 DEF ReconcileInv, OutboxInv, PollerInv
      <4>2. \A x \in Nat : x < i => Beyond(x)'
        BY <1>0, <3>1, <3>3 DEF Beyond
      <4>3. PollerInv'
        <5>1. pc' = pc /\ mem' = mem
          BY DEF procVars
        <5>2. ASSUME NEW p \in Pollers
              PROVE  /\ BatchOK(pc[p], mem[p])
                     /\ mem[p].last < nextId'
                     /\ \A k \in DOMAIN rows' :
                           rows'[k].kind = "group" /\ rows'[k].keyed => mem[p].last < k
          <6>1. nextId' \in Nat
            BY <2>3 DEF OutboxInv
          <6>2. BatchOK(pc[p], mem[p])
            BY DEF ReconcileInv, PollerInv
          <6>3. mem[p].last < nextId'
            BY <1>0, <2>3, <6>1
          <6>4. ASSUME NEW k \in DOMAIN rows', rows'[k].kind = "group", rows'[k].keyed
                PROVE  mem[p].last < k
            <7>1. CASE k \in DOMAIN rows
              BY <2>3, <6>4, <7>1 DEF ReconcileInv, PollerInv
            <7>2. CASE k = nextId
              BY <1>0, <7>2
            <7> QED
              BY <2>3, <7>1, <7>2
          <6> QED
            BY <6>2, <6>3, <6>4
        <5>3. \A p \in Procs : pc[p] = "event" => p \in Pollers
          BY DEF ReconcileInv, PollerInv
        <5> QED
          BY <5>1, <5>2, <5>3 DEF PollerInv
      <4>4. LeaseInv'
        BY <2>1 DEF ReconcileInv, LeaseInv, procVars
      <4>5. Beyond(watermark)'
        <5>1. PICK x : x = watermark
          OBVIOUS
        <5> QED
          BY <1>0, <2>3, <4>1, <4>2, <5>1
      <4>6. ASSUME NEW p \in Pollers PROVE Beyond(mem[p].last)'
        <5>1. PICK x : x = mem[p].last
          OBVIOUS
        <5>2. mem' = mem
          BY DEF procVars
        <5> QED
          BY <1>0, <4>1, <4>2, <5>1, <5>2
      <4>7. SettleInv'
        BY <4>5, <4>6 DEF SettleInv
      <4> QED
        BY <2>3, <4>3, <4>4, <4>7 DEF ReconcileInv
    <3> QED
      BY <2>4, <3>2, <3>3
  <2> QED
    BY <2>5, <2>6
<1>7. CASE AdminLosesEvent
  <2>1. UNCHANGED <<rows, nextId, watermark, tx, pc, mem>> /\ excused'
    BY <1>7 DEF AdminLosesEvent, outboxVars, usageVars, procVars
  <2> QED
    BY <2>1 DEF ReconcileInv, OutboxInv, PollerInv, LeaseInv, SettleInv
<1>8. CASE LeaseExpires
  <2>1. /\ UNCHANGED <<rows, nextId, watermark, tx, admin, group, retired, pc, mem>>
        /\ ~excused' => ~excused /\ ~HasLease(lease)
    BY <1>8 DEF LeaseExpires, outboxVars, usageVars, procVars, ReleaseGroupLifecycleLease
  <2>2. OutboxInv' /\ PollerInv'
    BY <2>1 DEF ReconcileInv, OutboxInv, PollerInv
  <2>3. LeaseInv'
    BY <2>1 DEF ReconcileInv, LeaseInv, HasLease, LeaseLabels
  <2>4. \A x : Beyond(x)' <=> Beyond(x)
    BY <2>1 DEF Beyond
  <2>5. Unsettled' <=> Unsettled
    BY <2>1 DEF Unsettled
  <2>6. SettleInv'
    BY <2>1, <2>4, <2>5 DEF ReconcileInv, SettleInv
  <2> QED
    BY <2>2, <2>3, <2>6 DEF ReconcileInv
<1> QED
  BY <1>2, <1>3, <1>4, <1>5, <1>6, <1>7, <1>8

LEMMA StepReconcile == FenceInv /\ ReconcileInv /\ [Next]_vars => ReconcileInv'
<1> SUFFICES ASSUME FenceInv, ReconcileInv, [Next]_vars PROVE ReconcileInv'
  OBVIOUS
<1>1. ASSUME \/ \E r \in Requests, c \in Costs : ApplyUsage(r, c)
             \/ CommitUsage \/ RollbackUsage \/ \E r \in Requests : ArchiveDedup(r)
             \/ ResetQuota \/ ToggleGroup \/ AdminEnqueue \/ AdminSync \/ AdminLosesEvent
             \/ LockExpires \/ LeaseExpires
      PROVE  ReconcileInv'
  <2>1. UNCHANGED procVars
    BY <1>1 DEF ApplyUsage, CommitUsage, RollbackUsage, ArchiveDedup, ResetQuota, ToggleGroup,
                AdminEnqueue, AdminSync, AdminLosesEvent, LockExpires, LeaseExpires
  <2> QED
    BY <1>1, <2>1, StepDatabase
<1>2. ASSUME NEW p \in Procs, ReadMiss(p) \/ ListBuckets(p) \/ Crash(p) \/ CallFails(p)
      PROVE  ReconcileInv'
  BY <1>2, StepOther
<1>3. ASSUME NEW p \in Procs, Poll(p) PROVE ReconcileInv'
  BY <1>3, StepPoll
<1>4. ASSUME NEW p \in Procs, Proceed(p) PROVE ReconcileInv'
  BY <1>4, StepRebuild, StepLifecycle, StepDecide, StepEvent, StepAdvance, StepOther
     DEF Proceed
<1>5. CASE UNCHANGED vars
  <2>1. /\ UNCHANGED <<rows, nextId, watermark, group, admin, retired, excused, tx, lease>>
        /\ UNCHANGED <<pc, mem>>
    BY <1>5 DEF vars, usageVars, outboxVars, bucketVars, procVars, countVars
  <2>2. OutboxInv' /\ PollerInv' /\ LeaseInv'
    BY <2>1 DEF ReconcileInv, OutboxInv, PollerInv, LeaseInv
  <2>3. SettleInv'
    BY <2>1 DEF ReconcileInv, SettleInv, Unsettled, Beyond
  <2> QED
    BY <2>2, <2>3 DEF ReconcileInv
<1> QED
  BY <1>1, <1>2, <1>3, <1>4, <1>5 DEF Next

LEMMA InitReconcile == Init => ReconcileInv
<1> SUFFICES ASSUME Init PROVE ReconcileInv
  OBVIOUS
<1>1. PICK old \in BOOLEAN : OutboxInit(old) /\ BucketInit(old) /\ group = ~old
  BY DEF Init
<1>2. /\ nextId = 2 /\ watermark = 0 /\ tx = NoTx
      /\ \A i \in DOMAIN rows : i = 1 /\ rows[i] = [kind |-> "group", keyed |-> FALSE]
  BY <1>1 DEF OutboxInit, Init, UsageInit
<1>3. \A p \in Procs : pc[p] = "idle" /\ mem[p] = NoMem
  BY DEF Init
<1>4. OutboxInv
  <2>1. [kind |-> "group", keyed |-> FALSE] \in [kind : Kinds, keyed : BOOLEAN]
    BY DEF Kinds
  <2>2. \A i \in DOMAIN rows : rows[i] \in [kind : Kinds, keyed : BOOLEAN]
    BY <1>2, <2>1, Zenon
  <2>3. \A i \in DOMAIN rows : i \in Nat /\ i < nextId /\ watermark < i
    BY <1>2
  <2>4. nextId \in Nat /\ watermark \in Nat /\ watermark < nextId
    BY <1>2
  <2> QED
    BY <1>2, <2>2, <2>3, <2>4 DEF OutboxInv
<1>5. PollerInv
  <2>1. BatchOK("idle", NoMem) /\ NoMem.last = 0
    BY DEF BatchOK, NoMem, AccountLabels, RebuilderLabels
  <2> QED
    BY <1>2, <1>3, <2>1, PollersAreProcs DEF PollerInv
<1>6. LeaseInv
  BY <1>3 DEF LeaseInv, LeaseLabels
<1>7. ~(retired <=> group)
  BY <1>1 DEF BucketInit
<1>8. SettleInv
  BY <1>3, <1>7 DEF SettleInv, Unsettled
<1> QED
  BY <1>4, <1>5, <1>6, <1>8 DEF ReconcileInv

\* However many instances poll and rebuild, whatever crashes, fails or finds the
\* lease taken: when all events are consumed and nobody is at work, the bucket is
\* retired exactly when the group is disabled.
THEOREM Reconciled == Spec => []ConsumedMeansReconciled
<1>1. ReconcileInv => ConsumedMeansReconciled
  <2> SUFFICES ASSUME ReconcileInv, ~ConsumedMeansReconciled PROVE FALSE
    OBVIOUS
  <2>0. Quiet /\ ~excused /\ (retired <=> group)
    BY Zenon DEF ConsumedMeansReconciled
  <2>1. Beyond(watermark)
    BY <2>0 DEF ReconcileInv, SettleInv, Unsettled
  <2> QED
    BY <2>0, <2>1 DEF Beyond, Quiet, After
<1> QED
  BY <1>1, InitFence, InitReconcile, StepReconcile, StepFence, PTL DEF Spec

-----------------------------------------------------------------------------
(* Type correctness *)

Metas == {"absent", "under", "over"}
Admins == {"idle", "enqueueAccount", "enqueueGroup", "sync", "under", "over"}

\* What a process remembers of the account, and that only pollers have a batch
MemTypeOK(p, m) ==
    /\ m.data \in Metas
    /\ p \notin Pollers => m.batch = <<>> /\ m.last = 0

MemTypeInv == \A p \in Procs : MemTypeOK(p, mem[p])

CacheTypeInv ==
    /\ meta \in Metas
    /\ snapEpoch \in 0..epoch
    /\ lock \in Procs \cup {NoProc}
    /\ lease \in Procs \cup {NoProc}

\* The sequence starts at 1; 0 says that a transaction has no outbox row.
AdminTypeInv ==
    /\ group \in BOOLEAN
    /\ admin \in Admins
    /\ 0 \notin DOMAIN rows

TypeInv == UsageTypeOK /\ AdminTypeInv /\ CacheTypeInv /\ MemTypeInv

LEMMA MemMoves ==
    ASSUME FenceInv, MemTypeInv, NEW p \in Procs, NEW m, Remember(p, m), MemTypeOK(p, m)
    PROVE  MemTypeInv'
<1> SUFFICES ASSUME NEW q \in Procs PROVE MemTypeOK(q, mem'[q])
  BY DEF MemTypeInv
<1>1. mem'[p] = m /\ (q # p => mem'[q] = mem[q])
  BY DEF FenceInv, ProcInv, Remember
<1> QED
  BY <1>1 DEF MemTypeInv

LEMMA MemForgets ==
    ASSUME FenceInv, MemTypeInv, NEW p \in Procs, NEW marks, Abort(p) \/ Handled(p, marks)
    PROVE  MemTypeInv'
<1>1. MemTypeOK(p, NoMem)
  BY DEF MemTypeOK, NoMem, Metas
<1>2. CASE Remember(p, NoMem)
  BY <1>1, <1>2, MemMoves
<1>3. CASE p \in Pollers /\ Handled(p, marks)
  <2> DEFINE m == [NoMem EXCEPT !.batch = Tail(mem[p].batch), !.last = mem[p].last,
                                !.seen = mem[p].seen \cup marks]
  <2>1. MemTypeOK(p, m)
    BY <1>3 DEF MemTypeOK, NoMem, Metas
  <2>2. Remember(p, m)
    BY <1>3 DEF Handled
  <2> HIDE DEF m
  <2> QED
    BY <2>1, <2>2, MemMoves
<1> QED
  BY <1>2, <1>3 DEF Abort, Handled

\* A process loads what a query of the account finds.
LEMMA StepMemTypes ==
    ASSUME FenceInv, ReconcileInv, MemTypeInv, NEW p \in Procs,
           ReadMiss(p) \/ Poll(p) \/ ListBuckets(p) \/ Proceed(p) \/ Crash(p) \/ CallFails(p)
    PROVE  MemTypeInv'
<1>0. DOMAIN mem[p] = MemFields /\ MemTypeOK(p, mem[p])

  BY DEF FenceInv, ProcInv, MemOK, MemTypeInv
<1>1. Current \in Metas
  BY DEF Current, Metas
<1>2. CASE UNCHANGED mem
  BY <1>2 DEF MemTypeInv
<1>3. ASSUME NEW marks, Abort(p) \/ Handled(p, marks) PROVE MemTypeInv'
  BY <1>3, MemForgets
<1>4. ASSUME NEW t, Remember(p, [mem[p] EXCEPT !.token = t]) PROVE MemTypeInv'
  <2> DEFINE m == [mem[p] EXCEPT !.token = t]
  <2>1. MemTypeOK(p, m)
    BY <1>0 DEF MemTypeOK, MemFields
  <2> HIDE DEF m
  <2> QED
    BY <1>4, <2>1, MemMoves DEF m
<1>5. CASE ReadMiss(p)
  <2> DEFINE m == [NoMem EXCEPT !.token = epoch]
  <2>1. MemTypeOK(p, m) /\ Remember(p, m)
    BY <1>5 DEF MemTypeOK, NoMem, Metas, ReadMiss
  <2> HIDE DEF m
  <2> QED
    BY <2>1, MemMoves
<1>6. CASE Poll(p)
  <2>1. PICK ids \in Listings :
          Remember(p, [NoMem EXCEPT !.batch = [i \in DOMAIN ids |-> rows[ids[i]].kind],
                                    !.last = Last(ids)])
    BY <1>6 DEF Poll
  <2> DEFINE m == [NoMem EXCEPT !.batch = [i \in DOMAIN ids |-> rows[ids[i]].kind],
                                !.last = Last(ids)]
  <2>2. MemTypeOK(p, m)
    BY <1>6 DEF MemTypeOK, NoMem, Metas, Poll
  <2>3. Remember(p, m)
    BY <2>1
  <2> HIDE DEF m
  <2> QED
    BY <2>2, <2>3, MemMoves
<1>7. CASE Capture(p) \/ CaptureCanonical(p)
  BY <1>2, <1>3, <1>4, <1>7 DEF Capture, CaptureCanonical
<1>8. CASE LockForRebuild(p) \/ Unlock(p) \/ AcquireLease(p) \/ SkipGroupEvent(p)
           \/ AdvanceWatermark(p)
  BY <1>2, <1>3, <1>8 DEF LockForRebuild, Unlock, AcquireLease, SkipGroupEvent, AdvanceWatermark
<1>9. CASE Load(p)
  <2> DEFINE m == [mem[p] EXCEPT !.data = Current, !.loaded = epoch]
  <2>1. MemTypeOK(p, m)
    BY <1>0, <1>1 DEF MemTypeOK, MemFields
  <2>2. Remember(p, m)
    BY <1>9 DEF Load
  <2> HIDE DEF m
  <2> QED
    BY <2>1, <2>2, MemMoves
<1>10. ASSUME Fenced(p) PROVE MemTypeInv'
  BY <1>2, <1>3, <1>10 DEF Fenced, Abort
<1>11. CASE WriteSnapshot(p)
  <2> DEFINE m == [mem[p] EXCEPT !.data = "absent"]
  <2>1. MemTypeOK(p, m)
    BY <1>0 DEF MemTypeOK, MemFields, Metas
  <2>2. Fenced(p) \/ Remember(p, m)
    BY <1>11 DEF WriteSnapshot
  <2> HIDE DEF m
  <2> QED
    BY <1>10, <2>1, <2>2, MemMoves
<1>12. CASE ActivateSnapshot(p)
  BY <1>2, <1>3, <1>10, <1>12 DEF ActivateSnapshot
<1>13. CASE ReadGroup(p)
  <2> DEFINE m == [mem[p] EXCEPT !.open = group]
  <2>1. MemTypeOK(p, m)
    BY <1>0 DEF MemTypeOK, MemFields
  <2>2. Remember(p, m)
    BY <1>13 DEF ReadGroup
  <2> HIDE DEF m
  <2> QED
    BY <2>1, <2>2, MemMoves
<1>14. CASE Decide(p)
  BY <1>2, <1>4, <1>14 DEF Decide
<1>15. CASE ReleaseLease(p)
  <2> DEFINE m == [mem[p] EXCEPT !.strict = TRUE]
  <2>1. MemTypeOK(p, m)
    BY <1>0 DEF MemTypeOK, MemFields
  <2>2. Abort(p) \/ Remember(p, m) \/ Handled(p, {"lifecycle", "bucket"})
    BY <1>15 DEF ReleaseLease
  <2> HIDE DEF m
  <2> QED
    BY <1>3, <2>1, <2>2, MemMoves
<1>16. CASE HandleAccountEvent(p)
  <2> DEFINE m == [mem[p] EXCEPT !.data = Current]
  <2>1. MemTypeOK(p, m)
    BY <1>0, <1>1 DEF MemTypeOK, MemFields
  <2>2. Remember(p, m)
    BY <1>16 DEF HandleAccountEvent
  <2> HIDE DEF m
  <2> QED
    BY <2>1, <2>2, MemMoves
<1>17. CASE SetAccount(p)
  <2> DEFINE m == [mem[p] EXCEPT !.data = "absent", !.seen = mem[p].seen \cup {"bucket"}]
  <2>1. MemTypeOK(p, m)
    BY <1>0 DEF MemTypeOK, MemFields, Metas
  <2>2. Handled(p, {}) \/ Remember(p, m)
    BY <1>0, <1>17 DEF SetAccount, MemFields
  <2> HIDE DEF m
  <2> QED
    BY <1>3, <2>1, <2>2, MemMoves
<1>18. CASE ListBuckets(p) \/ ListActiveGroups(p)
  BY <1>2, <1>18 DEF ListBuckets, ListActiveGroups
<1>19. CASE Crash(p) \/ CallFails(p)
  BY <1>3, <1>19 DEF Crash, CallFails
<1> QED
  BY <1>5, <1>6, <1>7, <1>8, <1>9, <1>11, <1>12, <1>13, <1>14, <1>15, <1>16, <1>17,
     <1>18, <1>19
  DEF Proceed

\* The steps of the database: what they do to the tables.
LEMMA StepDatabaseTypes ==
    ASSUME FenceInv, ReconcileInv, TypeInv,
           \/ \E r \in Requests, c \in Costs : ApplyUsage(r, c)
           \/ CommitUsage \/ RollbackUsage \/ \E r \in Requests : ArchiveDedup(r)
           \/ ResetQuota \/ ToggleGroup \/ AdminEnqueue \/ AdminSync \/ AdminLosesEvent
    PROVE  UsageTypeOK' /\ AdminTypeInv'
<1>0. UsageTypeOK /\ AdminTypeInv /\ nextId \in Nat /\ nextId > 0
  BY DEF TypeInv, ReconcileInv, OutboxInv
<1> USE DEF usageVars, dedupVars, outboxVars
<1>1. ASSUME NEW r \in Requests, NEW c \in Costs, ApplyUsage(r, c)
      PROVE  UsageTypeOK' /\ AdminTypeInv'
  <2>1. PICK row \in Nat : BeginApply(r, c, row)
    BY <1>0, <1>1 DEF ApplyUsage
  <2>2. tx' = [request |-> r, cost |-> c, row |-> row]
        /\ UNCHANGED <<dedup, archive, balance, keyUsed, keyStatus, used>>
    BY <2>1 DEF BeginApply
  <2>3. tx' \in [request : Requests, cost : Costs, row : Nat]
    BY <2>2
  <2> QED
    BY <1>0, <1>1, <2>2, <2>3 DEF ApplyUsage, UsageTypeOK, AdminTypeInv
<1>2. CASE CommitUsage
  <2>1. tx.request \in Requests /\ tx.cost \in Costs /\ tx.row \in Nat /\ tx.cost \in Nat
    BY <1>0, <1>2, UsageAssumption DEF CommitUsage, CommitApply, UsageTypeOK
  <2>2. DOMAIN dedup' = DOMAIN dedup \cup {tx.request} /\ archive' = archive
    BY <1>2 DEF CommitUsage, CommitApply, Claim, Inserted
  <2>3. UsageTypeOK'
    BY <1>0, <1>2, <2>1, <2>2 DEF CommitUsage, CommitApply, UsageTypeOK
  <2>4. 0 \notin DOMAIN rows'
    BY <1>0, <1>2, <2>1 DEF CommitUsage, WithRow, AdminTypeInv
  <2> QED
    BY <1>0, <1>2, <2>3, <2>4 DEF CommitUsage, AdminTypeInv
<1>3. CASE RollbackUsage
  BY <1>0, <1>3 DEF RollbackUsage, RollbackApply, UsageTypeOK, AdminTypeInv
<1>4. ASSUME NEW r \in Requests, ArchiveDedup(r) PROVE UsageTypeOK' /\ AdminTypeInv'
  <2>1. DOMAIN archive' = DOMAIN archive \cup {r} /\ DOMAIN dedup' = DOMAIN dedup \ {r}
    BY <1>4 DEF ArchiveDedup, CleanupUsageBillingDedup, Inserted
  <2> QED
    BY <1>0, <1>4, <2>1 DEF ArchiveDedup, UsageTypeOK, AdminTypeInv
<1>5. CASE ResetQuota
  BY <1>0, <1>5 DEF ResetQuota, UsageTypeOK, AdminTypeInv, Admins
<1>6. CASE ToggleGroup
  BY <1>0, <1>6 DEF ToggleGroup, UsageTypeOK, AdminTypeInv, Admins
<1>7. CASE AdminEnqueue
  <2>1. ASSUME NEW kind, EnqueueOutbox(kind) PROVE 0 \notin DOMAIN rows'
    BY <1>0, <2>1 DEF EnqueueOutbox, WithRow, AdminTypeInv
  <2> QED
    BY <1>0, <1>7, <2>1 DEF AdminEnqueue, UsageTypeOK, AdminTypeInv, Admins
<1>8. CASE AdminSync
  BY <1>0, <1>8 DEF AdminSync, UsageTypeOK, AdminTypeInv, Admins, Current
<1>9. CASE AdminLosesEvent
  BY <1>0, <1>9 DEF AdminLosesEvent, UsageTypeOK, AdminTypeInv, Admins
<1> QED
  BY <1>1, <1>2, <1>3, <1>4, <1>5, <1>6, <1>7, <1>8, <1>9

\* The steps of the processes: they add no row.
LEMMA StepProcessTypes ==
    ASSUME FenceInv, ReconcileInv, TypeInv, NEW p \in Procs,
           ReadMiss(p) \/ Poll(p) \/ ListBuckets(p) \/ Proceed(p) \/ Crash(p) \/ CallFails(p)
    PROVE  UsageTypeOK' /\ AdminTypeInv'
<1>1. UNCHANGED <<usageVars, group, admin>>
  BY DEF dbVars, ReadMiss, Poll, ListBuckets, Proceed, Crash, CallFails, Capture,
         LockForRebuild, Load, WriteSnapshot, ActivateSnapshot, Unlock, AcquireLease,
         ReadGroup, Decide, ReleaseLease, HandleAccountEvent, SetAccount, SkipGroupEvent,
         AdvanceWatermark, ListActiveGroups, CaptureCanonical
<1>2. DOMAIN rows' \subseteq DOMAIN rows
  <2>1. CASE Poll(p)
    BY <2>1 DEF Poll, ListAfterAndReleaseDedup
  <2>2. CASE AdvanceWatermark(p)
    BY <2>2 DEF AdvanceWatermark, DeleteConsumedUpTo, After
  <2>3. CASE UNCHANGED rows
    BY <2>3
  <2> QED
    BY <2>1, <2>2, <2>3
    DEF outboxVars, ReadMiss, ListBuckets, Proceed, Crash, CallFails, Capture,
        LockForRebuild, Load, WriteSnapshot, ActivateSnapshot, Unlock, AcquireLease,
        ReadGroup, Decide, ReleaseLease, HandleAccountEvent, SetAccount, SkipGroupEvent,
        ListActiveGroups, CaptureCanonical
<1> QED
  BY <1>1, <1>2 DEF TypeInv, UsageTypeOK, AdminTypeInv, usageVars, dedupVars

LEMMA StepCacheTypes ==
    ASSUME FenceInv, ReconcileInv, TypeInv, [Next]_vars
    PROVE  CacheTypeInv'
<1>0. /\ CacheTypeInv /\ MemTypeInv /\ AdminTypeInv /\ epoch \in Nat
      /\ \A p \in Procs : mem[p].data \in Metas /\ mem[p].loaded \in 0..epoch
  BY DEF TypeInv, FenceInv, BucketInv, ProcInv, MemOK, MemTypeInv, MemTypeOK
<1> USE DEF cacheVars, bucketVars
<1>1. CASE UNCHANGED cacheVars
  BY <1>0, <1>1 DEF CacheTypeInv
<1>2. CASE AdminSync
  BY <1>0, <1>2 DEF AdminSync, CacheTypeInv, AdminTypeInv, Admins, Metas
<1>3. CASE LockExpires \/ LeaseExpires
  BY <1>0, <1>3
     DEF LockExpires, LeaseExpires, UnlockBucket, ReleaseGroupLifecycleLease, CacheTypeInv
<1>4. ASSUME NEW p \in Procs, LockForRebuild(p) \/ Unlock(p) PROVE CacheTypeInv'
  BY <1>0, <1>4 DEF LockForRebuild, Unlock, TryLockBucket, UnlockBucket, CacheTypeInv
<1>5. ASSUME NEW p \in Procs, AcquireLease(p) \/ ReleaseLease(p) PROVE CacheTypeInv'
  BY <1>0, <1>5 DEF AcquireLease, ReleaseLease, TryAcquireGroupLifecycleLease,
                    ReleaseGroupLifecycleLease, CacheTypeInv
<1>6. ASSUME NEW p \in Procs, WriteSnapshot(p) \/ SetAccount(p) PROVE CacheTypeInv'
  BY <1>0, <1>6 DEF WriteSnapshot, SetAccount, CacheTypeInv
<1>7. ASSUME NEW p \in Procs, ActivateSnapshot(p) PROVE CacheTypeInv'
  BY <1>0, <1>7 DEF ActivateSnapshot, Activate, CacheTypeInv
<1>8. ASSUME NEW p \in Procs, Decide(p) PROVE CacheTypeInv'
  <2>1. UNCHANGED <<meta, lock, lease>> /\ epoch' \in Nat /\ epoch <= epoch'
    BY <1>0, <1>8 DEF Decide, ReopenBucket, RetireBucket
  <2>2. snapEpoch' = snapEpoch \/ snapEpoch' = 0
    BY <1>8 DEF Decide
  <2> QED
    BY <1>0, <2>1, <2>2 DEF CacheTypeInv
<1>9. ASSUME NEW p \in Procs, CallFails(p) PROVE CacheTypeInv'
  BY <1>0, <1>9 DEF CallFails, CacheTypeInv
<1>10. ASSUME NEW p \in Procs, Proceed(p) PROVE CacheTypeInv'
  BY <1>1, <1>4, <1>5, <1>6, <1>7, <1>8, <1>10
     DEF Proceed, Capture, Load, ReadGroup, HandleAccountEvent, SkipGroupEvent,
         AdvanceWatermark, ListActiveGroups, CaptureCanonical
<1>11. ASSUME NEW p \in Procs, ReadMiss(p) \/ Poll(p) \/ ListBuckets(p) \/ Crash(p)
       PROVE  CacheTypeInv'
  BY <1>1, <1>11 DEF ReadMiss, Poll, ListBuckets, Crash
<1>12. CASE \/ \E r \in Requests, c \in Costs : ApplyUsage(r, c)
            \/ CommitUsage \/ RollbackUsage \/ \E r \in Requests : ArchiveDedup(r)
            \/ ResetQuota \/ ToggleGroup \/ AdminEnqueue \/ AdminLosesEvent
  BY <1>1, <1>12 DEF ApplyUsage, CommitUsage, RollbackUsage, ArchiveDedup, ResetQuota,
                     ToggleGroup, AdminEnqueue, AdminLosesEvent
<1>13. CASE UNCHANGED vars
  BY <1>1, <1>13 DEF vars
<1> QED
  BY <1>2, <1>3, <1>9, <1>10, <1>11, <1>12, <1>13 DEF Next

LEMMA StepTypes ==
    ASSUME FenceInv, ReconcileInv, TypeInv, [Next]_vars
    PROVE  TypeInv'
<1>1. CacheTypeInv'
  BY StepCacheTypes
<1>2. ASSUME NEW p \in Procs,
             ReadMiss(p) \/ Poll(p) \/ ListBuckets(p) \/ Proceed(p) \/ Crash(p) \/ CallFails(p)
      PROVE  UsageTypeOK' /\ AdminTypeInv' /\ MemTypeInv'
  BY <1>2, StepProcessTypes, StepMemTypes DEF TypeInv
<1>3. ASSUME UNCHANGED procVars PROVE MemTypeInv'
  BY <1>3 DEF TypeInv, MemTypeInv, procVars
<1>4. ASSUME \/ \E r \in Requests, c \in Costs : ApplyUsage(r, c)
             \/ CommitUsage \/ RollbackUsage \/ \E r \in Requests : ArchiveDedup(r)
             \/ ResetQuota \/ ToggleGroup \/ AdminEnqueue \/ AdminSync \/ AdminLosesEvent
      PROVE  UsageTypeOK' /\ AdminTypeInv' /\ MemTypeInv'
  <2>1. UNCHANGED procVars
    BY <1>4 DEF ApplyUsage, CommitUsage, RollbackUsage, ArchiveDedup, ResetQuota, ToggleGroup,
                AdminEnqueue, AdminSync, AdminLosesEvent
  <2> QED
    BY <1>3, <1>4, <2>1, StepDatabaseTypes
<1>5. ASSUME LockExpires \/ LeaseExpires \/ UNCHANGED vars
      PROVE  UsageTypeOK' /\ AdminTypeInv' /\ MemTypeInv'
  <2>1. UNCHANGED <<usageVars, outboxVars, group, admin, procVars>>
    BY <1>5 DEF LockExpires, LeaseExpires, vars
  <2> QED
    BY <1>3, <2>1 DEF TypeInv, UsageTypeOK, AdminTypeInv, usageVars, dedupVars, outboxVars
<1> QED
  BY <1>1, <1>2, <1>4, <1>5 DEF Next, TypeInv

LEMMA InitTypes == Init => TypeInv
<1> SUFFICES ASSUME Init PROVE TypeInv
  OBVIOUS
<1>1. PICK old \in BOOLEAN : OutboxInit(old) /\ BucketInit(old) /\ group = ~old
  BY DEF Init
<1>2. UsageTypeOK
  BY UsageAssumption DEF Init, UsageInit, DedupInit, UsageTypeOK
<1>3. AdminTypeInv
  BY <1>1 DEF Init, OutboxInit, AdminTypeInv, Admins
<1>4. CacheTypeInv
  BY <1>1 DEF Init, BucketInit, CacheTypeInv, Metas
<1>5. MemTypeInv
  BY DEF Init, MemTypeInv, MemTypeOK, NoMem, Metas
<1> QED
  BY <1>2, <1>3, <1>4, <1>5 DEF TypeInv

\* Tables, cache and processes keep their types: no process holds a token of an
\* epoch that has not begun or the id of a row that was never inserted, and no
\* row of the outbox has the id that says "no row".
THEOREM TypeCorrect == Spec => []TypeOK
<1>1. FenceInv /\ ReconcileInv /\ TypeInv => TypeOK
  <2> SUFFICES ASSUME FenceInv, ReconcileInv, TypeInv PROVE TypeOK
    OBVIOUS
  <2>1. OutboxTypeOK
    BY DEF ReconcileInv, OutboxInv, TypeInv, AdminTypeInv, OutboxTypeOK
  <2>2. ASSUME NEW p \in Procs
        PROVE  /\ mem[p].token \in 0..epoch
               /\ mem[p].last \in 0..(nextId - 1)
               /\ ToSet(mem[p].batch) \subseteq Kinds
    <3>1. mem[p].token \in 0..epoch
      BY DEF FenceInv, ProcInv, MemOK
    <3>2. nextId \in Nat /\ nextId > 0
      BY DEF ReconcileInv, OutboxInv
    <3>3. CASE p \in Pollers
      <4>1. mem[p].batch \in Seq(Kinds) /\ mem[p].last \in Nat /\ mem[p].last < nextId
        BY <3>3 DEF ReconcileInv, PollerInv, BatchOK
      <4> QED
        BY <3>1, <3>2, <4>1 DEF ToSet
    <3>4. CASE p \notin Pollers
      <4>1. mem[p].batch = <<>> /\ mem[p].last = 0
        BY <3>4 DEF TypeInv, MemTypeInv, MemTypeOK
      <4> QED
        BY <3>1, <3>2, <4>1 DEF ToSet
    <3> QED
      BY <3>3, <3>4
  <2> QED
    BY <2>1, <2>2 DEF TypeOK, TypeInv, AdminTypeInv, CacheTypeInv, Admins, Metas
<1> QED
  BY <1>1, InitFence, InitReconcile, InitTypes, StepFence, StepReconcile, StepTypes, PTL
  DEF Spec
=============================================================================
