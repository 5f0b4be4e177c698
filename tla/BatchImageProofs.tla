-------------------------- MODULE BatchImageProofs --------------------------
(***************************************************************************)
(* Proofs about BatchImage and the balance holds it is composed of, for    *)
(* any number of jobs and workers, any hold and costs, and any number of   *)
(* retries, failing calls and crashes.                                     *)
(***************************************************************************)
EXTENDS BatchImage, FiniteSetTheorems, TLAPS

-----------------------------------------------------------------------------
(* The inductive invariant                                                 *)

Finished == {"failed", "cancelled"}
Paid == {"completed", "output_deleted"}

\* A request of Submit before the provider's name is stored
Unnamed == {"create", "reserve", "items", "upload", "provider", "name", "abort",
            "release", "releaseOnly", "record", "recordUnreleased"}

\* and after it, or when nothing will be submitted any more
Past == {"release", "releaseOnly", "record", "recordUnreleased", "enqueue", "done"}

\* The two halves of the pipeline: the provider's job and the settlement
Providing == {"get", "toRunning", "toIndexing", "toFailed", "toCancelled", "toSettling", "index"}
Settling == {"settle", "capture", "mark", "settlementFailed", "exhaust", "toExhausted"}

\* The provider has answered that it is not working on the job.
Answered == (Providing \ {"get", "toRunning"}) \cup Settling

TypeInv ==
    /\ TypeOK
    /\ archive = <<>>

\* The dedup rows are the record of what has moved.
MoneyInv(j) ==
    /\ "hold" \in moves[j] <=> Claimed(HoldId(j))
    /\ "capture" \in moves[j] <=> Claimed(CaptureId(j))
    /\ "release" \in moves[j] => Claimed(ReleaseId(j))
    /\ "capture" \in moves[j] => dedup[CaptureId(j)] = charged[j]
    /\ moves[j] # {} => "hold" \in moves[j]

\* How far Submit has come
SubmitInv(j) ==
    /\ submit[j] \in Unnamed => ~named[j]
    /\ ~named[j] => status[j] \in {"none"} \cup Unsubmitted \cup Finished
    /\ named[j] => provider[j] # "none" /\ "hold" \in moves[j]
    /\ submit[j] = "create" => status[j] = "none"
    /\ submit[j] \in {"create", "reserve"} => "hold" \notin moves[j]
    /\ submit[j] \in Unnamed \ {"create", "reserve", "record"} => "hold" \in moves[j]
    /\ submit[j] \in {"create", "reserve", "items", "upload", "provider"} => provider[j] = "none"
    /\ submit[j] = "name" => provider[j] # "none"
    /\ submit[j] = "record" => Claimed(ReleaseId(j)) \/ "hold" \notin moves[j]

\* What the row says of the provider and the money
RowInv(j) ==
    /\ status[j] \in {"indexing", "settling"} \cup Paid => named[j] /\ provider[j] # "running"
    /\ status[j] = "failed" /\ named[j] => provider[j] # "running"
    /\ status[j] \in Paid => "capture" \in moves[j]
    /\ "capture" \in moves[j] =>
         named[j] /\ charged[j] = cost[j] /\ status[j] \in {"settling"} \cup Terminal
    /\ cancel[j] = "release" \/ sweep[j] = "release" => status[j] \in Finished

\* Money goes back to the user only for a job that is finished, was never submitted,
\* or is given up; after its capture only for one that is given up.
RefundInv(j) ==
    /\ "release" \in moves[j] =>
         status[j] \in Finished \/ (~named[j] /\ submit[j] \in Past) \/ retry[j] = MaxRetries
    /\ "capture" \in moves[j] /\ (status[j] \in Finished \/ "release" \in moves[j]) =>
         retry[j] = MaxRetries \/ lapsed[j]

\* Nothing has to be done for the job's money any more, or a second worker has
\* got in its way.
Settled(j) ==
    \/ Claimed(ReleaseId(j))
    \/ "capture" \in moves[j]
    \/ lapsed[j] /\ status[j] \in {"settling", "failed"}

\* A request, the sweep, the queue or a worker leads to the job's hold.
Cared(j) ==
    \/ Settled(j) \/ dropped[j]
    \/ status[j] \in Unsubmitted
    \/ submit[j] \in {"recordUnreleased", "enqueue"}
    \/ cancel[j] \in {"release", "enqueue"}
    \/ sweep[j] \in {"release", "enqueue"}
    \/ j \in pending
    \/ \E w \in Workers : holding[w] = j

CareInv(j) == "hold" \in moves[j] \/ submit[j] = "reserve" => Cared(j)

\* What a worker at a step knows of its job
KnownInv(step, j) ==
    /\ step \in Providing \cup Settling => named[j]
    /\ step \in Answered => provider[j] # "running"
    /\ step \in Settling => status[j] \in {"settling"} \cup Terminal
    /\ step = "mark" => "capture" \in moves[j]
    /\ step = "release" => status[j] \in Finished
    /\ step \in {"exhaust", "toExhausted"} => retry[j] = MaxRetries
    /\ step = "toExhausted" => Claimed(ReleaseId(j))
    /\ step = "ack" => Settled(j)
    /\ j \in pending \/ Settled(j)
    /\ ~lapsed[j] =>
         /\ step \in Providing \cup {"process"} => status[j] # "settling"
         /\ step = "capture" => status[j] = "settling"

WorkInv(w) == holding[w] # NoJob => KnownInv(work[w], holding[w])

\* Two workers have a job only after its lock has lapsed.
LockInv ==
    \A v, w \in Workers : holding[v] = holding[w] /\ holding[v] # NoJob =>
        v = w \/ lapsed[holding[v]]

Both == {j \in Jobs : {"capture", "release"} \subseteq moves[j]}
Frozen == {j \in Jobs : Outstanding(j)}

FrozenInv == frozen + Hold * Cardinality(Both) = OtherFrozen + Hold * Cardinality(Frozen)

JobInv(j) == MoneyInv(j) /\ SubmitInv(j) /\ RowInv(j) /\ RefundInv(j) /\ CareInv(j)

IInv ==
    /\ TypeInv
    /\ \A j \in Jobs : JobInv(j)
    /\ \A w \in Workers : WorkInv(w)
    /\ LockInv
    /\ FrozenInv

-----------------------------------------------------------------------------
(* Types                                                                   *)

RowType ==
    /\ status \in [Jobs -> Live \cup Terminal \cup {"none"}]
    /\ named \in [Jobs -> BOOLEAN]
    /\ cost \in [Jobs -> Costs \cup {0}]
    /\ retry \in [Jobs -> 0..MaxRetries]
    /\ age \in [Jobs -> {"fresh", "stale"}]

ProviderType == provider \in [Jobs -> {"none", "running", "succeeded", "failed", "cancelled"}]

RequestType ==
    /\ submit \in [Jobs -> SubmitSteps]
    /\ cancel \in [Jobs -> CancelSteps]
    /\ sweep \in [Jobs -> {"idle", "listed", "release", "enqueue"}]

WorkerType ==
    /\ work \in [Workers -> WorkSteps]
    /\ holding \in [Workers -> Jobs \cup {NoJob}]
    /\ \A w \in Workers : holding[w] = NoJob <=> work[w] = "idle"

QueueType ==
    /\ pending \subseteq Jobs
    /\ dropped \in [Jobs -> BOOLEAN]
    /\ lapsed \in [Jobs -> BOOLEAN]

FaultType == faults \in 0..MaxFaults /\ crashes \in 0..MaxCrashes

HoldsType == HoldsTypeOK /\ archive = <<>>

LEMMA TypeParts ==
    TypeInv <=> /\ RowType /\ ProviderType /\ RequestType /\ WorkerType
                /\ QueueType /\ FaultType /\ HoldsType
BY DEF TypeInv, TypeOK, RowType, ProviderType, RequestType, WorkerType, QueueType, FaultType,
       HoldsType

LEMMA TypeAfter ==
    /\ RowType' /\ ProviderType' /\ RequestType' /\ WorkerType'
    /\ QueueType' /\ FaultType' /\ HoldsType'
    => TypeInv'
BY DEF TypeInv, TypeOK, RowType, ProviderType, RequestType, WorkerType, QueueType, FaultType,
       HoldsType

LEMMA RowStays == RowType /\ UNCHANGED rowVars => RowType'
BY DEF RowType, rowVars

LEMMA RowSet ==
    ASSUME RowType, NEW j \in Jobs, NEW to \in Live \cup Terminal, SetStatus(j, to)
    PROVE  RowType'
BY DEF RowType, SetStatus

LEMMA FaultOK ==
    ASSUME FaultType, Fault \/ NoFault, UNCHANGED crashes
    PROVE  FaultType'
BY BatchAssumption DEF FaultType, Fault, NoFault

LEMMA CrashOK ==
    ASSUME FaultType, crashes < MaxCrashes, crashes' = crashes + 1, UNCHANGED faults
    PROVE  FaultType'
BY BatchAssumption DEF FaultType

\* A worker that has a job goes on to another step.
LEMMA WorkTyped ==
    ASSUME RequestType, WorkerType, ProviderType, NEW w \in Workers, holding[w] # NoJob,
           NEW at, NEW to \in WorkSteps \ {"idle"}, WorkAt(w, at, to), UNCHANGED holding
    PROVE  RequestType' /\ WorkerType' /\ ProviderType' /\ UNCHANGED crashes
<1>1. RequestType' /\ ProviderType' /\ UNCHANGED crashes
  BY DEF RequestType, ProviderType, WorkAt
<1>2. work' = [work EXCEPT ![w] = to]
  BY DEF WorkAt
<1>3. work' \in [Workers -> WorkSteps] /\ \A v \in Workers : v # w => work'[v] = work[v]
  BY <1>2 DEF WorkerType
<1>4. work'[w] = to
  BY <1>2 DEF WorkerType
<1> QED
  BY <1>1, <1>3, <1>4 DEF WorkerType

LEMMA QueueStays == QueueType /\ UNCHANGED <<queueVars, dropped>> => QueueType' /\ UNCHANGED holding
BY DEF QueueType, queueVars

LEMMA EnqueueTyped ==
    ASSUME QueueType, NEW j \in Jobs, TryEnqueue(j)
    PROVE  QueueType' /\ UNCHANGED holding /\ (Fault \/ NoFault)
BY DEF QueueType, TryEnqueue, queueVars, Queue!Enqueue

-----------------------------------------------------------------------------
(* Money                                                                   *)

LEMMA Ids ==
    ASSUME NEW j, NEW k
    PROVE  /\ HoldId(j) = HoldId(k) <=> j = k
           /\ CaptureId(j) = CaptureId(k) <=> j = k
           /\ ReleaseId(j) = ReleaseId(k) <=> j = k
           /\ HoldId(j) # CaptureId(k) /\ HoldId(j) # ReleaseId(k) /\ CaptureId(j) # ReleaseId(k)
BY DEF HoldId, CaptureId, ReleaseId

LEMMA ClaimedIs == ASSUME archive = <<>>, NEW r PROVE Claimed(r) <=> r \in DOMAIN dedup
BY DEF Claimed

\* What a claim changes
LEMMA ClaimEffect ==
    ASSUME archive = <<>>, NEW r, NEW fp, Claim(r, fp), ~Claimed(r)
    PROVE  /\ archive' = <<>>
           /\ \A q : Claimed(q)' <=> Claimed(q) \/ q = r
           /\ \A q : Claimed(q) => dedup'[q] = dedup[q]
           /\ dedup'[r] = fp
<1>1. dedup' = Inserted(dedup, r, fp) /\ archive' = archive
  BY DEF Claim
<1>2. DOMAIN dedup' = DOMAIN dedup \cup {r}
  BY <1>1 DEF Inserted
<1>3. \A q : Claimed(q)' <=> q \in DOMAIN dedup'
  BY <1>1 DEF Claimed
<1> QED
  BY <1>1, <1>2, <1>3, ClaimedIs DEF Inserted

\* A transaction leaves the money of job k alone.
SameMoney(k) ==
    /\ moves'[k] = moves[k]
    /\ charged'[k] = charged[k]
    /\ Claimed(HoldId(k))' <=> Claimed(HoldId(k))
    /\ Claimed(CaptureId(k))' <=> Claimed(CaptureId(k))
    /\ Claimed(ReleaseId(k))' <=> Claimed(ReleaseId(k))
    /\ Claimed(CaptureId(k)) => dedup'[CaptureId(k)] = dedup[CaptureId(k)]

LEMMA MoneyStays == ASSUME NEW k, UNCHANGED holdVars PROVE SameMoney(k)
BY DEF SameMoney, holdVars, dedupVars, Claimed

MoneySound ==
    /\ HoldsType
    /\ \A k \in Jobs : MoneyInv(k)
    /\ FrozenInv

LEMMA MoneySoundStays == MoneySound /\ UNCHANGED holdVars => MoneySound'
BY DEF MoneySound, HoldsType, HoldsTypeOK, MoneyInv, FrozenInv, Both, Frozen, Outstanding,
       holdVars, dedupVars, Claimed

LEMMA Counted ==
    /\ IsFiniteSet(Both) /\ IsFiniteSet(Frozen)
    /\ Cardinality(Both) \in Nat /\ Cardinality(Frozen) \in Nat
<1>1. Both \subseteq Jobs /\ Frozen \subseteq Jobs
  BY DEF Both, Frozen
<1> QED
  BY <1>1, BatchAssumption, FS_Subset, FS_CardinalityType

LEMMA Times ==
    ASSUME NEW n \in Nat
    PROVE  Hold * n \in Nat /\ Hold * (n + 1) = Hold * n + Hold /\ Hold \in Nat
BY HoldAssumption

\* A hold more is frozen; one less, because it is not outstanding any more; and one
\* less for a job that is given back what it was charged for.
LEMMA OneMoreHold ==
    ASSUME NEW f \in Nat, NEW n \in Nat, NEW m \in Nat,
           f + Hold * m = OtherFrozen + Hold * n
    PROVE  (f + Hold) + Hold * m = OtherFrozen + Hold * (n + 1)
<1> DEFINE x == Hold * n
           y == Hold * m
<1>1. x \in Nat /\ y \in Nat /\ Hold \in Nat /\ OtherFrozen \in Nat /\ Hold * (n + 1) = x + Hold
  BY Times, HoldAssumption
<1> HIDE DEF x, y
<1>2. f + y = OtherFrozen + x => (f + Hold) + y = OtherFrozen + (x + Hold)
  BY <1>1
<1> QED
  BY <1>1, <1>2 DEF x, y

LEMMA OneHoldLess ==
    ASSUME NEW f \in Nat, f >= Hold, NEW n \in Nat, NEW m \in Nat,
           f + Hold * m = OtherFrozen + Hold * (n + 1)
    PROVE  (f - Hold) + Hold * m = OtherFrozen + Hold * n
<1> DEFINE x == Hold * n
           y == Hold * m
<1>1. x \in Nat /\ y \in Nat /\ Hold \in Nat /\ OtherFrozen \in Nat /\ Hold * (n + 1) = x + Hold
  BY Times, HoldAssumption
<1> HIDE DEF x, y
<1>2. f + y = OtherFrozen + (x + Hold) => (f - Hold) + y = OtherFrozen + x
  BY <1>1
<1> QED
  BY <1>1, <1>2 DEF x, y

LEMMA OneMoreGivenUp ==
    ASSUME NEW f \in Nat, f >= Hold, NEW n \in Nat, NEW m \in Nat,
           f + Hold * m = OtherFrozen + Hold * n
    PROVE  (f - Hold) + Hold * (m + 1) = OtherFrozen + Hold * n
<1> DEFINE x == Hold * n
           y == Hold * m
<1>1. x \in Nat /\ y \in Nat /\ Hold \in Nat /\ OtherFrozen \in Nat /\ Hold * (m + 1) = y + Hold
  BY Times, HoldAssumption
<1> HIDE DEF x, y
<1>2. f + y = OtherFrozen + x => (f - Hold) + (y + Hold) = OtherFrozen + x
  BY <1>1
<1> QED
  BY <1>1, <1>2 DEF x, y

LEMMA ReserveEffect ==
    ASSUME MoneySound, NEW j \in Jobs, Reserve(j)
    PROVE  /\ MoneySound'
           /\ \A k \in Jobs \ {j} : SameMoney(k)
           /\ moves'[j] = moves[j] \cup {"hold"}
           /\ charged'[j] = charged[j]
           /\ Claimed(ReleaseId(j))' <=> Claimed(ReleaseId(j))
<1>1. CASE Claimed(HoldId(j))
  <2>1. UNCHANGED holdVars
    BY <1>1 DEF Reserve
  <2>2. moves[j] = moves[j] \cup {"hold"}
    BY <1>1 DEF MoneySound, MoneyInv
  <2> QED
    BY <2>1, <2>2, MoneyStays, MoneySoundStays DEF SameMoney, holdVars
<1>2. CASE ~Claimed(HoldId(j))
  <2>1. /\ Claim(HoldId(j), 0)
        /\ balance' = balance - Hold /\ frozen' = frozen + Hold
        /\ moves' = [moves EXCEPT ![j] = @ \cup {"hold"}]
        /\ UNCHANGED charged
        /\ balance >= Hold
    <3>1. ClaimResult(HoldId(j), 0) = "claimed"
      BY <1>2 DEF ClaimResult, Claimed
    <3>2. CanReserve(j) => balance >= Hold
      BY <3>1 DEF CanReserve
    <3> QED
      BY <1>2, <3>2 DEF Reserve
  <2>2. /\ archive = <<>> /\ moves \in [Jobs -> SUBSET Operations] /\ frozen \in Nat
        /\ balance \in Nat /\ charged \in [Jobs -> 0..Hold] /\ moves[j] = {}
        /\ DOMAIN dedup \subseteq Operations \X Jobs
    BY <1>2 DEF MoneySound, HoldsType, HoldsTypeOK, MoneyInv
  <2>3. /\ archive' = <<>>
        /\ \A q : Claimed(q)' <=> Claimed(q) \/ q = HoldId(j)
        /\ \A q : Claimed(q) => dedup'[q] = dedup[q]
    BY <1>2, <2>1, <2>2, ClaimEffect
  <2>4. moves'[j] = {"hold"} /\ \A k \in Jobs \ {j} : moves'[k] = moves[k]
    BY <2>1, <2>2
  <2>5. \A k \in Jobs \ {j} : SameMoney(k)
    BY <2>1, <2>3, <2>4, Ids DEF SameMoney
  <2>6. Claimed(ReleaseId(j))' <=> Claimed(ReleaseId(j))
    BY <2>3, Ids
  <2>7. HoldsType'
    <3>1. DOMAIN dedup' \cup DOMAIN archive' \subseteq Operations \X Jobs
      BY <2>1, <2>2, <2>3 DEF Claim, Inserted, HoldId, Operations
    <3>2. moves' \in [Jobs -> SUBSET Operations] /\ charged' \in [Jobs -> 0..Hold]
      BY <2>1, <2>2 DEF Operations
    <3>3. balance' \in Nat /\ frozen' \in Nat
      BY <2>1, <2>2, HoldAssumption
    <3> QED
      BY <2>3, <3>1, <3>2, <3>3 DEF HoldsType, HoldsTypeOK
  <2>8. ASSUME NEW k \in Jobs PROVE MoneyInv(k)'
    <3>1. MoneyInv(k) /\ MoneyInv(j)
      BY DEF MoneySound
    <3>2. CASE k = j
      BY <1>2, <2>2, <2>3, <2>4, <3>1, <3>2, Ids DEF MoneyInv
    <3>3. CASE k # j
      BY <2>5, <3>1, <3>3 DEF MoneyInv, SameMoney
    <3> QED
      BY <3>2, <3>3
  <2>9. FrozenInv'
    <3>1. Both' = Both /\ Frozen' = Frozen \cup {j} /\ j \notin Frozen
      BY <2>2, <2>4 DEF Both, Frozen, Outstanding
    <3>2. Cardinality(Frozen') = Cardinality(Frozen) + 1
      BY <3>1, Counted, FS_AddElement
    <3> QED
      BY <2>1, <2>2, <3>1, <3>2, Counted, OneMoreHold DEF MoneySound, FrozenInv
  <2> QED
    BY <2>1, <2>2, <2>4, <2>5, <2>6, <2>7, <2>8, <2>9 DEF MoneySound
<1> QED
  BY <1>1, <1>2

\* What a capture and a release that move money have in common
LEMMA PaidOut ==
    ASSUME MoneySound, NEW j \in Jobs, NEW op \in {"capture", "release"}, NEW fp,
           Claim(<<op, j>>, fp), ~Claimed(<<op, j>>), "hold" \in moves[j], op \notin moves[j],
           frozen >= Hold, frozen' = frozen - Hold,
           moves' = [moves EXCEPT ![j] = @ \cup {op}]
    PROVE  /\ archive' = <<>>
           /\ DOMAIN dedup' \cup DOMAIN archive' \subseteq Operations \X Jobs
           /\ \A q : Claimed(q)' <=> Claimed(q) \/ q = <<op, j>>
           /\ \A q : Claimed(q) => dedup'[q] = dedup[q]
           /\ dedup'[<<op, j>>] = fp
           /\ moves' \in [Jobs -> SUBSET Operations]
           /\ moves'[j] = moves[j] \cup {op}
           /\ \A k \in Jobs \ {j} : moves'[k] = moves[k]
           /\ frozen' \in Nat
           /\ FrozenInv'
<1>1. /\ archive = <<>> /\ moves \in [Jobs -> SUBSET Operations] /\ frozen \in Nat
      /\ DOMAIN dedup \subseteq Operations \X Jobs
  BY DEF MoneySound, HoldsType, HoldsTypeOK
<1>2. /\ archive' = <<>>
      /\ \A q : Claimed(q)' <=> Claimed(q) \/ q = <<op, j>>
      /\ \A q : Claimed(q) => dedup'[q] = dedup[q]
      /\ dedup'[<<op, j>>] = fp
  BY <1>1, ClaimEffect
<1>3. moves'[j] = moves[j] \cup {op} /\ \A k \in Jobs \ {j} : moves'[k] = moves[k]
  BY <1>1
<1>4. DOMAIN dedup' \cup DOMAIN archive' \subseteq Operations \X Jobs
  BY <1>1, <1>2 DEF Claim, Inserted, Operations
<1>5. moves' \in [Jobs -> SUBSET Operations]
  BY <1>1 DEF Operations
<1>6. frozen' \in Nat
  BY <1>1, HoldAssumption
<1>7. frozen + Hold * Cardinality(Both) = OtherFrozen + Hold * Cardinality(Frozen)
  BY DEF MoneySound, FrozenInv
<1>8. FrozenInv'
  <2>1. CASE moves[j] = {"hold"}
    <3>1. Both' = Both /\ Frozen' = Frozen \ {j} /\ j \in Frozen
      BY <1>3, <2>1 DEF Both, Frozen, Outstanding
    <3>2. Cardinality(Frozen') = Cardinality(Frozen) - 1 /\ IsFiniteSet(Frozen')
      BY <3>1, Counted, FS_RemoveElement
    <3>3. Cardinality(Frozen') \in Nat /\ Cardinality(Frozen) = Cardinality(Frozen') + 1
      BY <3>2, Counted, FS_CardinalityType
    <3> QED
      BY <1>1, <1>7, <3>1, <3>3, Counted, OneHoldLess DEF FrozenInv
  <2>2. CASE moves[j] # {"hold"}
    <3>1. {"capture", "release"} \subseteq moves'[j] /\ ~({"capture", "release"} \subseteq moves[j])
      BY <1>1, <1>3, <2>2 DEF Operations
    <3>2. Frozen' = Frozen /\ Both' = Both \cup {j} /\ j \notin Both
      BY <1>3, <2>2, <3>1 DEF Both, Frozen, Outstanding
    <3>3. Cardinality(Both') = Cardinality(Both) + 1
      BY <3>2, Counted, FS_AddElement
    <3> QED
      BY <1>1, <1>7, <3>2, <3>3, Counted, OneMoreGivenUp DEF FrozenInv
  <2> QED
    BY <2>1, <2>2
<1> QED
  BY <1>2, <1>3, <1>4, <1>5, <1>6, <1>8

LEMMA CaptureEffect ==
    ASSUME MoneySound, NEW j \in Jobs, NEW c \in Nat, "hold" \in moves[j], Capture(j, c)
    PROVE  /\ MoneySound'
           /\ \A k \in Jobs \ {j} : SameMoney(k)
           /\ moves'[j] = moves[j] \cup {"capture"}
           /\ charged'[j] = c
           /\ Claimed(ReleaseId(j))' <=> Claimed(ReleaseId(j))
<1>1. CASE Claimed(CaptureId(j))
  <2>1. UNCHANGED holdVars /\ ClaimResult(CaptureId(j), c) = "duplicate"
    <3>1. ClaimResult(CaptureId(j), c) # "claimed"
      BY <1>1 DEF ClaimResult
    <3> QED
      BY <1>1, <3>1 DEF Capture, CanCapture
  <2>2. dedup[CaptureId(j)] = c
    <3>1. CaptureId(j) \in DOMAIN dedup
      BY <1>1, ClaimedIs DEF MoneySound, HoldsType
    <3> QED
      BY <1>1, <2>1, <3>1 DEF ClaimResult
  <2>3. "capture" \in moves[j] /\ charged[j] = c
    BY <1>1, <2>2 DEF MoneySound, MoneyInv
  <2> QED
    BY <2>1, <2>3, MoneyStays, MoneySoundStays DEF SameMoney, holdVars
<1>2. CASE ~Claimed(CaptureId(j))
  <2>1. /\ Claim(CaptureId(j), c)
        /\ balance' = balance + Hold - c /\ frozen' = frozen - Hold
        /\ moves' = [moves EXCEPT ![j] = @ \cup {"capture"}]
        /\ charged' = [charged EXCEPT ![j] = c]
        /\ frozen >= Hold /\ c <= Hold
    <3>1. ClaimResult(CaptureId(j), c) = "claimed"
      BY <1>2 DEF ClaimResult, Claimed
    <3>2. CanCapture(j, c) => frozen >= Hold /\ c <= Hold
      BY <3>1 DEF CanCapture
    <3> QED
      BY <1>2, <3>2 DEF Capture
  <2>2. "capture" \notin moves[j]
    BY <1>2 DEF MoneySound, MoneyInv
  <2>3. /\ archive' = <<>>
        /\ DOMAIN dedup' \cup DOMAIN archive' \subseteq Operations \X Jobs
        /\ \A q : Claimed(q)' <=> Claimed(q) \/ q = CaptureId(j)
        /\ \A q : Claimed(q) => dedup'[q] = dedup[q]
        /\ dedup'[CaptureId(j)] = c
        /\ moves' \in [Jobs -> SUBSET Operations]
        /\ moves'[j] = moves[j] \cup {"capture"}
        /\ \A k \in Jobs \ {j} : moves'[k] = moves[k]
        /\ frozen' \in Nat
        /\ FrozenInv'
    BY <1>2, <2>1, <2>2, PaidOut DEF CaptureId
  <2>4. /\ charged' \in [Jobs -> 0..Hold] /\ charged'[j] = c
        /\ \A k \in Jobs \ {j} : charged'[k] = charged[k]
    BY <2>1, HoldAssumption DEF MoneySound, HoldsType, HoldsTypeOK
  <2>5. balance' \in Nat
    BY <2>1, HoldAssumption DEF MoneySound, HoldsType, HoldsTypeOK
  <2>6. \A k \in Jobs \ {j} : SameMoney(k)
    BY <2>3, <2>4, Ids DEF SameMoney
  <2>7. ASSUME NEW k \in Jobs PROVE MoneyInv(k)'
    <3>1. MoneyInv(k) /\ MoneyInv(j)
      BY DEF MoneySound
    <3>2. CASE k = j
      BY <2>3, <2>4, <3>1, <3>2, Ids DEF MoneyInv
    <3>3. CASE k # j
      BY <2>6, <3>1, <3>3 DEF MoneyInv, SameMoney
    <3> QED
      BY <3>2, <3>3
  <2>8. MoneySound'
    BY <2>3, <2>4, <2>5, <2>7 DEF MoneySound, HoldsType, HoldsTypeOK
  <2> QED
    BY <2>3, <2>4, <2>6, <2>8, Ids
<1> QED
  BY <1>1, <1>2

LEMMA ReleaseEffect ==
    ASSUME MoneySound, NEW j \in Jobs, Release(j)
    PROVE  /\ MoneySound'
           /\ \A k \in Jobs \ {j} : SameMoney(k)
           /\ moves'[j] \in {moves[j], moves[j] \cup {"release"}}
           /\ "release" \in moves'[j] => "hold" \in moves[j]
           /\ charged'[j] = charged[j]
           /\ Claimed(ReleaseId(j))'
<1>0. /\ archive = <<>> /\ moves \in [Jobs -> SUBSET Operations]
      /\ DOMAIN dedup \subseteq Operations \X Jobs
  BY DEF MoneySound, HoldsType, HoldsTypeOK
<1>1. CASE Claimed(ReleaseId(j))
  <2>1. UNCHANGED holdVars
    BY <1>1 DEF Release
  <2>2. Claimed(ReleaseId(j))' /\ ("release" \in moves[j] => "hold" \in moves[j])
    BY <1>1, <2>1 DEF Claimed, holdVars, dedupVars, MoneySound, MoneyInv
  <2> QED
    BY <2>1, <2>2, MoneyStays, MoneySoundStays DEF SameMoney, holdVars
<1>2. CASE ~Claimed(ReleaseId(j)) /\ NeverReserved(j)
  <2>1. Claim(ReleaseId(j), 0) /\ UNCHANGED <<balance, frozen, moves, charged>>
    BY <1>2 DEF Release
  <2>2. /\ archive' = <<>>
        /\ \A q : Claimed(q)' <=> Claimed(q) \/ q = ReleaseId(j)
        /\ \A q : Claimed(q) => dedup'[q] = dedup[q]
    BY <1>0, <1>2, <2>1, ClaimEffect
  <2>3. DOMAIN dedup' \cup DOMAIN archive' \subseteq Operations \X Jobs
    BY <1>0, <2>1, <2>2 DEF Claim, Inserted, ReleaseId, Operations
  <2>4. \A k \in Jobs \ {j} : SameMoney(k)
    BY <2>1, <2>2, Ids DEF SameMoney
  <2>5. ASSUME NEW k \in Jobs PROVE MoneyInv(k)'
    <3>1. MoneyInv(k) /\ MoneyInv(j)
      BY DEF MoneySound
    <3> QED
      BY <2>1, <2>2, <3>1, Ids DEF MoneyInv
  <2>6. MoneySound'
    <3>1. Both' = Both /\ Frozen' = Frozen
      BY <2>1 DEF Both, Frozen, Outstanding
    <3> QED
      BY <2>1, <2>2, <2>3, <2>5, <3>1 DEF MoneySound, HoldsType, HoldsTypeOK, FrozenInv
  <2>7. "hold" \notin moves[j] /\ "release" \notin moves[j]
    BY <1>2 DEF NeverReserved, MoneySound, MoneyInv
  <2> QED
    BY <2>1, <2>2, <2>4, <2>6, <2>7
<1>3. CASE ~Claimed(ReleaseId(j)) /\ ~NeverReserved(j)
  <2>1. /\ Claim(ReleaseId(j), 0)
        /\ balance' = balance + Hold /\ frozen' = frozen - Hold
        /\ moves' = [moves EXCEPT ![j] = @ \cup {"release"}]
        /\ UNCHANGED charged
        /\ frozen >= Hold
    BY <1>3 DEF Release, CanRelease
  <2>2. "release" \notin moves[j] /\ "hold" \in moves[j]
    BY <1>3 DEF NeverReserved, MoneySound, MoneyInv
  <2>3. /\ archive' = <<>>
        /\ DOMAIN dedup' \cup DOMAIN archive' \subseteq Operations \X Jobs
        /\ \A q : Claimed(q)' <=> Claimed(q) \/ q = ReleaseId(j)
        /\ \A q : Claimed(q) => dedup'[q] = dedup[q]
        /\ moves' \in [Jobs -> SUBSET Operations]
        /\ moves'[j] = moves[j] \cup {"release"}
        /\ \A k \in Jobs \ {j} : moves'[k] = moves[k]
        /\ frozen' \in Nat
        /\ FrozenInv'
    BY <1>3, <2>1, <2>2, PaidOut DEF ReleaseId
  <2>4. balance' \in Nat /\ charged' \in [Jobs -> 0..Hold]
    BY <2>1, HoldAssumption DEF MoneySound, HoldsType, HoldsTypeOK
  <2>5. \A k \in Jobs \ {j} : SameMoney(k)
    BY <2>1, <2>3, Ids DEF SameMoney
  <2>6. ASSUME NEW k \in Jobs PROVE MoneyInv(k)'
    <3>1. MoneyInv(k) /\ MoneyInv(j)
      BY DEF MoneySound
    <3>2. CASE k = j
      BY <2>1, <2>2, <2>3, <3>1, <3>2, Ids DEF MoneyInv
    <3>3. CASE k # j
      BY <2>5, <3>1, <3>3 DEF MoneyInv, SameMoney
    <3> QED
      BY <3>2, <3>3
  <2>7. MoneySound'
    BY <2>3, <2>4, <2>6 DEF MoneySound, HoldsType, HoldsTypeOK
  <2> QED
    BY <2>1, <2>2, <2>3, <2>5, <2>7
<1> QED
  BY <1>1, <1>2, <1>3

-----------------------------------------------------------------------------
(* Jobs and workers a step is not about                                    *)

RestInv(j) == SubmitInv(j) /\ RowInv(j) /\ RefundInv(j) /\ CareInv(j)

SameRow(k) ==
    /\ status'[k] = status[k] /\ named'[k] = named[k]
    /\ cost'[k] = cost[k] /\ retry'[k] = retry[k]

SameCalls(k) == submit'[k] = submit[k] /\ cancel'[k] = cancel[k] /\ sweep'[k] = sweep[k]

SameQueue(k) ==
    /\ dropped'[k] = dropped[k] /\ lapsed'[k] = lapsed[k]
    /\ k \in pending => k \in pending'
    /\ \A w \in Workers : holding[w] = k => holding'[w] = k

Same(k) ==
    SameMoney(k) /\ SameRow(k) /\ provider'[k] = provider[k] /\ SameCalls(k) /\ SameQueue(k)

LEMMA SameRest == ASSUME NEW k \in Jobs, RestInv(k), Same(k) PROVE RestInv(k)'
<1> USE DEF Same, SameMoney, SameRow, SameCalls, SameQueue
<1>1. SubmitInv(k)'
  BY DEF RestInv, SubmitInv
<1>2. RowInv(k)'
  BY DEF RestInv, RowInv
<1>3. RefundInv(k)'
  BY DEF RestInv, RefundInv
<1>4. CareInv(k)'
  BY DEF RestInv, CareInv, Cared, Settled
<1> QED
  BY <1>1, <1>2, <1>3, <1>4 DEF RestInv

\* What a worker may rely on, whatever others do with its job
Kept(j) ==
    /\ named[j] => named'[j]
    /\ named[j] /\ provider[j] # "running" => provider'[j] # "running"
    /\ status[j] \in {"settling"} \cup Terminal => status'[j] \in {"settling"} \cup Terminal
    /\ status[j] \in Finished => status'[j] \in Finished
    /\ status[j] = "failed" => status'[j] = "failed"
    /\ status[j] = "settling" =>
         status'[j] \in {"settling", "failed"} \/ "capture" \in moves'[j]
    /\ "capture" \in moves[j] => "capture" \in moves'[j]
    /\ retry[j] = MaxRetries => retry'[j] = MaxRetries
    /\ Claimed(ReleaseId(j)) => Claimed(ReleaseId(j))'
    /\ lapsed[j] => lapsed'[j]
    /\ j \in pending => j \in pending' \/ Settled(j)'

LEMMA SettledStays == ASSUME NEW j \in Jobs, Kept(j), Settled(j) PROVE Settled(j)'
BY DEF Kept, Settled

LEMMA SameKept == ASSUME NEW j \in Jobs, Same(j) PROVE Kept(j)
BY DEF Same, SameMoney, SameRow, SameQueue, Kept

LEMMA Onlooker ==
    ASSUME NEW step, NEW j \in Jobs, KnownInv(step, j), Kept(j),
           lapsed'[j] \/ (status'[j] = "settling" <=> status[j] = "settling")
    PROVE  KnownInv(step, j)'
<1>1. Settled(j) => Settled(j)'
  BY SettledStays
<1>2. step \in Answered => step \in Providing \cup Settling
  BY DEF Answered
<1>3. /\ step \in Providing \cup Settling => named'[j]
      /\ step \in Answered => provider'[j] # "running"
      /\ step \in Settling => status'[j] \in {"settling"} \cup Terminal
      /\ step = "mark" => "capture" \in moves'[j]
      /\ step = "release" => status'[j] \in Finished
  BY <1>2 DEF KnownInv, Kept
<1>4. /\ step \in {"exhaust", "toExhausted"} => retry'[j] = MaxRetries
      /\ step = "toExhausted" => Claimed(ReleaseId(j))'
      /\ step = "ack" => Settled(j)'
      /\ j \in pending' \/ Settled(j)'
  BY <1>1 DEF KnownInv, Kept
<1>5. ~lapsed'[j] =>
        /\ step \in Providing \cup {"process"} => status'[j] # "settling"
        /\ step = "capture" => status'[j] = "settling"
  BY DEF KnownInv, Kept
<1> QED
  BY <1>3, <1>4, <1>5 DEF KnownInv

\* A step about job j
LEMMA Frame ==
    ASSUME IInv, NEW j \in Jobs, TypeInv', MoneySound',
           \A k \in Jobs \ {j} : Same(k),
           RestInv(j)',
           \A w \in Workers : holding'[w] = j => KnownInv(work[w], j)',
           \A w \in Workers : holding'[w] # j /\ holding'[w] # NoJob =>
                                  holding'[w] = holding[w] /\ work'[w] = work[w],
           LockInv'
    PROVE  IInv'
<1>1. ASSUME NEW k \in Jobs PROVE JobInv(k)'
  <2>1. MoneyInv(k)'
    BY DEF MoneySound
  <2>2. RestInv(k)'
    <3>1. CASE k = j
      BY <3>1
    <3>2. CASE k # j
      BY <3>2, SameRest DEF IInv, JobInv, RestInv
    <3> QED
      BY <3>1, <3>2
  <2> QED
    BY <2>1, <2>2 DEF JobInv, RestInv
<1>2. ASSUME NEW w \in Workers, holding'[w] # NoJob PROVE KnownInv(work[w], holding[w])'
  <2>1. CASE holding'[w] = j
    BY <2>1
  <2>2. CASE holding'[w] # j
    <3>1. holding'[w] = holding[w] /\ work'[w] = work[w]
      BY <1>2, <2>2
    <3>2. PICK k \in Jobs \ {j} : holding[w] = k
      BY <1>2, <2>2, <3>1 DEF IInv, TypeInv, TypeOK
    <3>3. KnownInv(work[w], k) /\ Same(k)
      BY <1>2, <3>1, <3>2 DEF IInv, WorkInv
    <3>4. Kept(k) /\ status'[k] = status[k]
      BY <3>3, SameKept DEF Same, SameRow
    <3>5. KnownInv(work[w], k)'
      <4>1. PICK step : step = work[w]
        OBVIOUS
      <4>2. KnownInv(step, k)'
        BY <3>3, <3>4, <4>1, Onlooker
      <4> QED
        BY <3>1, <4>1, <4>2
    <3> QED
      BY <3>1, <3>2, <3>5
  <2> QED
    BY <2>1, <2>2
<1>3. \A w \in Workers : WorkInv(w)'
  BY <1>2 DEF WorkInv
<1> QED
  BY <1>1, <1>3 DEF IInv, MoneySound

LEMMA HasMoneySound == IInv => MoneySound
BY TypeParts DEF IInv, MoneySound, JobInv

LEMMA Typed ==
    IInv => /\ RowType /\ ProviderType /\ RequestType /\ WorkerType
            /\ QueueType /\ FaultType /\ HoldsType
BY TypeParts DEF IInv

\* A step changes the row, the money, the provider's job, the requests and the
\* queue entry of job j only, and to values of their types.
RowPart(j) == RowType' /\ \A k \in Jobs \ {j} : SameRow(k)
MoneyPart(j) == MoneySound' /\ \A k \in Jobs \ {j} : SameMoney(k)
ProviderPart(j) == ProviderType' /\ \A k \in Jobs \ {j} : provider'[k] = provider[k]
CallPart(j) == RequestType' /\ \A k \in Jobs \ {j} : SameCalls(k)
QueuePart(j) == QueueType' /\ \A k \in Jobs \ {j} : SameQueue(k)

\* Nobody's business with job j is disturbed.
Quiet(j) == Kept(j) /\ (status'[j] = "settling" <=> status[j] = "settling")

\* A request, the sweep or the environment: the workers stay where they are.
LEMMA RequestFrame ==
    ASSUME IInv, NEW j \in Jobs,
           RowPart(j), MoneyPart(j), ProviderPart(j), CallPart(j), QueuePart(j), FaultType',
           UNCHANGED <<work, holding, lapsed>>, RestInv(j)', Quiet(j)
    PROVE  IInv'
<1>1. ASSUME NEW w \in Workers, holding'[w] = j PROVE KnownInv(work[w], j)'
  <2>1. PICK step : step = work[w]
    OBVIOUS
  <2>2. KnownInv(step, j)
    BY <1>1, <2>1, BatchAssumption DEF IInv, WorkInv
  <2>3. KnownInv(step, j)'
    BY <2>2, Onlooker DEF Quiet
  <2> QED
    BY <2>1, <2>3
<1>2. LockInv'
  BY DEF IInv, LockInv
<1>3. WorkerType'
  BY Typed DEF WorkerType
<1>4. TypeInv' /\ MoneySound'
  BY <1>3, TypeAfter DEF MoneyPart, MoneySound, RowPart, ProviderPart, CallPart, QueuePart
<1>5. \A k \in Jobs \ {j} : Same(k)
  BY DEF Same, RowPart, MoneyPart, ProviderPart, CallPart, QueuePart
<1> QED
  BY <1>1, <1>2, <1>4, <1>5, Frame

LEMMA StatusEffect ==
    ASSUME IInv, NEW j \in Jobs, NEW to \in Live \cup Terminal, SetStatus(j, to)
    PROVE  /\ RowPart(j)
           /\ status'[j] = to
           /\ named'[j] = named[j] /\ cost'[j] = cost[j] /\ retry'[j] = retry[j]
<1>1. RowType /\ RowType'
  BY Typed, RowSet
<1> QED
  BY <1>1 DEF RowPart, RowType, SetStatus, SameRow

LEMMA RowEffect ==
    ASSUME IInv, NEW j \in Jobs, UNCHANGED rowVars
    PROVE  RowPart(j) /\ SameRow(j)
<1>1. RowType'
  BY Typed, RowStays
<1> QED
  BY <1>1 DEF RowPart, SameRow, rowVars

LEMMA HoldsEffect ==
    ASSUME IInv, NEW j \in Jobs, UNCHANGED holdVars
    PROVE  MoneyPart(j) /\ SameMoney(j)
<1>1. MoneySound'
  BY HasMoneySound, MoneySoundStays
<1> QED
  BY <1>1, MoneyStays DEF MoneyPart

LEMMA ProviderStays ==
    ASSUME IInv, NEW j \in Jobs, UNCHANGED provider
    PROVE  ProviderPart(j) /\ provider'[j] = provider[j]
BY Typed DEF ProviderPart, ProviderType

LEMMA QueueEffect ==
    ASSUME IInv, NEW j \in Jobs, UNCHANGED <<queueVars, dropped>>
    PROVE  QueuePart(j) /\ SameQueue(j) /\ UNCHANGED <<holding, lapsed>>
<1>1. QueueType'
  BY Typed, QueueStays
<1> QED
  BY <1>1 DEF QueuePart, SameQueue, queueVars

LEMMA EnqueueEffect ==
    ASSUME IInv, NEW j \in Jobs, TryEnqueue(j)
    PROVE  /\ QueuePart(j)
           /\ UNCHANGED <<holding, lapsed>>
           /\ j \in pending' \/ dropped'[j]
           /\ j \in pending => j \in pending'
           /\ Fault \/ NoFault
<1>1. QueueType /\ QueueType'
  BY Typed, EnqueueTyped
<1>2. UNCHANGED <<holding, lapsed>> /\ pending \subseteq pending' /\ (Fault \/ NoFault)
  BY DEF TryEnqueue, queueVars, Queue!Enqueue
<1>3. \A k \in Jobs \ {j} : dropped'[k] = dropped[k]
  BY <1>1 DEF QueueType, TryEnqueue
<1>4. j \in pending' \/ dropped'[j]
  BY <1>1 DEF QueueType, TryEnqueue, queueVars, Queue!Enqueue
<1> QED
  BY <1>1, <1>2, <1>3, <1>4 DEF QueuePart, SameQueue

-----------------------------------------------------------------------------
(* Submit                                                                  *)

\* A call of Submit for job j
SubmitMoves(j, at, to) ==
    /\ CallPart(j)
    /\ submit[j] = at /\ submit'[j] = to /\ cancel'[j] = cancel[j] /\ sweep'[j] = sweep[j]
    /\ UNCHANGED work

LEMMA SubmitEffect ==
    ASSUME IInv, NEW j \in Jobs, NEW at, NEW to \in SubmitSteps, SubmitAt(j, at, to)
    PROVE  SubmitMoves(j, at, to) /\ (Fault \/ NoFault => FaultType')
<1>1. RequestType /\ RequestType' /\ UNCHANGED <<work, crashes>>
  BY Typed DEF RequestType, SubmitAt
<1>2. Fault \/ NoFault => FaultType'
  BY <1>1, Typed, FaultOK
<1> QED
  BY <1>1, <1>2 DEF SubmitMoves, CallPart, SameCalls, RequestType, SubmitAt

LEMMA StepCreate == ASSUME IInv, NEW j \in Jobs, CreateBatchImageJob(j) PROVE IInv'
<1>1. SubmitMoves(j, "create", "reserve") /\ FaultType'
  BY SubmitEffect DEF CreateBatchImageJob, SubmitSteps
<1>2. /\ RowPart(j)
      /\ status'[j] = "created" /\ named'[j] = named[j]
      /\ cost'[j] = cost[j] /\ retry'[j] = retry[j]
  BY StatusEffect DEF CreateBatchImageJob, Live, Unsubmitted
<1>3. MoneyPart(j) /\ SameMoney(j)
  BY HoldsEffect DEF CreateBatchImageJob
<1>4. ProviderPart(j) /\ provider'[j] = provider[j]
  BY ProviderStays DEF CreateBatchImageJob
<1>5. QueuePart(j) /\ SameQueue(j) /\ UNCHANGED <<holding, lapsed>>
  BY QueueEffect DEF CreateBatchImageJob
<1>6. /\ JobInv(j) /\ status[j] = "none" /\ ~named[j] /\ moves[j] = {} /\ submit[j] = "create"
  BY <1>1 DEF IInv, JobInv, SubmitInv, Unnamed, MoneyInv, SubmitMoves
<1>7. SubmitInv(j)' /\ RowInv(j)' /\ RefundInv(j)' /\ CareInv(j)'
  BY <1>1, <1>2, <1>3, <1>4, <1>5, <1>6
  DEF JobInv, SubmitInv, RowInv, RefundInv, CareInv, Cared, Unnamed, Unsubmitted, Finished, Paid,
      SubmitMoves, SameMoney
<1>8. Quiet(j)
  BY <1>2, <1>3, <1>4, <1>5, <1>6 DEF Quiet, Kept, SameMoney, SameQueue, Terminal, Finished
<1> QED
  BY <1>1, <1>2, <1>3, <1>4, <1>5, <1>7, <1>8, RequestFrame DEF RestInv, SubmitMoves

LEMMA StepReserve == ASSUME IInv, NEW j \in Jobs, SubmitReserve(j) PROVE IInv'
<1>1. RowPart(j) /\ SameRow(j)
  BY RowEffect DEF SubmitReserve
<1>2. ProviderPart(j) /\ provider'[j] = provider[j]
  BY ProviderStays DEF SubmitReserve
<1>3. QueuePart(j) /\ SameQueue(j) /\ UNCHANGED <<holding, lapsed>>
  BY QueueEffect DEF SubmitReserve
<1>4. JobInv(j)
  BY DEF IInv
<1>5. CASE SubmitAt(j, "reserve", "items") /\ Reserve(j) /\ NoFault
  <2>1. SubmitMoves(j, "reserve", "items") /\ FaultType'
    BY <1>5, SubmitEffect DEF SubmitSteps
  <2>2. /\ MoneyPart(j)
        /\ moves'[j] = moves[j] \cup {"hold"} /\ charged'[j] = charged[j]
        /\ Claimed(ReleaseId(j))' <=> Claimed(ReleaseId(j))
    BY <1>5, HasMoneySound, ReserveEffect DEF MoneyPart
  <2>3. moves[j] = {} /\ submit[j] = "reserve" /\ ~named[j] /\ provider[j] = "none"
    BY <1>4, <2>1 DEF JobInv, MoneyInv, SubmitInv, SubmitMoves, Unnamed
  <2>4. SubmitInv(j)' /\ RowInv(j)' /\ RefundInv(j)' /\ CareInv(j)'
    BY <1>1, <1>2, <1>3, <1>4, <2>1, <2>2, <2>3
    DEF JobInv, SubmitInv, RowInv, RefundInv, CareInv, Cared, Settled, Unnamed, SubmitMoves,
        SameRow, SameQueue
  <2>5. Quiet(j)
    BY <1>1, <1>2, <1>3, <2>2, <2>3 DEF Quiet, Kept, SameRow, SameQueue
  <2> QED
    BY <1>1, <1>2, <1>3, <2>1, <2>2, <2>4, <2>5, RequestFrame DEF RestInv, SubmitMoves
<1>6. CASE SubmitAt(j, "reserve", "record") /\ UNCHANGED holdVars /\ FailsUnless(CanReserve(j))
  <2>1. SubmitMoves(j, "reserve", "record") /\ FaultType'
    BY <1>6, SubmitEffect DEF FailsUnless, SubmitSteps
  <2>2. MoneyPart(j) /\ SameMoney(j)
    BY <1>6, HoldsEffect
  <2>3. SubmitInv(j)' /\ RowInv(j)' /\ RefundInv(j)' /\ CareInv(j)'
    BY <1>1, <1>2, <1>3, <1>4, <2>1, <2>2
    DEF JobInv, SubmitInv, RowInv, RefundInv, CareInv, Cared, Settled, Unnamed, Past,
        SubmitMoves, SameMoney, SameRow, SameQueue
  <2>4. Quiet(j)
    BY <1>1, <1>2, <1>3, <2>2 DEF Quiet, Kept, SameMoney, SameRow, SameQueue
  <2> QED
    BY <1>1, <1>2, <1>3, <2>1, <2>2, <2>3, <2>4, RequestFrame DEF RestInv, SubmitMoves
<1> QED
  BY <1>5, <1>6 DEF SubmitReserve

\* A call of Submit that fails, or has no effect outside: only the request goes on.
LEMMA SubmitOnly ==
    ASSUME IInv, NEW j \in Jobs, NEW at \in SubmitSteps, NEW to \in SubmitSteps,
           SubmitAt(j, at, to), Fault \/ NoFault,
           UNCHANGED <<holdVars, rowVars, provider, queueVars, dropped>>,
           \/ at = "items" /\ to = "upload"
           \/ at \in {"items", "upload", "provider"} /\ to = "release"
           \/ at = "upload" /\ to = "releaseOnly"
           \/ at = "name" /\ to = "abort"
           \/ at \in {"release", "releaseOnly"} /\ to = "recordUnreleased"
           \/ at = "record" /\ to = "done"
           \/ at = "recordUnreleased" /\ to = "enqueue"
           \/ at = "abort" /\ to = "done"
    PROVE  IInv'
<1>1. RowPart(j) /\ SameRow(j)
  BY RowEffect
<1>2. ProviderPart(j) /\ provider'[j] = provider[j]
  BY ProviderStays
<1>3. QueuePart(j) /\ SameQueue(j) /\ UNCHANGED <<holding, lapsed>>
  BY QueueEffect
<1>4. MoneyPart(j) /\ SameMoney(j)
  BY HoldsEffect
<1>5. SubmitMoves(j, at, to) /\ FaultType'
  BY SubmitEffect
<1>6. JobInv(j)
  BY DEF IInv
<1>7. SubmitInv(j)'
  BY <1>1, <1>2, <1>4, <1>5, <1>6 DEF JobInv, SubmitInv, Unnamed, SubmitMoves, SameMoney, SameRow
<1>8. RowInv(j)' /\ RefundInv(j)'
  BY <1>1, <1>2, <1>3, <1>4, <1>5, <1>6
  DEF JobInv, RowInv, RefundInv, Past, SubmitMoves, SameMoney, SameRow, SameQueue
<1>9. CareInv(j)'
  BY <1>1, <1>3, <1>4, <1>5, <1>6
  DEF JobInv, SubmitInv, CareInv, Cared, Settled, SubmitMoves, SameMoney, SameRow, SameQueue
<1>10. Quiet(j)
  BY <1>1, <1>2, <1>3, <1>4 DEF Quiet, Kept, SameMoney, SameRow, SameQueue
<1> QED
  BY <1>1, <1>2, <1>3, <1>4, <1>5, <1>7, <1>8, <1>9, <1>10, RequestFrame DEF RestInv, SubmitMoves

LEMMA StepItems == ASSUME IInv, NEW j \in Jobs, SubmitItems(j) PROVE IInv'
<1>1. CASE SubmitAt(j, "items", "upload") /\ NoFault
  BY <1>1, SubmitOnly DEF SubmitItems, SubmitSteps
<1>2. CASE SubmitAt(j, "items", "release") /\ Fault
  BY <1>2, SubmitOnly DEF SubmitItems, SubmitSteps
<1> QED
  BY <1>1, <1>2 DEF SubmitItems

LEMMA StepUpload == ASSUME IInv, NEW j \in Jobs, SubmitUpload(j) PROVE IInv'
<1>1. CASE SubmitAt(j, "upload", "provider") /\ Transition(j, "uploading") /\ NoFault
  <2>1. SubmitMoves(j, "upload", "provider") /\ FaultType'
    BY <1>1, SubmitEffect DEF SubmitSteps
  <2>2. /\ RowPart(j) /\ status'[j] = "uploading" /\ named'[j] = named[j]
        /\ cost'[j] = cost[j] /\ retry'[j] = retry[j] /\ status[j] = "created"
    BY <1>1, StatusEffect DEF Transition, CanTransition, Live, Unsubmitted, Terminal
  <2>3. MoneyPart(j) /\ SameMoney(j)
    BY HoldsEffect DEF SubmitUpload
  <2>4. ProviderPart(j) /\ provider'[j] = provider[j]
    BY ProviderStays DEF SubmitUpload
  <2>5. QueuePart(j) /\ SameQueue(j) /\ UNCHANGED <<holding, lapsed>>
    BY QueueEffect DEF SubmitUpload
  <2>6. JobInv(j)
    BY DEF IInv
  <2>7. SubmitInv(j)' /\ RowInv(j)'
    BY <2>1, <2>2, <2>3, <2>4, <2>6
    DEF JobInv, SubmitInv, RowInv, Unnamed, Unsubmitted, Finished, Paid, Terminal, SubmitMoves,
        SameMoney
  <2>8. RefundInv(j)' /\ CareInv(j)'
    BY <2>1, <2>2, <2>3, <2>5, <2>6
    DEF JobInv, SubmitInv, RowInv, RefundInv, CareInv, Cared, Unnamed, Past, Unsubmitted, Finished,
        Terminal, SubmitMoves, SameMoney, SameQueue
  <2>9. Quiet(j)
    BY <2>2, <2>3, <2>4, <2>5 DEF Quiet, Kept, Terminal, Finished, SameMoney, SameQueue
  <2> QED
    BY <2>1, <2>2, <2>3, <2>4, <2>5, <2>7, <2>8, <2>9, RequestFrame DEF RestInv, SubmitMoves
<1>2. CASE /\ \E to \in {"releaseOnly", "release"} : SubmitAt(j, "upload", to)
           /\ UNCHANGED rowVars /\ (Fault \/ NoFault)
  BY <1>2, SubmitOnly DEF SubmitUpload, SubmitSteps
<1> QED
  BY <1>1, <1>2 DEF SubmitUpload

LEMMA ProviderEffect ==
    ASSUME IInv, NEW j \in Jobs, NEW s \in {"none", "running", "succeeded", "failed", "cancelled"},
           provider' = [provider EXCEPT ![j] = s]
    PROVE  ProviderPart(j) /\ provider'[j] = s
BY Typed DEF ProviderPart, ProviderType

LEMMA ProviderCancelEffect ==
    ASSUME IInv, NEW j \in Jobs, ProviderCancel(j)
    PROVE  /\ ProviderPart(j)
           /\ provider'[j] = IF provider[j] = "running" THEN "cancelled" ELSE provider[j]
BY Typed DEF ProviderPart, ProviderType, ProviderCancel

LEMMA StepProvider == ASSUME IInv, NEW j \in Jobs, SubmitProvider(j) PROVE IInv'
<1>1. CASE /\ SubmitAt(j, "provider", "name") /\ NoFault
           /\ provider' = [provider EXCEPT ![j] = "running"]
  <2>1. SubmitMoves(j, "provider", "name") /\ FaultType'
    BY <1>1, SubmitEffect DEF SubmitSteps
  <2>2. RowPart(j) /\ SameRow(j)
    BY RowEffect DEF SubmitProvider
  <2>3. MoneyPart(j) /\ SameMoney(j)
    BY HoldsEffect DEF SubmitProvider
  <2>4. ProviderPart(j) /\ provider'[j] = "running"
    BY <1>1, ProviderEffect
  <2>5. QueuePart(j) /\ SameQueue(j) /\ UNCHANGED <<holding, lapsed>>
    BY QueueEffect DEF SubmitProvider
  <2>6. JobInv(j) /\ ~named[j]
    BY <2>1 DEF IInv, JobInv, SubmitInv, SubmitMoves, Unnamed
  <2>7. SubmitInv(j)' /\ RowInv(j)'
    BY <2>1, <2>2, <2>3, <2>4, <2>6
    DEF JobInv, SubmitInv, RowInv, Unnamed, SubmitMoves, SameMoney, SameRow
  <2>8. RefundInv(j)' /\ CareInv(j)'
    BY <2>1, <2>2, <2>3, <2>5, <2>6
    DEF JobInv, RefundInv, CareInv, Cared, Settled, Past, SubmitMoves, SameMoney, SameRow, SameQueue
  <2>9. Quiet(j)
    BY <2>2, <2>3, <2>5, <2>6 DEF Quiet, Kept, SameMoney, SameRow, SameQueue
  <2> QED
    BY <2>1, <2>2, <2>3, <2>4, <2>5, <2>7, <2>8, <2>9, RequestFrame DEF RestInv, SubmitMoves
<1>2. CASE SubmitAt(j, "provider", "release") /\ Fault /\ UNCHANGED provider
  BY <1>2, SubmitOnly DEF SubmitProvider, SubmitSteps
<1> QED
  BY <1>1, <1>2 DEF SubmitProvider

LEMMA StepName == ASSUME IInv, NEW j \in Jobs, UpdateBatchImageJobProviderSubmit(j) PROVE IInv'
<1>1. CASE /\ SubmitAt(j, "name", "enqueue")
           /\ CanTransition(status[j], "submitted")
           /\ status' = [status EXCEPT ![j] = "submitted"]
           /\ named' = [named EXCEPT ![j] = TRUE]
           /\ age' = [age EXCEPT ![j] = "fresh"]
           /\ NoFault
           /\ UNCHANGED <<cost, retry>>
  <2>1. SubmitMoves(j, "name", "enqueue") /\ FaultType'
    BY <1>1, SubmitEffect DEF SubmitSteps
  <2>2. /\ RowPart(j) /\ status'[j] = "submitted" /\ named'[j]
        /\ cost'[j] = cost[j] /\ retry'[j] = retry[j]
    BY <1>1, Typed DEF RowPart, RowType, SameRow, Live
  <2>3. MoneyPart(j) /\ SameMoney(j)
    BY HoldsEffect DEF UpdateBatchImageJobProviderSubmit
  <2>4. ProviderPart(j) /\ provider'[j] = provider[j]
    BY ProviderStays DEF UpdateBatchImageJobProviderSubmit
  <2>5. QueuePart(j) /\ SameQueue(j) /\ UNCHANGED <<holding, lapsed>>
    BY QueueEffect DEF UpdateBatchImageJobProviderSubmit
  <2>6. JobInv(j) /\ ~named[j] /\ status[j] \in Unsubmitted
    BY <1>1, <2>1
    DEF IInv, JobInv, SubmitInv, SubmitMoves, Unnamed, CanTransition, Unsubmitted, Terminal
  <2>7. SubmitInv(j)' /\ RowInv(j)'
    BY <2>1, <2>2, <2>3, <2>4, <2>6
    DEF JobInv, SubmitInv, RowInv, Unnamed, Unsubmitted, Finished, Paid, SubmitMoves, SameMoney
  <2>8. RefundInv(j)' /\ CareInv(j)'
    BY <2>1, <2>2, <2>3, <2>5, <2>6
    DEF JobInv, RowInv, RefundInv, CareInv, Cared, Past, Unsubmitted, Finished, SubmitMoves,
        SameMoney
  <2>9. Quiet(j)
    BY <2>2, <2>3, <2>4, <2>5, <2>6
    DEF Quiet, Kept, Unsubmitted, Terminal, Finished, SameMoney, SameQueue
  <2> QED
    BY <2>1, <2>2, <2>3, <2>4, <2>5, <2>7, <2>8, <2>9, RequestFrame DEF RestInv, SubmitMoves
<1>2. CASE /\ SubmitAt(j, "name", "abort")
           /\ FailsUnless(CanTransition(status[j], "submitted"))
           /\ UNCHANGED rowVars
  BY <1>2, SubmitOnly DEF UpdateBatchImageJobProviderSubmit, FailsUnless, SubmitSteps
<1> QED
  BY <1>1, <1>2 DEF UpdateBatchImageJobProviderSubmit

LEMMA StepAbort == ASSUME IInv, NEW j \in Jobs, AbortOrphanProviderJob(j) PROVE IInv'
<1>1. SubmitAt(j, "abort", "done") /\ UNCHANGED <<holdVars, rowVars, queueVars, dropped>>
  BY DEF AbortOrphanProviderJob
<1>2. CASE ProviderCancel(j) /\ NoFault
  <2>1. SubmitMoves(j, "abort", "done") /\ FaultType'
    BY <1>1, <1>2, SubmitEffect DEF SubmitSteps
  <2>2. RowPart(j) /\ SameRow(j)
    BY <1>1, RowEffect
  <2>3. MoneyPart(j) /\ SameMoney(j)
    BY <1>1, HoldsEffect
  <2>4. ProviderPart(j) /\ provider'[j] \in {"cancelled", provider[j]}
    BY <1>2, ProviderCancelEffect
  <2>5. QueuePart(j) /\ SameQueue(j) /\ UNCHANGED <<holding, lapsed>>
    BY <1>1, QueueEffect
  <2>6. JobInv(j) /\ ~named[j]
    BY <2>1 DEF IInv, JobInv, SubmitInv, SubmitMoves, Unnamed
  <2>7. SubmitInv(j)' /\ RowInv(j)'
    BY <2>1, <2>2, <2>3, <2>4, <2>6
    DEF JobInv, SubmitInv, RowInv, Unnamed, SubmitMoves, SameMoney, SameRow
  <2>8. RefundInv(j)' /\ CareInv(j)'
    BY <2>1, <2>2, <2>3, <2>5, <2>6
    DEF JobInv, RefundInv, CareInv, Cared, Settled, Past, SubmitMoves, SameMoney, SameRow, SameQueue
  <2>9. Quiet(j)
    BY <2>2, <2>3, <2>5, <2>6 DEF Quiet, Kept, SameMoney, SameRow, SameQueue
  <2> QED
    BY <2>1, <2>2, <2>3, <2>4, <2>5, <2>7, <2>8, <2>9, RequestFrame DEF RestInv, SubmitMoves
<1>3. CASE UNCHANGED provider /\ Fault
  BY <1>1, <1>3, SubmitOnly DEF SubmitSteps
<1> QED
  BY <1>2, <1>3 DEF AbortOrphanProviderJob

LEMMA StepSubmitEnqueue == ASSUME IInv, NEW j \in Jobs, SubmitEnqueue(j) PROVE IInv'
<1>1. /\ QueuePart(j) /\ UNCHANGED <<holding, lapsed>>
      /\ (j \in pending' \/ dropped'[j]) /\ (j \in pending => j \in pending') /\ (Fault \/ NoFault)
  BY EnqueueEffect DEF SubmitEnqueue
<1>2. SubmitMoves(j, "enqueue", "done") /\ FaultType'
  BY <1>1, SubmitEffect DEF SubmitEnqueue, SubmitSteps
<1>3. RowPart(j) /\ SameRow(j)
  BY RowEffect DEF SubmitEnqueue
<1>4. MoneyPart(j) /\ SameMoney(j)
  BY HoldsEffect DEF SubmitEnqueue
<1>5. ProviderPart(j) /\ provider'[j] = provider[j]
  BY ProviderStays DEF SubmitEnqueue
<1>6. JobInv(j)
  BY DEF IInv
<1>7. SubmitInv(j)' /\ RowInv(j)'
  BY <1>2, <1>3, <1>4, <1>5, <1>6
  DEF JobInv, SubmitInv, RowInv, Unnamed, SubmitMoves, SameMoney, SameRow
<1>8. RefundInv(j)' /\ CareInv(j)'
  BY <1>1, <1>2, <1>3, <1>4, <1>6
  DEF JobInv, RefundInv, CareInv, Cared, Past, SubmitMoves, SameMoney, SameRow
<1>9. Quiet(j)
  BY <1>1, <1>3, <1>4, <1>5 DEF Quiet, Kept, SameMoney, SameRow
<1> QED
  BY <1>1, <1>2, <1>3, <1>4, <1>5, <1>7, <1>8, <1>9, RequestFrame DEF RestInv, SubmitMoves

\* A committed release leaves the job without anything to care for.
LEMMA ReleasePart ==
    ASSUME IInv, NEW j \in Jobs, Release(j)
    PROVE  /\ MoneyPart(j)
           /\ moves'[j] \in {moves[j], moves[j] \cup {"release"}}
           /\ "release" \in moves'[j] => "hold" \in moves[j]
           /\ charged'[j] = charged[j]
           /\ Claimed(ReleaseId(j))'
BY HasMoneySound, ReleaseEffect DEF MoneyPart

LEMMA StepSubmitRelease == ASSUME IInv, NEW j \in Jobs, ReleaseFailedSubmitHold(j) PROVE IInv'
<1>1. UNCHANGED <<rowVars, provider, queueVars, dropped>>
  BY DEF ReleaseFailedSubmitHold
<1>2. ASSUME NEW at \in {"release", "releaseOnly"}, NEW to \in {"record", "done"},
             at = "release" <=> to = "record",
             SubmitAt(j, at, to), Release(j), NoFault
      PROVE  IInv'
  <2>1. SubmitMoves(j, at, to) /\ FaultType'
    BY <1>2, SubmitEffect DEF SubmitSteps
  <2>2. RowPart(j) /\ SameRow(j)
    BY <1>1, RowEffect
  <2>3. /\ MoneyPart(j)
        /\ moves'[j] \in {moves[j], moves[j] \cup {"release"}}
        /\ "release" \in moves'[j] => "hold" \in moves[j]
        /\ charged'[j] = charged[j]
        /\ Claimed(ReleaseId(j))'
    BY <1>2, ReleasePart
  <2>4. ProviderPart(j) /\ provider'[j] = provider[j]
    BY <1>1, ProviderStays
  <2>5. QueuePart(j) /\ SameQueue(j) /\ UNCHANGED <<holding, lapsed>>
    BY <1>1, QueueEffect
  <2>6. JobInv(j) /\ ~named[j] /\ "hold" \in moves[j] /\ "capture" \notin moves[j]
    BY <2>1 DEF IInv, JobInv, SubmitInv, RowInv, SubmitMoves, Unnamed
  <2>7. SubmitInv(j)' /\ RowInv(j)'
    BY <2>1, <2>2, <2>3, <2>4, <2>6
    DEF JobInv, SubmitInv, RowInv, Unnamed, SubmitMoves, SameRow
  <2>8. RefundInv(j)' /\ CareInv(j)'
    BY <2>1, <2>2, <2>3, <2>6
    DEF RefundInv, CareInv, Cared, Settled, Past, SubmitMoves, SameRow
  <2>9. Quiet(j)
    BY <2>2, <2>3, <2>4, <2>5 DEF Quiet, Kept, SameRow, SameQueue
  <2> QED
    BY <2>1, <2>2, <2>3, <2>4, <2>5, <2>7, <2>8, <2>9, RequestFrame DEF RestInv, SubmitMoves
<1>3. ASSUME NEW at \in {"release", "releaseOnly"},
             SubmitAt(j, at, "recordUnreleased"), FailsUnless(CanRelease(j)), UNCHANGED holdVars
      PROVE  IInv'
  BY <1>1, <1>3, SubmitOnly DEF FailsUnless, SubmitSteps
<1> QED
  BY <1>2, <1>3 DEF ReleaseFailedSubmitHold

LEMMA StepRecord == ASSUME IInv, NEW j \in Jobs, RecordSubmitFailure(j) PROVE IInv'
<1>1. UNCHANGED <<holdVars, provider, queueVars, dropped>>
  BY DEF RecordSubmitFailure
<1>2. PICK at \in {"record", "recordUnreleased"}, to \in {"done", "enqueue"} :
         (at = "record" <=> to = "done") /\ SubmitAt(j, at, to)
  BY DEF RecordSubmitFailure
<1>3. CASE SetStatus(j, "failed") /\ NoFault
  <2>1. SubmitMoves(j, at, to) /\ FaultType'
    BY <1>2, <1>3, SubmitEffect DEF SubmitSteps
  <2>2. /\ RowPart(j) /\ status'[j] = "failed" /\ named'[j] = named[j]
        /\ cost'[j] = cost[j] /\ retry'[j] = retry[j]
    BY <1>3, StatusEffect DEF Terminal
  <2>3. MoneyPart(j) /\ SameMoney(j)
    BY <1>1, HoldsEffect
  <2>4. ProviderPart(j) /\ provider'[j] = provider[j]
    BY <1>1, ProviderStays
  <2>5. QueuePart(j) /\ SameQueue(j) /\ UNCHANGED <<holding, lapsed>>
    BY <1>1, QueueEffect
  <2>6. JobInv(j) /\ ~named[j] /\ "capture" \notin moves[j] /\ status[j] # "settling"
    BY <2>1 DEF IInv, JobInv, SubmitInv, RowInv, SubmitMoves, Unnamed
  <2>7. SubmitInv(j)' /\ RowInv(j)'
    BY <1>2, <2>1, <2>2, <2>3, <2>4, <2>6
    DEF JobInv, SubmitInv, RowInv, Unnamed, Finished, Paid, SubmitMoves, SameMoney
  <2>8. RefundInv(j)' /\ CareInv(j)'
    BY <1>2, <2>1, <2>2, <2>3, <2>6
    DEF JobInv, SubmitInv, RefundInv, CareInv, Cared, Settled, Finished, SubmitMoves, SameMoney
  <2>9. Quiet(j)
    BY <2>2, <2>3, <2>4, <2>5, <2>6 DEF Quiet, Kept, Terminal, Finished, SameMoney, SameQueue
  <2> QED
    BY <2>1, <2>2, <2>3, <2>4, <2>5, <2>7, <2>8, <2>9, RequestFrame DEF RestInv, SubmitMoves
<1>4. CASE UNCHANGED rowVars /\ Fault
  BY <1>1, <1>2, <1>4, SubmitOnly DEF SubmitSteps
<1> QED
  BY <1>3, <1>4 DEF RecordSubmitFailure

\* Nobody's request goes on.
LEMMA CallsStay == ASSUME IInv, NEW j \in Jobs, UNCHANGED callVars
                   PROVE  CallPart(j) /\ SameCalls(j) /\ UNCHANGED work
BY Typed DEF callVars, CallPart, SameCalls, RequestType

\* Time passes, or the heartbeat renews updated_at.
LEMMA AgeOnly ==
    ASSUME IInv, NEW j \in Jobs, NEW a \in {"fresh", "stale"}, age' = [age EXCEPT ![j] = a],
           UNCHANGED <<holdVars, status, named, cost, retry, provider, callVars, queueVars,
                       faultVars, dropped>>
    PROVE  IInv'
<1>1. RowPart(j) /\ SameRow(j)
  BY Typed DEF RowPart, RowType, SameRow
<1>2. CallPart(j) /\ SameCalls(j) /\ UNCHANGED work /\ FaultType'
  BY CallsStay, Typed DEF faultVars, FaultType
<1>3. MoneyPart(j) /\ SameMoney(j) /\ ProviderPart(j) /\ provider'[j] = provider[j]
  BY HoldsEffect, ProviderStays
<1>4. QueuePart(j) /\ SameQueue(j) /\ UNCHANGED <<holding, lapsed>>
  BY QueueEffect
<1>5. Same(j)
  BY <1>1, <1>2, <1>3, <1>4 DEF Same
<1>6. RestInv(j)'
  BY <1>5, SameRest DEF IInv, JobInv, RestInv
<1>7. Quiet(j)
  BY <1>1, <1>5, SameKept DEF Quiet, SameRow
<1> QED
  BY <1>1, <1>2, <1>3, <1>4, <1>6, <1>7, RequestFrame

LEMMA StepTouch == ASSUME IInv, NEW j \in Jobs, TouchBatchImageJobSubmitting(j) PROVE IInv'
BY AgeOnly DEF TouchBatchImageJobSubmitting

LEMMA StepAge == ASSUME IInv, NEW j \in Jobs, Age(j) PROVE IInv'
BY AgeOnly DEF Age

LEMMA StepResubmit == ASSUME IInv, NEW j \in Jobs, Resubmit(j) PROVE IInv'
<1>1. /\ QueuePart(j) /\ UNCHANGED <<holding, lapsed>>
      /\ (j \in pending' \/ dropped'[j]) /\ (j \in pending => j \in pending') /\ (Fault \/ NoFault)
  BY EnqueueEffect DEF Resubmit
<1>2. CallPart(j) /\ SameCalls(j) /\ UNCHANGED work /\ FaultType'
  BY <1>1, CallsStay, Typed, FaultOK DEF Resubmit
<1>3. RowPart(j) /\ SameRow(j)
  BY RowEffect DEF Resubmit
<1>4. MoneyPart(j) /\ SameMoney(j)
  BY HoldsEffect DEF Resubmit
<1>5. ProviderPart(j) /\ provider'[j] = provider[j]
  BY ProviderStays DEF Resubmit
<1>6. JobInv(j)
  BY DEF IInv
<1>7. SubmitInv(j)' /\ RowInv(j)'
  BY <1>2, <1>3, <1>4, <1>5, <1>6 DEF JobInv, SubmitInv, RowInv, SameCalls, SameMoney, SameRow
<1>8. RefundInv(j)' /\ CareInv(j)'
  BY <1>1, <1>2, <1>3, <1>4, <1>6
  DEF JobInv, RefundInv, CareInv, Cared, SameCalls, SameMoney, SameRow
<1>9. Quiet(j)
  BY <1>1, <1>3, <1>4, <1>5 DEF Quiet, Kept, SameMoney, SameRow
<1> QED
  BY <1>1, <1>2, <1>3, <1>4, <1>5, <1>7, <1>8, <1>9, RequestFrame DEF RestInv

\* A process that stops leaves the row, the money, the provider and the queue alone.
LEMMA CrashEffect ==
    ASSUME IInv, NEW j \in Jobs, NEW d \in BOOLEAN,
           crashes < MaxCrashes, crashes' = crashes + 1, UNCHANGED faults,
           dropped' = [dropped EXCEPT ![j] = @ \/ d],
           UNCHANGED <<holdVars, rowVars, provider, queueVars>>
    PROVE  /\ RowPart(j) /\ SameRow(j)
           /\ MoneyPart(j) /\ SameMoney(j)
           /\ ProviderPart(j) /\ provider'[j] = provider[j]
           /\ QueuePart(j) /\ UNCHANGED <<pending, holding, lapsed>>
           /\ dropped'[j] <=> dropped[j] \/ d
           /\ FaultType'
<1>1. QueueType' /\ QueueType
  BY Typed DEF QueueType, queueVars
<1>2. QueuePart(j) /\ UNCHANGED <<pending, holding, lapsed>> /\ (dropped'[j] <=> dropped[j] \/ d)
  BY <1>1 DEF QueuePart, QueueType, SameQueue, queueVars
<1>3. FaultType'
  BY Typed, CrashOK
<1> QED
  BY <1>2, <1>3, RowEffect, HoldsEffect, ProviderStays

LEMMA StepCrashSubmit == ASSUME IInv, NEW j \in Jobs, CrashSubmit(j) PROVE IInv'
<1>1. PICK d \in BOOLEAN : d <=> submit[j] \in {"recordUnreleased", "enqueue"}
  OBVIOUS
<1>2. /\ RowPart(j) /\ SameRow(j)
      /\ MoneyPart(j) /\ SameMoney(j)
      /\ ProviderPart(j) /\ provider'[j] = provider[j]
      /\ QueuePart(j) /\ UNCHANGED <<pending, holding, lapsed>>
      /\ dropped'[j] <=> dropped[j] \/ d
      /\ FaultType'
  <2>1. dropped' = [dropped EXCEPT ![j] = @ \/ d]
    BY <1>1 DEF CrashSubmit
  <2> QED
    BY <2>1, CrashEffect DEF CrashSubmit
<1>3. /\ CallPart(j) /\ UNCHANGED work
      /\ submit'[j] = "done" /\ cancel'[j] = cancel[j] /\ sweep'[j] = sweep[j]
  BY Typed DEF CrashSubmit, CallPart, SameCalls, RequestType, SubmitSteps
<1>4. JobInv(j)
  BY DEF IInv
<1>5. SubmitInv(j)' /\ RowInv(j)'
  BY <1>2, <1>3, <1>4 DEF JobInv, SubmitInv, RowInv, Unnamed, SameMoney, SameRow
<1>6. RefundInv(j)' /\ CareInv(j)'
  BY <1>1, <1>2, <1>3, <1>4 DEF JobInv, RefundInv, CareInv, Cared, Settled, Past, SameMoney, SameRow
<1>7. Quiet(j)
  BY <1>2 DEF Quiet, Kept, SameMoney, SameRow
<1> QED
  BY <1>2, <1>3, <1>5, <1>6, <1>7, RequestFrame DEF RestInv

-----------------------------------------------------------------------------
(* Cancel                                                                  *)

CancelMoves(j, at, to) ==
    /\ CallPart(j)
    /\ cancel[j] = at /\ cancel'[j] = to /\ submit'[j] = submit[j] /\ sweep'[j] = sweep[j]
    /\ UNCHANGED work

LEMMA CancelEffect ==
    ASSUME IInv, NEW j \in Jobs, NEW at, NEW to \in CancelSteps, CancelAt(j, at, to)
    PROVE  CancelMoves(j, at, to) /\ (Fault \/ NoFault => FaultType')
<1>1. RequestType /\ RequestType' /\ UNCHANGED <<work, crashes>>
  BY Typed DEF RequestType, CancelAt
<1>2. Fault \/ NoFault => FaultType'
  BY <1>1, Typed, FaultOK
<1> QED
  BY <1>1, <1>2 DEF CancelMoves, CallPart, SameCalls, RequestType, CancelAt

\* A call of Cancel that fails, or has no effect outside
LEMMA CancelOnly ==
    ASSUME IInv, NEW j \in Jobs, NEW at \in CancelSteps, NEW to \in CancelSteps,
           CancelAt(j, at, to), Fault \/ NoFault,
           UNCHANGED <<holdVars, rowVars, provider, queueVars, dropped>>,
           \/ at = "idle" /\ to = "release" /\ status[j] \in Finished
           \/ at = "idle" /\ to \in {"provider", "transition"}
           \/ at \in {"provider", "transition"} /\ to = "idle"
           \/ at = "release" /\ to = "enqueue"
    PROVE  IInv'
<1>1. RowPart(j) /\ SameRow(j)
  BY RowEffect
<1>2. ProviderPart(j) /\ provider'[j] = provider[j]
  BY ProviderStays
<1>3. QueuePart(j) /\ SameQueue(j) /\ UNCHANGED <<holding, lapsed>>
  BY QueueEffect
<1>4. MoneyPart(j) /\ SameMoney(j)
  BY HoldsEffect
<1>5. CancelMoves(j, at, to) /\ FaultType'
  BY CancelEffect
<1>6. JobInv(j)
  BY DEF IInv
<1>7. SubmitInv(j)'
  BY <1>1, <1>2, <1>4, <1>5, <1>6 DEF JobInv, SubmitInv, CancelMoves, SameMoney, SameRow
<1>8. RowInv(j)' /\ RefundInv(j)'
  BY <1>1, <1>2, <1>3, <1>4, <1>5, <1>6
  DEF JobInv, RowInv, RefundInv, CancelMoves, SameMoney, SameRow, SameQueue
<1>9. CareInv(j)'
  BY <1>1, <1>3, <1>4, <1>5, <1>6
  DEF JobInv, CareInv, Cared, Settled, CancelMoves, SameMoney, SameRow, SameQueue
<1>10. Quiet(j)
  BY <1>1, <1>2, <1>3, <1>4 DEF Quiet, Kept, SameMoney, SameRow, SameQueue
<1> QED
  BY <1>1, <1>2, <1>3, <1>4, <1>5, <1>7, <1>8, <1>9, <1>10, RequestFrame DEF RestInv, CancelMoves

LEMMA StepCancelRead == ASSUME IInv, NEW j \in Jobs, CancelRead(j) PROVE IInv'
BY CancelOnly DEF CancelRead, CancelSteps, Finished

LEMMA StepCancelProvider == ASSUME IInv, NEW j \in Jobs, CancelProvider(j) PROVE IInv'
<1>1. UNCHANGED <<holdVars, rowVars, queueVars, dropped>>
  BY DEF CancelProvider
<1>2. CASE CancelAt(j, "provider", "enqueue") /\ ProviderCancel(j) /\ NoFault
  <2>1. CancelMoves(j, "provider", "enqueue") /\ FaultType'
    BY <1>2, CancelEffect DEF CancelSteps
  <2>2. RowPart(j) /\ SameRow(j)
    BY <1>1, RowEffect
  <2>3. MoneyPart(j) /\ SameMoney(j)
    BY <1>1, HoldsEffect
  <2>4. /\ ProviderPart(j)
        /\ provider'[j] = IF provider[j] = "running" THEN "cancelled" ELSE provider[j]
    BY <1>2, ProviderCancelEffect
  <2>5. QueuePart(j) /\ SameQueue(j) /\ UNCHANGED <<holding, lapsed>>
    BY <1>1, QueueEffect
  <2>6. JobInv(j)
    BY DEF IInv
  <2>7. SubmitInv(j)' /\ RowInv(j)'
    BY <2>1, <2>2, <2>3, <2>4, <2>6
    DEF JobInv, SubmitInv, RowInv, CancelMoves, SameMoney, SameRow
  <2>8. RefundInv(j)' /\ CareInv(j)'
    BY <2>1, <2>2, <2>3, <2>5, <2>6
    DEF JobInv, RefundInv, CareInv, Cared, CancelMoves, SameMoney, SameRow
  <2>9. Quiet(j)
    BY <2>2, <2>3, <2>4, <2>5 DEF Quiet, Kept, SameMoney, SameRow, SameQueue
  <2> QED
    BY <2>1, <2>2, <2>3, <2>4, <2>5, <2>7, <2>8, <2>9, RequestFrame DEF RestInv, CancelMoves
<1>3. CASE CancelAt(j, "provider", "idle") /\ UNCHANGED provider /\ Fault
  BY <1>1, <1>3, CancelOnly DEF CancelSteps
<1> QED
  BY <1>2, <1>3 DEF CancelProvider

LEMMA StepCancelTransition == ASSUME IInv, NEW j \in Jobs, CancelTransition(j) PROVE IInv'
<1>1. UNCHANGED <<holdVars, provider, queueVars, dropped>> /\ NoFault
  BY DEF CancelTransition
<1>2. CASE CancelAt(j, "transition", "release") /\ Transition(j, "cancelled")
  <2>1. CancelMoves(j, "transition", "release") /\ FaultType'
    BY <1>1, <1>2, CancelEffect DEF CancelSteps
  <2>2. /\ RowPart(j) /\ status'[j] = "cancelled" /\ named'[j] = named[j]
        /\ cost'[j] = cost[j] /\ retry'[j] = retry[j]
        /\ status[j] \in {"created", "uploading", "submitted", "running"}
    BY <1>2, StatusEffect DEF Transition, CanTransition, Terminal
  <2>3. MoneyPart(j) /\ SameMoney(j)
    BY <1>1, HoldsEffect
  <2>4. ProviderPart(j) /\ provider'[j] = provider[j]
    BY <1>1, ProviderStays
  <2>5. QueuePart(j) /\ SameQueue(j) /\ UNCHANGED <<holding, lapsed>>
    BY <1>1, QueueEffect
  <2>6. JobInv(j) /\ "capture" \notin moves[j]
    BY <2>2 DEF IInv, JobInv, RowInv, Terminal
  <2>7. SubmitInv(j)' /\ RowInv(j)'
    BY <2>1, <2>2, <2>3, <2>4, <2>6
    DEF JobInv, SubmitInv, RowInv, Finished, Paid, CancelMoves, SameMoney
  <2>8. RefundInv(j)' /\ CareInv(j)'
    BY <2>1, <2>2, <2>3, <2>6 DEF RefundInv, CareInv, Cared, Finished, CancelMoves, SameMoney
  <2>9. Quiet(j)
    BY <2>2, <2>3, <2>4, <2>5 DEF Quiet, Kept, Terminal, Finished, SameMoney, SameQueue
  <2> QED
    BY <2>1, <2>2, <2>3, <2>4, <2>5, <2>7, <2>8, <2>9, RequestFrame DEF RestInv, CancelMoves
<1>3. CASE CancelAt(j, "transition", "idle") /\ UNCHANGED rowVars
  BY <1>1, <1>3, CancelOnly DEF CancelSteps
<1> QED
  BY <1>2, <1>3 DEF CancelTransition

\* A release that Cancel or the sweep makes for a finished job
LEMMA FinishedRelease ==
    ASSUME IInv, NEW j \in Jobs, Release(j), status[j] \in Finished,
           UNCHANGED <<rowVars, provider, queueVars, dropped>>,
           CallPart(j), UNCHANGED work, FaultType',
           submit'[j] = submit[j],
           cancel'[j] \in {"idle", cancel[j]}, sweep'[j] \in {"idle", sweep[j]}
    PROVE  IInv'
<1>1. RowPart(j) /\ SameRow(j)
  BY RowEffect
<1>2. /\ MoneyPart(j)
      /\ moves'[j] \in {moves[j], moves[j] \cup {"release"}}
      /\ "release" \in moves'[j] => "hold" \in moves[j]
      /\ charged'[j] = charged[j]
      /\ Claimed(ReleaseId(j))'
  BY ReleasePart
<1>3. ProviderPart(j) /\ provider'[j] = provider[j]
  BY ProviderStays
<1>4. QueuePart(j) /\ SameQueue(j) /\ UNCHANGED <<holding, lapsed>>
  BY QueueEffect
<1>5. JobInv(j)
  BY DEF IInv
<1>6. SubmitInv(j)' /\ RowInv(j)'
  BY <1>1, <1>2, <1>3, <1>5 DEF JobInv, SubmitInv, RowInv, SameRow
<1>7. RefundInv(j)' /\ CareInv(j)'
  BY <1>1, <1>2, <1>4, <1>5 DEF JobInv, RefundInv, CareInv, Cared, Settled, SameRow, SameQueue
<1>8. Quiet(j)
  BY <1>1, <1>2, <1>3, <1>4 DEF Quiet, Kept, SameRow, SameQueue
<1> QED
  BY <1>1, <1>2, <1>3, <1>4, <1>6, <1>7, <1>8, RequestFrame DEF RestInv

LEMMA StepCancelRelease == ASSUME IInv, NEW j \in Jobs, CancelRelease(j) PROVE IInv'
<1>1. UNCHANGED <<rowVars, provider, queueVars, dropped>>
  BY DEF CancelRelease
<1>2. CASE CancelAt(j, "release", "idle") /\ Release(j) /\ NoFault
  <2>1. CancelMoves(j, "release", "idle") /\ FaultType'
    BY <1>2, CancelEffect DEF CancelSteps
  <2>2. status[j] \in Finished
    BY <2>1 DEF IInv, JobInv, RowInv, CancelMoves
  <2> QED
    BY <1>1, <1>2, <2>1, <2>2, FinishedRelease DEF CancelMoves
<1>3. CASE CancelAt(j, "release", "enqueue") /\ FailsUnless(CanRelease(j)) /\ UNCHANGED holdVars
  BY <1>1, <1>3, CancelOnly DEF FailsUnless, CancelSteps
<1> QED
  BY <1>2, <1>3 DEF CancelRelease

LEMMA StepCancelEnqueue == ASSUME IInv, NEW j \in Jobs, CancelEnqueue(j) PROVE IInv'
<1>1. /\ QueuePart(j) /\ UNCHANGED <<holding, lapsed>>
      /\ (j \in pending' \/ dropped'[j]) /\ (j \in pending => j \in pending') /\ (Fault \/ NoFault)
  BY EnqueueEffect DEF CancelEnqueue
<1>2. CancelMoves(j, "enqueue", "idle") /\ FaultType'
  BY <1>1, CancelEffect DEF CancelEnqueue, CancelSteps
<1>3. RowPart(j) /\ SameRow(j)
  BY RowEffect DEF CancelEnqueue
<1>4. MoneyPart(j) /\ SameMoney(j)
  BY HoldsEffect DEF CancelEnqueue
<1>5. ProviderPart(j) /\ provider'[j] = provider[j]
  BY ProviderStays DEF CancelEnqueue
<1>6. JobInv(j)
  BY DEF IInv
<1>7. SubmitInv(j)' /\ RowInv(j)'
  BY <1>2, <1>3, <1>4, <1>5, <1>6 DEF JobInv, SubmitInv, RowInv, CancelMoves, SameMoney, SameRow
<1>8. RefundInv(j)' /\ CareInv(j)'
  BY <1>1, <1>2, <1>3, <1>4, <1>6
  DEF JobInv, RefundInv, CareInv, Cared, CancelMoves, SameMoney, SameRow
<1>9. Quiet(j)
  BY <1>1, <1>3, <1>4, <1>5 DEF Quiet, Kept, SameMoney, SameRow
<1> QED
  BY <1>1, <1>2, <1>3, <1>4, <1>5, <1>7, <1>8, <1>9, RequestFrame DEF RestInv, CancelMoves

LEMMA StepCrashCancel == ASSUME IInv, NEW j \in Jobs, CrashCancel(j) PROVE IInv'
<1>1. PICK d \in BOOLEAN : d <=> cancel[j] \in {"release", "enqueue"}
  OBVIOUS
<1>2. /\ RowPart(j) /\ SameRow(j)
      /\ MoneyPart(j) /\ SameMoney(j)
      /\ ProviderPart(j) /\ provider'[j] = provider[j]
      /\ QueuePart(j) /\ UNCHANGED <<pending, holding, lapsed>>
      /\ dropped'[j] <=> dropped[j] \/ d
      /\ FaultType'
  <2>1. dropped' = [dropped EXCEPT ![j] = @ \/ d]
    BY <1>1 DEF CrashCancel
  <2> QED
    BY <2>1, CrashEffect DEF CrashCancel
<1>3. /\ CallPart(j) /\ UNCHANGED work
      /\ cancel'[j] = "idle" /\ submit'[j] = submit[j] /\ sweep'[j] = sweep[j]
  BY Typed DEF CrashCancel, CallPart, SameCalls, RequestType, CancelSteps
<1>4. JobInv(j)
  BY DEF IInv
<1>5. SubmitInv(j)' /\ RowInv(j)'
  BY <1>2, <1>3, <1>4 DEF JobInv, SubmitInv, RowInv, SameMoney, SameRow
<1>6. RefundInv(j)' /\ CareInv(j)'
  BY <1>1, <1>2, <1>3, <1>4 DEF JobInv, RefundInv, CareInv, Cared, Settled, SameMoney, SameRow
<1>7. Quiet(j)
  BY <1>2 DEF Quiet, Kept, SameMoney, SameRow
<1> QED
  BY <1>2, <1>3, <1>5, <1>6, <1>7, RequestFrame DEF RestInv

-----------------------------------------------------------------------------
(* The sweep                                                               *)

SweepMoves(j, at, to) ==
    /\ CallPart(j)
    /\ sweep[j] = at /\ sweep'[j] = to /\ submit'[j] = submit[j] /\ cancel'[j] = cancel[j]
    /\ UNCHANGED work

LEMMA SweepEffect ==
    ASSUME IInv, NEW j \in Jobs, NEW at, NEW to \in {"idle", "listed", "release", "enqueue"},
           SweepAt(j, at, to)
    PROVE  SweepMoves(j, at, to) /\ (Fault \/ NoFault => FaultType')
<1>1. RequestType /\ RequestType' /\ UNCHANGED <<work, crashes>>
  BY Typed DEF RequestType, SweepAt
<1>2. Fault \/ NoFault => FaultType'
  BY <1>1, Typed, FaultOK
<1> QED
  BY <1>1, <1>2 DEF SweepMoves, CallPart, SameCalls, RequestType, SweepAt

\* A call of the sweep that fails, or has no effect outside
LEMMA SweepOnly ==
    ASSUME IInv, NEW j \in Jobs, NEW at, NEW to \in {"idle", "listed", "release", "enqueue"},
           SweepAt(j, at, to), Fault \/ NoFault,
           UNCHANGED <<holdVars, rowVars, provider, queueVars, dropped>>,
           \/ at = "idle" /\ to = "listed"
           \/ at = "listed" /\ to = "idle"
           \/ at = "release" /\ to = "enqueue"
    PROVE  IInv'
<1>1. RowPart(j) /\ SameRow(j)
  BY RowEffect
<1>2. ProviderPart(j) /\ provider'[j] = provider[j]
  BY ProviderStays
<1>3. QueuePart(j) /\ SameQueue(j) /\ UNCHANGED <<holding, lapsed>>
  BY QueueEffect
<1>4. MoneyPart(j) /\ SameMoney(j)
  BY HoldsEffect
<1>5. SweepMoves(j, at, to) /\ FaultType'
  BY SweepEffect
<1>6. JobInv(j)
  BY DEF IInv
<1>7. SubmitInv(j)'
  BY <1>1, <1>2, <1>4, <1>5, <1>6 DEF JobInv, SubmitInv, SweepMoves, SameMoney, SameRow
<1>8. RowInv(j)' /\ RefundInv(j)'
  BY <1>1, <1>2, <1>3, <1>4, <1>5, <1>6
  DEF JobInv, RowInv, RefundInv, SweepMoves, SameMoney, SameRow, SameQueue
<1>9. CareInv(j)'
  BY <1>1, <1>3, <1>4, <1>5, <1>6
  DEF JobInv, CareInv, Cared, Settled, SweepMoves, SameMoney, SameRow, SameQueue
<1>10. Quiet(j)
  BY <1>1, <1>2, <1>3, <1>4 DEF Quiet, Kept, SameMoney, SameRow, SameQueue
<1> QED
  BY <1>1, <1>2, <1>3, <1>4, <1>5, <1>7, <1>8, <1>9, <1>10, RequestFrame DEF RestInv, SweepMoves

LEMMA StepListStale == ASSUME IInv, NEW j \in Jobs, ListStale(j) PROVE IInv'
BY SweepOnly DEF ListStale

LEMMA StepFailStale == ASSUME IInv, NEW j \in Jobs, FailStaleUnsubmitted(j) PROVE IInv'
<1>1. UNCHANGED <<holdVars, provider, queueVars, dropped>>
  BY DEF FailStaleUnsubmitted
<1>2. CASE /\ SweepAt(j, "listed", "release") /\ StaleUnsubmitted(j)
           /\ SetStatus(j, "failed") /\ NoFault
  <2>1. SweepMoves(j, "listed", "release") /\ FaultType'
    BY <1>2, SweepEffect
  <2>2. /\ RowPart(j) /\ status'[j] = "failed" /\ named'[j] = named[j]
        /\ cost'[j] = cost[j] /\ retry'[j] = retry[j]
        /\ status[j] \in Unsubmitted /\ ~named[j]
    BY <1>2, StatusEffect DEF StaleUnsubmitted, Terminal
  <2>3. MoneyPart(j) /\ SameMoney(j)
    BY <1>1, HoldsEffect
  <2>4. ProviderPart(j) /\ provider'[j] = provider[j]
    BY <1>1, ProviderStays
  <2>5. QueuePart(j) /\ SameQueue(j) /\ UNCHANGED <<holding, lapsed>>
    BY <1>1, QueueEffect
  <2>6. JobInv(j) /\ "capture" \notin moves[j]
    BY <2>2 DEF IInv, JobInv, RowInv
  <2>7. SubmitInv(j)' /\ RowInv(j)'
    BY <2>1, <2>2, <2>3, <2>4, <2>6
    DEF JobInv, SubmitInv, RowInv, Unsubmitted, Finished, Paid, SweepMoves, SameMoney
  <2>8. RefundInv(j)' /\ CareInv(j)'
    BY <2>1, <2>2, <2>3, <2>6 DEF RefundInv, CareInv, Cared, Finished, SweepMoves, SameMoney
  <2>9. Quiet(j)
    BY <2>2, <2>3, <2>4, <2>5 DEF Quiet, Kept, Unsubmitted, Terminal, Finished, SameMoney, SameQueue
  <2> QED
    BY <2>1, <2>2, <2>3, <2>4, <2>5, <2>7, <2>8, <2>9, RequestFrame DEF RestInv, SweepMoves
<1>3. CASE SweepAt(j, "listed", "idle") /\ FailsUnless(StaleUnsubmitted(j)) /\ UNCHANGED rowVars
  BY <1>1, <1>3, SweepOnly DEF FailsUnless
<1> QED
  BY <1>2, <1>3 DEF FailStaleUnsubmitted

LEMMA StepSweepRelease == ASSUME IInv, NEW j \in Jobs, SweepRelease(j) PROVE IInv'
<1>1. UNCHANGED <<rowVars, provider, queueVars, dropped>>
  BY DEF SweepRelease
<1>2. CASE SweepAt(j, "release", "idle") /\ Release(j) /\ NoFault
  <2>1. SweepMoves(j, "release", "idle") /\ FaultType'
    BY <1>2, SweepEffect
  <2>2. status[j] \in Finished
    BY <2>1 DEF IInv, JobInv, RowInv, SweepMoves
  <2> QED
    BY <1>1, <1>2, <2>1, <2>2, FinishedRelease DEF SweepMoves
<1>3. CASE SweepAt(j, "release", "enqueue") /\ FailsUnless(CanRelease(j)) /\ UNCHANGED holdVars
  BY <1>1, <1>3, SweepOnly DEF FailsUnless
<1> QED
  BY <1>2, <1>3 DEF SweepRelease

LEMMA StepSweepEnqueue == ASSUME IInv, NEW j \in Jobs, SweepEnqueue(j) PROVE IInv'
<1>1. /\ QueuePart(j) /\ UNCHANGED <<holding, lapsed>>
      /\ (j \in pending' \/ dropped'[j]) /\ (j \in pending => j \in pending') /\ (Fault \/ NoFault)
  BY EnqueueEffect DEF SweepEnqueue
<1>2. SweepMoves(j, "enqueue", "idle") /\ FaultType'
  BY <1>1, SweepEffect DEF SweepEnqueue
<1>3. RowPart(j) /\ SameRow(j)
  BY RowEffect DEF SweepEnqueue
<1>4. MoneyPart(j) /\ SameMoney(j)
  BY HoldsEffect DEF SweepEnqueue
<1>5. ProviderPart(j) /\ provider'[j] = provider[j]
  BY ProviderStays DEF SweepEnqueue
<1>6. JobInv(j)
  BY DEF IInv
<1>7. SubmitInv(j)' /\ RowInv(j)'
  BY <1>2, <1>3, <1>4, <1>5, <1>6 DEF JobInv, SubmitInv, RowInv, SweepMoves, SameMoney, SameRow
<1>8. RefundInv(j)' /\ CareInv(j)'
  BY <1>1, <1>2, <1>3, <1>4, <1>6
  DEF JobInv, RefundInv, CareInv, Cared, SweepMoves, SameMoney, SameRow
<1>9. Quiet(j)
  BY <1>1, <1>3, <1>4, <1>5 DEF Quiet, Kept, SameMoney, SameRow
<1> QED
  BY <1>1, <1>2, <1>3, <1>4, <1>5, <1>7, <1>8, <1>9, RequestFrame DEF RestInv, SweepMoves

LEMMA StepCrashSweep == ASSUME IInv, NEW j \in Jobs, CrashSweep(j) PROVE IInv'
<1>1. PICK d \in BOOLEAN : d <=> sweep[j] # "listed"
  OBVIOUS
<1>2. /\ RowPart(j) /\ SameRow(j)
      /\ MoneyPart(j) /\ SameMoney(j)
      /\ ProviderPart(j) /\ provider'[j] = provider[j]
      /\ QueuePart(j) /\ UNCHANGED <<pending, holding, lapsed>>
      /\ dropped'[j] <=> dropped[j] \/ d
      /\ FaultType'
  <2>1. dropped' = [dropped EXCEPT ![j] = @ \/ d]
    BY <1>1 DEF CrashSweep
  <2> QED
    BY <2>1, CrashEffect DEF CrashSweep
<1>3. /\ CallPart(j) /\ UNCHANGED work
      /\ sweep'[j] = "idle" /\ submit'[j] = submit[j] /\ cancel'[j] = cancel[j]
  BY Typed DEF CrashSweep, CallPart, SameCalls, RequestType
<1>4. JobInv(j)
  BY DEF IInv
<1>5. SubmitInv(j)' /\ RowInv(j)'
  BY <1>2, <1>3, <1>4 DEF JobInv, SubmitInv, RowInv, SameMoney, SameRow
<1>6. RefundInv(j)' /\ CareInv(j)'
  BY <1>1, <1>2, <1>3, <1>4 DEF JobInv, RefundInv, CareInv, Cared, Settled, SameMoney, SameRow
<1>7. Quiet(j)
  BY <1>2 DEF Quiet, Kept, SameMoney, SameRow
<1> QED
  BY <1>2, <1>3, <1>5, <1>6, <1>7, RequestFrame DEF RestInv

-----------------------------------------------------------------------------
(* The environment                                                         *)

LEMMA StepProviderFinishes == ASSUME IInv, NEW j \in Jobs, ProviderFinishes(j) PROVE IInv'
<1>1. CallPart(j) /\ SameCalls(j) /\ UNCHANGED work /\ FaultType'
  BY CallsStay, Typed DEF ProviderFinishes, faultVars, FaultType
<1>2. RowPart(j) /\ SameRow(j)
  BY RowEffect DEF ProviderFinishes
<1>3. MoneyPart(j) /\ SameMoney(j)
  BY HoldsEffect DEF ProviderFinishes
<1>4. ProviderPart(j) /\ provider'[j] \in {"succeeded", "failed"} /\ provider[j] = "running"
  BY ProviderEffect DEF ProviderFinishes
<1>5. QueuePart(j) /\ SameQueue(j) /\ UNCHANGED <<holding, lapsed>>
  BY QueueEffect DEF ProviderFinishes
<1>6. JobInv(j)
  BY DEF IInv
<1>7. SubmitInv(j)' /\ RowInv(j)'
  BY <1>1, <1>2, <1>3, <1>4, <1>6 DEF JobInv, SubmitInv, RowInv, SameCalls, SameMoney, SameRow
<1>8. RefundInv(j)' /\ CareInv(j)'
  BY <1>1, <1>2, <1>3, <1>5, <1>6
  DEF JobInv, RefundInv, CareInv, Cared, Settled, SameCalls, SameMoney, SameRow, SameQueue
<1>9. Quiet(j)
  BY <1>2, <1>3, <1>4, <1>5 DEF Quiet, Kept, SameMoney, SameRow, SameQueue
<1> QED
  BY <1>1, <1>2, <1>3, <1>4, <1>5, <1>7, <1>8, <1>9, RequestFrame DEF RestInv

LEMMA StepCleanup == ASSUME IInv, NEW j \in Jobs, CleanupOutput(j) PROVE IInv'
<1>1. CallPart(j) /\ SameCalls(j) /\ UNCHANGED work /\ FaultType'
  BY CallsStay, Typed DEF CleanupOutput, faultVars, FaultType
<1>2. /\ RowPart(j) /\ status[j] = "completed" /\ status'[j] = "output_deleted"
      /\ named'[j] = named[j] /\ cost'[j] = cost[j] /\ retry'[j] = retry[j]
  BY StatusEffect DEF CleanupOutput, Terminal
<1>3. MoneyPart(j) /\ SameMoney(j)
  BY HoldsEffect DEF CleanupOutput
<1>4. ProviderPart(j) /\ provider'[j] = provider[j]
  BY ProviderStays DEF CleanupOutput
<1>5. QueuePart(j) /\ SameQueue(j) /\ UNCHANGED <<holding, lapsed>>
  BY QueueEffect DEF CleanupOutput
<1>6. JobInv(j) /\ "capture" \in moves[j] /\ named[j]
  BY <1>2 DEF IInv, JobInv, RowInv, Paid
<1>7. SubmitInv(j)' /\ RowInv(j)'
  BY <1>1, <1>2, <1>3, <1>4, <1>6
  DEF JobInv, SubmitInv, RowInv, Finished, Paid, Terminal, SameCalls, SameMoney
<1>8. RefundInv(j)' /\ CareInv(j)'
  BY <1>1, <1>2, <1>3, <1>5, <1>6
  DEF JobInv, RefundInv, CareInv, Cared, Settled, Finished, SameCalls, SameMoney, SameQueue
<1>9. Quiet(j)
  BY <1>2, <1>3, <1>4, <1>5 DEF Quiet, Kept, Terminal, Finished, SameMoney, SameQueue
<1> QED
  BY <1>1, <1>2, <1>3, <1>4, <1>5, <1>7, <1>8, <1>9, RequestFrame DEF RestInv

-----------------------------------------------------------------------------
(* The workers                                                             *)

LEMMA Knows ==
    ASSUME IInv, NEW w \in Workers, NEW j \in Jobs, holding[w] = j, NEW at, work[w] = at
    PROVE  KnownInv(at, j) /\ JobInv(j)
BY BatchAssumption DEF IInv, WorkInv

\* What a step of the pipeline leaves alone
LEMMA WorkStays ==
    ASSUME IInv, NEW w \in Workers, NEW j \in Jobs, NEW at, NEW to, WorkAt(w, at, to),
           UNCHANGED queueVars
    PROVE  /\ CallPart(j) /\ SameCalls(j)
           /\ ProviderPart(j) /\ provider'[j] = provider[j]
           /\ QueuePart(j) /\ SameQueue(j) /\ UNCHANGED <<holding, lapsed>>
<1>1. UNCHANGED <<submit, cancel, sweep, provider, dropped>>
  BY DEF WorkAt
<1>2. CallPart(j) /\ SameCalls(j)
  BY <1>1, Typed DEF CallPart, SameCalls, RequestType
<1> QED
  BY <1>1, <1>2, ProviderStays, QueueEffect

LEMMA WorkFrame ==
    ASSUME IInv, NEW w \in Workers, NEW j \in Jobs, holding[w] = j,
           NEW at, NEW to \in WorkSteps \ {"idle"}, WorkAt(w, at, to),
           UNCHANGED queueVars, Fault \/ NoFault,
           RowPart(j), MoneyPart(j), RestInv(j)', Kept(j), KnownInv(to, j)'
    PROVE  IInv'
<1>1. /\ CallPart(j) /\ ProviderPart(j) /\ QueuePart(j) /\ UNCHANGED <<holding, lapsed>>
  BY WorkStays
<1>2. holding[w] # NoJob
  BY BatchAssumption
<1>3. RequestType' /\ WorkerType' /\ ProviderType' /\ UNCHANGED crashes
  BY <1>1, <1>2, Typed, WorkTyped
<1>4. TypeInv' /\ MoneySound'
  <2>1. FaultType'
    BY <1>3, Typed, FaultOK
  <2> QED
    BY <1>1, <1>3, <2>1, TypeAfter DEF MoneyPart, MoneySound, RowPart, QueuePart
<1>5. \A k \in Jobs \ {j} : Same(k)
  BY <1>1 DEF Same, RowPart, MoneyPart, ProviderPart, CallPart, QueuePart
<1>6. work'[w] = to /\ \A v \in Workers \ {w} : work'[v] = work[v]
  BY Typed DEF WorkAt, WorkerType
<1>7. ASSUME NEW v \in Workers, holding'[v] = j PROVE KnownInv(work[v], j)'
  <2>1. CASE v = w
    BY <1>6, <2>1
  <2>2. CASE v # w
    <3>1. lapsed'[j]
      BY <1>1, <1>2, <1>7, <2>2 DEF IInv, LockInv
    <3>2. PICK step : step = work[v]
      OBVIOUS
    <3>3. KnownInv(step, j)
      BY <1>1, <1>7, <3>2, Knows
    <3>4. KnownInv(step, j)'
      BY <3>1, <3>3, Onlooker
    <3> QED
      BY <1>6, <2>2, <3>2, <3>4
  <2> QED
    BY <2>1, <2>2
<1>8. LockInv'
  BY <1>1 DEF IInv, LockInv
<1>9. \A v \in Workers : holding'[v] # j /\ holding'[v] # NoJob =>
                             holding'[v] = holding[v] /\ work'[v] = work[v]
  BY <1>1, <1>6
<1> QED
  BY <1>4, <1>5, <1>7, <1>8, <1>9, Frame

\* A step of the pipeline that reads, or a call that fails
LEMMA WorkOnly ==
    ASSUME IInv, NEW w \in Workers, NEW j \in Jobs, holding[w] = j,
           NEW at, NEW to \in WorkSteps \ {"idle"}, WorkAt(w, at, to),
           UNCHANGED <<holdVars, rowVars, queueVars>>, Fault \/ NoFault, KnownInv(to, j)
    PROVE  IInv'
<1>1. RowPart(j) /\ SameRow(j)
  BY RowEffect
<1>2. MoneyPart(j) /\ SameMoney(j)
  BY HoldsEffect
<1>3. Same(j)
  BY <1>1, <1>2, WorkStays DEF Same
<1>4. RestInv(j)'
  BY <1>3, SameRest DEF IInv, JobInv, RestInv
<1>5. Kept(j)
  BY <1>3, SameKept
<1>6. KnownInv(to, j)'
  BY <1>1, <1>5, Onlooker DEF SameRow
<1> QED
  BY <1>1, <1>2, <1>4, <1>5, <1>6, WorkFrame

LEMMA StepPipelineRead ==
    ASSUME IInv, NEW w \in Workers, NEW j \in Jobs, holding[w] = j, PipelineRead(w, j)
    PROVE  IInv'
<1>1. PICK to : to = IF status[j] = "settling" THEN "settle" ELSE "process"
  OBVIOUS
<1>2. WorkAt(w, "read", to) /\ to \in WorkSteps \ {"idle"}
  BY <1>1 DEF PipelineRead, WorkSteps
<1>3. KnownInv("read", j) /\ JobInv(j)
  BY <1>2, Knows DEF WorkAt
<1>4. KnownInv(to, j)
  BY <1>1, <1>3 DEF KnownInv, JobInv, RowInv, Providing, Settling, Answered
<1> QED
  BY <1>2, <1>4, WorkOnly DEF PipelineRead, OnlyWork

LEMMA StepProcessRead ==
    ASSUME IInv, NEW w \in Workers, NEW j \in Jobs, holding[w] = j, ProcessRead(w, j)
    PROVE  IInv'
<1>1. PICK to : to = CASE status[j] \in {"failed", "cancelled"} -> "release"
                       [] status[j] \in {"settling", "completed", "output_deleted"} -> "ack"
                       [] ~named[j] -> "requeue"
                       [] status[j] = "indexing" -> "index"
                       [] OTHER -> "get"
  OBVIOUS
<1>2. WorkAt(w, "process", to)
  BY <1>1 DEF ProcessRead
<1>3. KnownInv("process", j) /\ JobInv(j)
  BY <1>2, Knows DEF WorkAt
<1>4. \/ to = "release" /\ status[j] \in Finished
      \/ to = "ack" /\ status[j] \in {"settling"} \cup Paid
      \/ to = "requeue"
      \/ to = "index" /\ named[j] /\ status[j] = "indexing"
      \/ to = "get" /\ named[j] /\ status[j] # "settling"
  <2>1. CASE status[j] \in Finished
    BY <1>1, <2>1 DEF Finished
  <2>2. CASE status[j] \in {"settling"} \cup Paid
    BY <1>1, <2>2 DEF Paid
  <2>3. CASE status[j] \notin Finished \cup {"settling"} \cup Paid /\ ~named[j]
    BY <1>1, <1>3, <2>3 DEF Finished, Paid, JobInv, RowInv
  <2>4. CASE status[j] \notin Finished \cup {"settling"} \cup Paid /\ named[j]
    BY <1>1, <2>4 DEF Finished, Paid
  <2> QED
    BY <2>1, <2>2, <2>3, <2>4
<1>5. KnownInv(to, j)
  BY <1>3, <1>4
  DEF KnownInv, JobInv, RowInv, Settled, Providing, Settling, Answered, Paid
<1>6. to \in WorkSteps \ {"idle"}
  BY <1>4 DEF WorkSteps
<1> QED
  BY <1>2, <1>5, <1>6, WorkOnly DEF ProcessRead, OnlyWork

LEMMA StepGet ==
    ASSUME IInv, NEW w \in Workers, NEW j \in Jobs, holding[w] = j, GetProviderStatus(w, j)
    PROVE  IInv'
<1>1. PICK to : to = CASE provider[j] = "running" -> "toRunning"
                       [] provider[j] = "succeeded" -> "toIndexing"
                       [] provider[j] = "failed" -> "toFailed"
                       [] provider[j] = "cancelled" -> "toCancelled"
  OBVIOUS
<1>2. WorkAt(w, "get", to)
  BY <1>1 DEF GetProviderStatus
<1>3. KnownInv("get", j) /\ JobInv(j)
  BY <1>2, Knows DEF WorkAt
<1>4. provider[j] \in {"running", "succeeded", "failed", "cancelled"}
  BY <1>3, Typed DEF KnownInv, JobInv, SubmitInv, Providing, ProviderType
<1>5. \/ to = "toRunning"
      \/ to \in {"toIndexing", "toFailed", "toCancelled"} /\ provider[j] # "running"
  BY <1>1, <1>4
<1>6. KnownInv(to, j)
  BY <1>3, <1>5 DEF KnownInv, Providing, Settling, Answered
<1>7. to \in WorkSteps \ {"idle"}
  BY <1>5 DEF WorkSteps
<1> QED
  BY <1>2, <1>6, <1>7, WorkOnly DEF GetProviderStatus, OnlyWork

\* Trying the job again needs nothing but its queue entry.
LEMMA MayRequeue ==
    ASSUME NEW at, NEW j \in Jobs, KnownInv(at, j)
    PROVE  KnownInv("requeue", j)
BY DEF KnownInv, Providing, Settling, Answered

LEMMA StepSettleRead ==
    ASSUME IInv, NEW w \in Workers, NEW j \in Jobs, holding[w] = j, SettleRead(w, j)
    PROVE  IInv'
<1>1. PICK to : to = CASE status[j] = "completed" -> "ack"
                       [] status[j] # "settling" -> "requeue"
                       [] retry[j] >= MaxRetries -> "exhaust"
                       [] cost[j] > Hold -> "settlementFailed"
                       [] OTHER -> "capture"
  OBVIOUS
<1>2. WorkAt(w, "settle", to)
  BY <1>1 DEF SettleRead
<1>3. KnownInv("settle", j) /\ JobInv(j)
  BY <1>2, Knows DEF WorkAt
<1>4. retry[j] >= MaxRetries => retry[j] = MaxRetries
  BY Typed, BatchAssumption DEF RowType
<1>5. \/ to = "ack" /\ status[j] = "completed"
      \/ to = "requeue"
      \/ to = "exhaust" /\ retry[j] = MaxRetries
      \/ to = "settlementFailed"
      \/ to = "capture" /\ status[j] = "settling"
  BY <1>1, <1>4
<1>6. KnownInv(to, j)
  BY <1>3, <1>5 DEF KnownInv, JobInv, RowInv, Settled, Providing, Settling, Answered, Paid
<1>7. to \in WorkSteps \ {"idle"}
  BY <1>5 DEF WorkSteps
<1> QED
  BY <1>2, <1>6, <1>7, WorkOnly DEF SettleRead, OnlyWork

LEMMA StepWorkerError ==
    ASSUME IInv, NEW w \in Workers, NEW j \in Jobs, holding[w] = j, WorkerError(w, j)
    PROVE  IInv'
<1>1. PICK at : WorkAt(w, at, "requeue")
  BY DEF WorkerError
<1>2. KnownInv("requeue", j)
  BY <1>1, Knows, MayRequeue DEF WorkAt
<1>3. "requeue" \in WorkSteps \ {"idle"}
  BY DEF WorkSteps
<1> QED
  BY <1>1, <1>2, <1>3, WorkOnly DEF WorkerError, OnlyWork

\* A worker's update of the row: what is left to show is about the job's status.
LEMMA TransitionFrame ==
    ASSUME IInv, NEW w \in Workers, NEW j \in Jobs, holding[w] = j,
           NEW at, NEW to \in WorkSteps \ {"idle"}, WorkAt(w, at, to),
           NEW s \in Live \cup Terminal, Transition(j, s),
           NoFault, UNCHANGED <<holdVars, queueVars>>,
           <<at, s, to>> \in {<<"toRunning", "running", "requeue">>,
                              <<"toIndexing", "indexing", "index">>,
                              <<"toFailed", "failed", "release">>,
                              <<"toCancelled", "cancelled", "release">>,
                              <<"toSettling", "settling", "requeue">>,
                              <<"toExhausted", "failed", "ack">>}
    PROVE  IInv'
<1>1. CanTransition(status[j], s) /\ SetStatus(j, s)
  BY DEF Transition
<1>2. /\ RowPart(j) /\ status'[j] = s /\ named'[j] = named[j]
      /\ cost'[j] = cost[j] /\ retry'[j] = retry[j]
  BY <1>1, StatusEffect
<1>3. MoneyPart(j) /\ SameMoney(j)
  BY HoldsEffect
<1>4. SameCalls(j) /\ provider'[j] = provider[j] /\ SameQueue(j) /\ UNCHANGED <<holding, lapsed>>
  BY WorkStays
<1>5. KnownInv(at, j) /\ JobInv(j) /\ work[w] = at
  BY Knows DEF WorkAt
<1>6. named[j] /\ (at # "toRunning" => provider[j] # "running")
  BY <1>5 DEF KnownInv, Providing, Settling, Answered
<1>7. /\ s = "failed" => status[j] \in Live
      /\ s \in {"running", "indexing", "cancelled"} =>
           status[j] \in {"created", "uploading", "submitted", "running"}
      /\ s = "settling" => status[j] = "indexing"
      /\ s \in {"running", "indexing", "cancelled", "failed", "settling"}
  BY <1>1 DEF CanTransition, Terminal
<1>8. "capture" \in moves[j] =>
        s = "failed" /\ status[j] = "settling" /\ (retry[j] = MaxRetries \/ lapsed[j])
  <2>1. "capture" \in moves[j] => status[j] \in {"settling"} \cup Terminal
    BY <1>5 DEF JobInv, RowInv
  <2>2. status[j] \in Live => status[j] \notin Terminal
    BY DEF Live, Unsubmitted, Terminal
  <2>3. s # "failed" => status[j] \notin {"settling"} \cup Terminal
    BY <1>7 DEF Terminal
  <2>4. s = "failed" /\ status[j] = "settling" => retry[j] = MaxRetries \/ lapsed[j]
    BY <1>5 DEF KnownInv, Providing
  <2> QED
    BY <1>7, <2>1, <2>2, <2>3, <2>4
<1>9. SubmitInv(j)' /\ RowInv(j)'
  <2>1. SubmitInv(j)'
    BY <1>2, <1>3, <1>4, <1>5, <1>6, <1>7
    DEF JobInv, SubmitInv, SameCalls, SameMoney, Live, Unsubmitted
  <2>2. s \notin Paid /\ (s \in {"failed", "cancelled"} => s \in Finished /\ s \in Terminal)
    BY <1>7 DEF Paid, Finished, Terminal
  <2>3. cancel[j] = "release" \/ sweep[j] = "release" => FALSE
    <3>1. status[j] \in Finished => FALSE
      BY <1>7 DEF Finished, Live, Unsubmitted
    <3> QED
      BY <1>5, <3>1 DEF JobInv, RowInv
  <2>4. RowInv(j)'
    BY <1>2, <1>3, <1>4, <1>5, <1>6, <1>7, <1>8, <2>2, <2>3
    DEF JobInv, RowInv, SameCalls, SameMoney
  <2> QED
    BY <2>1, <2>4
<1>10. RefundInv(j)' /\ CareInv(j)'
  <2>1. CareInv(j)'
    BY <1>4 DEF CareInv, Cared
  <2>2. status[j] \notin Finished
    BY <1>7 DEF Finished, Live, Unsubmitted
  <2>3. RefundInv(j)'
    BY <1>2, <1>3, <1>4, <1>5, <1>6, <1>8, <2>2 DEF JobInv, RefundInv, SameMoney, SameQueue
  <2> QED
    BY <2>1, <2>3
<1>11. Kept(j)
  BY <1>2, <1>3, <1>4, <1>7
  DEF Kept, SameMoney, SameQueue, Live, Unsubmitted, Terminal, Finished
<1>12. KnownInv(to, j)'
  <2>1. j \in pending' \/ Settled(j)'
    BY <1>5, <1>11, SettledStays DEF KnownInv, Kept
  <2>2. to \in {"requeue", "index", "release", "ack"}
    OBVIOUS
  <2>3. to = "index" => named'[j] /\ provider'[j] # "running" /\ status'[j] # "settling"
    BY <1>2, <1>4, <1>6
  <2>4. to = "release" => status'[j] \in Finished
    BY <1>2 DEF Finished
  <2>5. to = "ack" => Settled(j)'
    BY <1>3, <1>5 DEF KnownInv, Settled, SameMoney
  <2> QED
    BY <2>1, <2>2, <2>3, <2>4, <2>5 DEF KnownInv, Providing, Settling, Answered
<1> QED
  BY <1>2, <1>3, <1>9, <1>10, <1>11, <1>12, WorkFrame DEF RestInv

LEMMA StepProcessTransition ==
    ASSUME IInv, NEW w \in Workers, NEW j \in Jobs, holding[w] = j, ProcessTransition(w, j)
    PROVE  IInv'
<1>1. PICK at, s, to :
        /\ <<at, s, to>> \in {<<"toRunning", "running", "requeue">>,
                              <<"toIndexing", "indexing", "index">>,
                              <<"toFailed", "failed", "release">>,
                              <<"toCancelled", "cancelled", "release">>,
                              <<"toSettling", "settling", "requeue">>}
        /\ \/ WorkAt(w, at, to) /\ Transition(j, s)
           \/ WorkAt(w, at, "requeue") /\ UNCHANGED rowVars
  BY DEF ProcessTransition
<1>2. NoFault /\ UNCHANGED <<holdVars, queueVars>>
  BY DEF ProcessTransition
<1>3. CASE WorkAt(w, at, to) /\ Transition(j, s)
  <2>1. to \in WorkSteps \ {"idle"} /\ s \in Live \cup Terminal
    BY <1>1 DEF WorkSteps, Live, Unsubmitted, Terminal
  <2> QED
    BY <1>1, <1>2, <1>3, <2>1, TransitionFrame
<1>4. CASE WorkAt(w, at, "requeue") /\ UNCHANGED rowVars
  <2>1. KnownInv("requeue", j)
    BY <1>4, Knows, MayRequeue DEF WorkAt
  <2>2. "requeue" \in WorkSteps \ {"idle"}
    BY DEF WorkSteps
  <2> QED
    BY <1>2, <1>4, <2>1, <2>2, WorkOnly
<1> QED
  BY <1>1, <1>3, <1>4

LEMMA StepFailExhausted ==
    ASSUME IInv, NEW w \in Workers, NEW j \in Jobs, holding[w] = j, FailExhaustedTransition(w, j)
    PROVE  IInv'
<1>1. NoFault /\ UNCHANGED <<holdVars, queueVars>>
  BY DEF FailExhaustedTransition
<1>2. CASE WorkAt(w, "toExhausted", "ack") /\ Transition(j, "failed")
  <2>1. "ack" \in WorkSteps \ {"idle"} /\ "failed" \in Live \cup Terminal
    BY DEF WorkSteps, Terminal
  <2> QED
    BY <1>1, <1>2, <2>1, TransitionFrame
<1>3. CASE WorkAt(w, "toExhausted", "requeue") /\ UNCHANGED rowVars
  <2>1. KnownInv("requeue", j)
    BY <1>3, Knows, MayRequeue DEF WorkAt
  <2>2. "requeue" \in WorkSteps \ {"idle"}
    BY DEF WorkSteps
  <2> QED
    BY <1>1, <1>3, <2>1, <2>2, WorkOnly
<1> QED
  BY <1>2, <1>3 DEF FailExhaustedTransition

LEMMA StepIndex ==
    ASSUME IInv, NEW w \in Workers, NEW j \in Jobs, holding[w] = j, Index(w, j)
    PROVE  IInv'
<1>1. NoFault /\ UNCHANGED <<holdVars, queueVars>>
  BY DEF Index
<1>2. CASE /\ WorkAt(w, "index", "toSettling") /\ ReplaceAllowed(j)
           /\ \E c \in Costs : cost' = [cost EXCEPT ![j] = c]
           /\ UNCHANGED <<status, named, retry, age>>
  <2>1. /\ RowPart(j) /\ status'[j] = status[j] /\ named'[j] = named[j] /\ retry'[j] = retry[j]
        /\ status[j] = "indexing"
    BY <1>2, Typed DEF RowPart, RowType, SameRow, ReplaceAllowed
  <2>2. MoneyPart(j) /\ SameMoney(j)
    BY <1>1, HoldsEffect
  <2>3. SameCalls(j) /\ provider'[j] = provider[j] /\ SameQueue(j) /\ UNCHANGED <<holding, lapsed>>
    BY <1>1, <1>2, WorkStays
  <2>4. KnownInv("index", j) /\ JobInv(j) /\ "capture" \notin moves[j]
    BY <1>2, <2>1, Knows DEF WorkAt, JobInv, RowInv, Terminal
  <2>5. SubmitInv(j)' /\ RowInv(j)'
    BY <2>1, <2>2, <2>3, <2>4 DEF JobInv, SubmitInv, RowInv, SameCalls, SameMoney
  <2>6. RefundInv(j)' /\ CareInv(j)'
    BY <2>1, <2>2, <2>3, <2>4 DEF JobInv, RefundInv, CareInv, Cared, SameCalls, SameMoney, SameQueue
  <2>7. Kept(j)
    BY <2>1, <2>2, <2>3 DEF Kept, SameMoney, SameQueue
  <2>8. KnownInv("toSettling", j)
    BY <2>1, <2>4 DEF KnownInv, Providing, Settling, Answered
  <2>9. KnownInv("toSettling", j)'
    BY <2>1, <2>7, <2>8, Onlooker
  <2>10. "toSettling" \in WorkSteps \ {"idle"}
    BY DEF WorkSteps
  <2> QED
    BY <1>1, <1>2, <2>1, <2>2, <2>5, <2>6, <2>7, <2>9, <2>10, WorkFrame DEF RestInv
<1>3. CASE WorkAt(w, "index", "requeue") /\ UNCHANGED rowVars
  <2>1. KnownInv("requeue", j)
    BY <1>3, Knows, MayRequeue DEF WorkAt
  <2>2. "requeue" \in WorkSteps \ {"idle"}
    BY DEF WorkSteps
  <2> QED
    BY <1>1, <1>3, <2>1, <2>2, WorkOnly
<1>4. CASE WorkAt(w, "index", "toFailed") /\ UNCHANGED rowVars
  <2>1. KnownInv("toFailed", j)
    BY <1>4, Knows DEF WorkAt, KnownInv, Providing, Settling, Answered
  <2>2. "toFailed" \in WorkSteps \ {"idle"}
    BY DEF WorkSteps
  <2> QED
    BY <1>1, <1>4, <2>1, <2>2, WorkOnly
<1> QED
  BY <1>2, <1>3, <1>4 DEF Index

\* A release by a worker, of a finished job or of one whose settlement is given up
LEMMA WorkerRelease ==
    ASSUME IInv, NEW w \in Workers, NEW j \in Jobs, holding[w] = j,
           NEW at, NEW to, WorkAt(w, at, to),
           \/ at = "release" /\ to = "ack"
           \/ at = "exhaust" /\ to = "toExhausted",
           Release(j), NoFault, UNCHANGED <<rowVars, queueVars>>
    PROVE  IInv'
<1>1. RowPart(j) /\ SameRow(j)
  BY RowEffect
<1>2. /\ MoneyPart(j)
      /\ moves'[j] \in {moves[j], moves[j] \cup {"release"}}
      /\ "release" \in moves'[j] => "hold" \in moves[j]
      /\ charged'[j] = charged[j]
      /\ Claimed(ReleaseId(j))'
  BY ReleasePart
<1>3. SameCalls(j) /\ provider'[j] = provider[j] /\ SameQueue(j) /\ UNCHANGED <<holding, lapsed>>
  BY WorkStays
<1>4. KnownInv(at, j) /\ JobInv(j)
  BY Knows DEF WorkAt
<1>5. status[j] \in Finished \/ retry[j] = MaxRetries
  BY <1>4 DEF KnownInv
<1>6. SubmitInv(j)' /\ RowInv(j)'
  BY <1>1, <1>2, <1>3, <1>4 DEF JobInv, SubmitInv, RowInv, SameRow, SameCalls
<1>7. RefundInv(j)' /\ CareInv(j)'
  BY <1>1, <1>2, <1>3, <1>4, <1>5
  DEF JobInv, RefundInv, CareInv, Cared, Settled, SameRow, SameCalls, SameQueue
<1>8. Kept(j)
  BY <1>1, <1>2, <1>3 DEF Kept, SameRow, SameQueue
<1>9. KnownInv(at, j)'
  BY <1>1, <1>4, <1>8, Onlooker DEF SameRow
<1>10. KnownInv(to, j)'
  BY <1>2, <1>9 DEF KnownInv, Settled, Providing, Settling, Answered
<1>11. to \in WorkSteps \ {"idle"}
  BY DEF WorkSteps
<1> QED
  BY <1>1, <1>2, <1>6, <1>7, <1>8, <1>10, <1>11, WorkFrame DEF RestInv

LEMMA StepReleaseTerminalHold ==
    ASSUME IInv, NEW w \in Workers, NEW j \in Jobs, holding[w] = j, ReleaseTerminalHold(w, j)
    PROVE  IInv'
<1>1. UNCHANGED <<rowVars, queueVars>>
  BY DEF ReleaseTerminalHold
<1>2. CASE WorkAt(w, "release", "ack") /\ Release(j) /\ NoFault
  BY <1>1, <1>2, WorkerRelease
<1>3. CASE WorkAt(w, "release", "requeue") /\ FailsUnless(CanRelease(j)) /\ UNCHANGED holdVars
  <2>1. KnownInv("requeue", j)
    BY <1>3, Knows, MayRequeue DEF WorkAt
  <2>2. "requeue" \in WorkSteps \ {"idle"} /\ (Fault \/ NoFault)
    BY <1>3 DEF WorkSteps, FailsUnless
  <2> QED
    BY <1>1, <1>3, <2>1, <2>2, WorkOnly
<1> QED
  BY <1>2, <1>3 DEF ReleaseTerminalHold

LEMMA StepSettleCapture ==
    ASSUME IInv, NEW w \in Workers, NEW j \in Jobs, holding[w] = j, SettleCapture(w, j)
    PROVE  IInv'
<1>1. UNCHANGED <<rowVars, queueVars>>
  BY DEF SettleCapture
<1>2. CASE WorkAt(w, "capture", "mark") /\ Capture(j, cost[j]) /\ NoFault
  <2>1. RowPart(j) /\ SameRow(j)
    BY <1>1, RowEffect
  <2>2. KnownInv("capture", j) /\ JobInv(j)
    BY <1>2, Knows DEF WorkAt
  <2>3. named[j] /\ "hold" \in moves[j] /\ status[j] \in {"settling"} \cup Terminal
    BY <2>2 DEF KnownInv, JobInv, SubmitInv, Settling
  <2>4. cost[j] \in Nat
    <3>1. cost[j] \in Costs \cup {0}
      BY Typed DEF RowType
    <3>2. \A c \in Costs : c \in Nat
      BY BatchAssumption
    <3> QED
      BY <3>1, <3>2
  <2>5. /\ MoneyPart(j)
        /\ moves'[j] = moves[j] \cup {"capture"}
        /\ charged'[j] = cost[j]
        /\ Claimed(ReleaseId(j))' <=> Claimed(ReleaseId(j))
    <3>1. PICK c \in Nat : c = cost[j]
      BY <2>4
    <3> QED
      BY <1>2, <2>3, <3>1, HasMoneySound, CaptureEffect DEF MoneyPart
  <2>6. SameCalls(j) /\ provider'[j] = provider[j] /\ SameQueue(j) /\ UNCHANGED <<holding, lapsed>>
    BY <1>1, <1>2, WorkStays
  <2>7. SubmitInv(j)' /\ RowInv(j)'
    BY <2>1, <2>2, <2>3, <2>5, <2>6 DEF JobInv, SubmitInv, RowInv, SameRow, SameCalls, Unnamed
  <2>8. RefundInv(j)'
    <3>1. lapsed[j] \/ status[j] = "settling"
      BY <2>2 DEF KnownInv
    <3>2. "release" \in moves'[j] => "release" \in moves[j]
      BY <2>5
    <3> QED
      BY <2>1, <2>2, <2>3, <2>6, <3>1, <3>2
      DEF JobInv, RefundInv, Finished, SameRow, SameCalls, SameQueue
  <2>9. CareInv(j)'
    BY <2>5 DEF CareInv, Cared, Settled
  <2>10. Kept(j)
    BY <2>1, <2>5, <2>6 DEF Kept, SameRow, SameQueue
  <2>11. KnownInv("capture", j)'
    BY <2>1, <2>2, <2>10, Onlooker DEF SameRow
  <2>12. KnownInv("mark", j)'
    BY <2>5, <2>11 DEF KnownInv, Providing, Settling, Answered
  <2>13. "mark" \in WorkSteps \ {"idle"}
    BY DEF WorkSteps
  <2> QED
    BY <1>1, <1>2, <2>1, <2>5, <2>7, <2>8, <2>9, <2>10, <2>12, <2>13, WorkFrame DEF RestInv
<1>3. CASE /\ WorkAt(w, "capture", "settlementFailed")
           /\ FailsUnless(CanCapture(j, cost[j])) /\ UNCHANGED holdVars
  <2>1. KnownInv("settlementFailed", j)
    BY <1>3, Knows DEF WorkAt, KnownInv, Providing, Settling, Answered
  <2>2. "settlementFailed" \in WorkSteps \ {"idle"} /\ (Fault \/ NoFault)
    BY <1>3 DEF WorkSteps, FailsUnless
  <2> QED
    BY <1>1, <1>3, <2>1, <2>2, WorkOnly
<1> QED
  BY <1>2, <1>3 DEF SettleCapture

LEMMA StepMarkSettled ==
    ASSUME IInv, NEW w \in Workers, NEW j \in Jobs, holding[w] = j, MarkBatchImageJobSettled(w, j)
    PROVE  IInv'
<1>1. NoFault /\ UNCHANGED <<holdVars, queueVars>>
  BY DEF MarkBatchImageJobSettled
<1>2. CASE WorkAt(w, "mark", "ack") /\ status[j] = "settling" /\ SetStatus(j, "completed")
  <2>1. /\ RowPart(j) /\ status'[j] = "completed" /\ named'[j] = named[j]
        /\ cost'[j] = cost[j] /\ retry'[j] = retry[j]
    BY <1>2, StatusEffect DEF Terminal
  <2>2. MoneyPart(j) /\ SameMoney(j)
    BY <1>1, HoldsEffect
  <2>3. SameCalls(j) /\ provider'[j] = provider[j] /\ SameQueue(j) /\ UNCHANGED <<holding, lapsed>>
    BY <1>1, <1>2, WorkStays
  <2>4. KnownInv("mark", j) /\ JobInv(j) /\ "capture" \in moves[j] /\ named[j]
    BY <1>2, Knows DEF WorkAt, KnownInv, Settling
  <2>5. SubmitInv(j)' /\ RowInv(j)'
    BY <1>2, <2>1, <2>2, <2>3, <2>4
    DEF JobInv, SubmitInv, RowInv, SameCalls, SameMoney, Terminal, Finished
  <2>6. RefundInv(j)' /\ CareInv(j)'
    BY <1>2, <2>1, <2>2, <2>3, <2>4
    DEF JobInv, RefundInv, CareInv, Cared, Settled, SameMoney, SameQueue, Finished
  <2>7. Kept(j)
    BY <1>2, <2>1, <2>2, <2>3, <2>4 DEF Kept, SameMoney, SameQueue, Terminal, Finished
  <2>8. KnownInv("ack", j)'
    BY <2>2, <2>4 DEF KnownInv, SameMoney, Settled, Providing, Settling, Answered
  <2>9. "ack" \in WorkSteps \ {"idle"}
    BY DEF WorkSteps
  <2> QED
    BY <1>1, <1>2, <2>1, <2>2, <2>5, <2>6, <2>7, <2>8, <2>9, WorkFrame DEF RestInv
<1>3. CASE WorkAt(w, "mark", "requeue") /\ UNCHANGED rowVars
  <2>1. KnownInv("requeue", j)
    BY <1>3, Knows, MayRequeue DEF WorkAt
  <2>2. "requeue" \in WorkSteps \ {"idle"}
    BY DEF WorkSteps
  <2> QED
    BY <1>1, <1>3, <2>1, <2>2, WorkOnly
<1> QED
  BY <1>2, <1>3 DEF MarkBatchImageJobSettled

LEMMA CountEffect ==
    ASSUME IInv, NEW j \in Jobs, CountFailure(j)
    PROVE  /\ RowPart(j)
           /\ status'[j] = status[j] /\ named'[j] = named[j] /\ cost'[j] = cost[j]
           /\ retry[j] = MaxRetries => retry'[j] = MaxRetries
           /\ retry'[j] >= MaxRetries => retry'[j] = MaxRetries
<1>1. retry[j] \in 0..MaxRetries /\ MaxRetries \in Nat
  BY Typed, BatchAssumption DEF RowType
<1>2. retry' = [retry EXCEPT ![j] = IF retry[j] < MaxRetries THEN retry[j] + 1 ELSE retry[j]]
  BY DEF CountFailure
<1>3. (IF retry[j] < MaxRetries THEN retry[j] + 1 ELSE retry[j]) \in 0..MaxRetries
  BY <1>1
<1>4. retry' \in [Jobs -> 0..MaxRetries] /\ \A k \in Jobs \ {j} : retry'[k] = retry[k]
  BY <1>2, <1>3, Typed DEF RowType
<1>5. retry'[j] = IF retry[j] < MaxRetries THEN retry[j] + 1 ELSE retry[j]
  BY <1>2, Typed DEF RowType
<1>6. RowPart(j) /\ status'[j] = status[j] /\ named'[j] = named[j] /\ cost'[j] = cost[j]
  BY <1>4, Typed DEF CountFailure, RowPart, RowType, SameRow
<1> QED
  BY <1>1, <1>5, <1>6

\* A failed attempt is counted; the settlement is given up when it was the last.
LEMMA Counting ==
    ASSUME IInv, NEW w \in Workers, NEW j \in Jobs, holding[w] = j,
           NEW at \in {"settlementFailed", "exhaust"}, NEW to \in {"exhaust", "requeue"},
           WorkAt(w, at, to), CountFailure(j), to = "exhaust" => retry'[j] >= MaxRetries,
           Fault \/ NoFault, UNCHANGED <<holdVars, queueVars>>
    PROVE  IInv'
<1>1. /\ RowPart(j)
      /\ status'[j] = status[j] /\ named'[j] = named[j] /\ cost'[j] = cost[j]
      /\ retry[j] = MaxRetries => retry'[j] = MaxRetries
      /\ retry'[j] >= MaxRetries => retry'[j] = MaxRetries
  BY CountEffect
<1>2. MoneyPart(j) /\ SameMoney(j)
  BY HoldsEffect
<1>3. SameCalls(j) /\ provider'[j] = provider[j] /\ SameQueue(j) /\ UNCHANGED <<holding, lapsed>>
  BY WorkStays
<1>4. KnownInv(at, j) /\ JobInv(j)
  BY Knows DEF WorkAt
<1>5. SubmitInv(j)' /\ RowInv(j)'
  BY <1>1, <1>2, <1>3, <1>4 DEF JobInv, SubmitInv, RowInv, SameCalls, SameMoney
<1>6. RefundInv(j)' /\ CareInv(j)'
  BY <1>1, <1>2, <1>3, <1>4
  DEF JobInv, RefundInv, CareInv, Cared, Settled, SameCalls, SameMoney, SameQueue
<1>7. Kept(j)
  BY <1>1, <1>2, <1>3 DEF Kept, SameMoney, SameQueue
<1>8. KnownInv(at, j)'
  BY <1>1, <1>4, <1>7, Onlooker
<1>9. KnownInv(to, j)'
  BY <1>1, <1>8 DEF KnownInv, Providing, Settling, Answered
<1>10. to \in WorkSteps \ {"idle"}
  BY DEF WorkSteps
<1> QED
  BY <1>1, <1>2, <1>5, <1>6, <1>7, <1>9, <1>10, WorkFrame DEF RestInv

LEMMA StepRecordFailure ==
    ASSUME IInv, NEW w \in Workers, NEW j \in Jobs, holding[w] = j, RecordSettlementFailure(w, j)
    PROVE  IInv'
<1>1. CountFailure(j) /\ UNCHANGED <<holdVars, queueVars>>
  BY DEF RecordSettlementFailure
<1>2. PICK to \in {"exhaust", "requeue"} :
        /\ WorkAt(w, "settlementFailed", to) /\ (Fault \/ NoFault)
        /\ to = "exhaust" => retry'[j] >= MaxRetries
  BY DEF RecordSettlementFailure
<1> QED
  BY <1>1, <1>2, Counting

LEMMA StepExhaustedRelease ==
    ASSUME IInv, NEW w \in Workers, NEW j \in Jobs, holding[w] = j, FailExhaustedRelease(w, j)
    PROVE  IInv'
<1>1. UNCHANGED queueVars
  BY DEF FailExhaustedRelease
<1>2. CASE WorkAt(w, "exhaust", "toExhausted") /\ Release(j) /\ NoFault /\ UNCHANGED rowVars
  BY <1>1, <1>2, WorkerRelease
<1>3. CASE /\ WorkAt(w, "exhaust", "requeue") /\ FailsUnless(CanRelease(j))
           /\ CountFailure(j) /\ UNCHANGED holdVars
  BY <1>1, <1>3, Counting DEF FailsUnless
<1> QED
  BY <1>2, <1>3 DEF FailExhaustedRelease

\* A worker lets go of its job, which stays in the queue or needs nothing any more.
LEMMA LetGoFrame ==
    ASSUME IInv, NEW w \in Workers, NEW j \in Jobs, holding[w] = j,
           work' = [work EXCEPT ![w] = "idle"], holding' = [holding EXCEPT ![w] = NoJob],
           pending' \subseteq pending \cup {j}, pending \ {j} \subseteq pending',
           j \in pending' \/ Settled(j),
           UNCHANGED <<holdVars, rowVars, provider, submit, cancel, sweep, dropped, lapsed>>,
           FaultType'
    PROVE  IInv'
<1>1. /\ work'[w] = "idle" /\ \A v \in Workers \ {w} : work'[v] = work[v]
      /\ holding'[w] = NoJob /\ \A v \in Workers \ {w} : holding'[v] = holding[v]
      /\ WorkerType'
  BY Typed DEF WorkerType, WorkSteps
<1>2. RowPart(j) /\ SameRow(j) /\ MoneyPart(j) /\ SameMoney(j) /\ ProviderPart(j)
  BY RowEffect, HoldsEffect, ProviderStays
<1>3. CallPart(j) /\ SameCalls(j)
  BY Typed DEF CallPart, SameCalls, RequestType
<1>4. QueuePart(j)
  BY <1>1, Typed DEF QueuePart, QueueType, SameQueue
<1>5. TypeInv' /\ MoneySound'
  BY <1>1, <1>2, <1>3, <1>4, TypeAfter
  DEF RowPart, MoneyPart, MoneySound, ProviderPart, CallPart, QueuePart
<1>6. \A k \in Jobs \ {j} : Same(k)
  BY <1>2, <1>3, <1>4 DEF Same, RowPart, MoneyPart, ProviderPart, CallPart, QueuePart
<1>7. Settled(j) => Settled(j)'
  BY <1>2 DEF Settled, SameMoney, SameRow
<1>8. Kept(j)
  BY <1>2, <1>7 DEF Kept, SameMoney, SameRow
<1>9. RestInv(j)'
  <2>1. JobInv(j)
    BY DEF IInv
  <2>2. CareInv(j)'
    BY <1>7 DEF CareInv, Cared
  <2>3. SubmitInv(j)' /\ RowInv(j)' /\ RefundInv(j)'
    BY <1>2, <1>3, <2>1 DEF JobInv, SubmitInv, RowInv, RefundInv, SameMoney, SameRow, SameCalls
  <2> QED
    BY <2>2, <2>3 DEF RestInv
<1>10. ASSUME NEW v \in Workers, holding'[v] = j PROVE KnownInv(work[v], j)'
  <2>1. v # w /\ holding[v] = j /\ work'[v] = work[v]
    BY <1>1, <1>10, BatchAssumption
  <2>2. PICK step : step = work[v]
    OBVIOUS
  <2>3. KnownInv(step, j)
    BY <2>1, <2>2, Knows
  <2>4. KnownInv(step, j)'
    BY <1>2, <1>8, <2>3, Onlooker DEF SameRow
  <2> QED
    BY <2>1, <2>2, <2>4
<1>11. LockInv'
  BY <1>1 DEF IInv, LockInv
<1>12. \A v \in Workers : holding'[v] # j /\ holding'[v] # NoJob =>
                             holding'[v] = holding[v] /\ work'[v] = work[v]
  BY <1>1
<1> QED
  BY <1>5, <1>6, <1>9, <1>10, <1>11, <1>12, Frame

LEMMA StepAck ==
    ASSUME IInv, NEW w \in Workers, NEW j \in Jobs, holding[w] = j, WorkerAck(w, j)
    PROVE  IInv'
<1>1. WorkAt(w, "ack", "idle") /\ NoFault /\ UNCHANGED <<holdVars, rowVars, lapsed>>
  BY DEF WorkerAck
<1>2. Settled(j)
  BY <1>1, Knows DEF WorkAt, KnownInv
<1>3. /\ holding' = [holding EXCEPT ![w] = NoJob]
      /\ pending' \subseteq pending \cup {j} /\ pending \ {j} \subseteq pending'
  BY DEF WorkerAck, Queue!Ack, Queue!LetGo
<1>4. FaultType'
  BY <1>1, Typed, FaultOK DEF WorkAt
<1> QED
  BY <1>1, <1>2, <1>3, <1>4, LetGoFrame DEF WorkAt

LEMMA StepRequeue ==
    ASSUME IInv, NEW w \in Workers, NEW j \in Jobs, holding[w] = j, WorkerRequeue(w, j)
    PROVE  IInv'
<1>1. WorkAt(w, "requeue", "idle") /\ NoFault /\ UNCHANGED <<holdVars, rowVars, lapsed>>
  BY DEF WorkerRequeue
<1>2. holding' = [holding EXCEPT ![w] = NoJob] /\ pending' = pending \cup {j}
  BY DEF WorkerRequeue, Queue!RequeueAfter, Queue!LetGo
<1>3. FaultType'
  BY <1>1, Typed, FaultOK DEF WorkAt
<1> QED
  BY <1>1, <1>2, <1>3, LetGoFrame DEF WorkAt

LEMMA StepCrashWorker ==
    ASSUME IInv, NEW w \in Workers, NEW j \in Jobs, holding[w] = j, CrashWorker(w, j)
    PROVE  IInv'
<1>1. j \in pending \/ Settled(j)
  <2>1. PICK at : at = work[w]
    OBVIOUS
  <2> QED
    BY <2>1, Knows DEF KnownInv
<1>2. holding' = [holding EXCEPT ![w] = NoJob] /\ pending' = pending
  BY DEF CrashWorker, Queue!Drop, Queue!LetGo
<1>3. FaultType'
  BY Typed, CrashOK DEF CrashWorker
<1> QED
  BY <1>1, <1>2, <1>3, LetGoFrame DEF CrashWorker

LEMMA StepReserved == ASSUME IInv, NEW w \in Workers, NEW j \in Jobs, Reserved(w, j) PROVE IInv'
<1>1. /\ WorkAt(w, "idle", "read") /\ NoFault /\ UNCHANGED <<holdVars, rowVars, pending>>
      /\ j \in pending /\ holding[w] = NoJob /\ holding' = [holding EXCEPT ![w] = j]
  BY DEF Reserved, Queue!Deliver
<1>2. /\ work'[w] = "read" /\ \A v \in Workers \ {w} : work'[v] = work[v]
      /\ holding'[w] = j /\ \A v \in Workers \ {w} : holding'[v] = holding[v]
  BY <1>1, Typed DEF WorkAt, WorkerType
<1>3. WorkerType'
  <2>1. work' \in [Workers -> WorkSteps] /\ holding' \in [Workers -> Jobs \cup {NoJob}]
    BY <1>1, Typed DEF WorkAt, WorkerType, WorkSteps
  <2> QED
    BY <1>2, <2>1, Typed, BatchAssumption DEF WorkerType
<1>4. /\ lapsed' \in [Jobs -> BOOLEAN]
      /\ \A k \in Jobs \ {j} : lapsed'[k] = lapsed[k]
      /\ lapsed[j] => lapsed'[j]
      /\ \A v \in Workers : holding[v] = j => lapsed'[j]
  <2>1. PICK d \in BOOLEAN : d <=> \E v \in Workers : holding[v] = j
    OBVIOUS
  <2>2. lapsed' = [lapsed EXCEPT ![j] = @ \/ d]
    BY <2>1 DEF Reserved
  <2> QED
    BY <2>1, <2>2, Typed DEF QueueType
<1>5. RowPart(j) /\ SameRow(j) /\ MoneyPart(j) /\ SameMoney(j)
  BY <1>1, RowEffect, HoldsEffect
<1>6. ProviderPart(j) /\ provider'[j] = provider[j] /\ CallPart(j) /\ SameCalls(j)
  BY <1>1, Typed, ProviderStays DEF WorkAt, CallPart, SameCalls, RequestType
<1>7. UNCHANGED dropped
  BY <1>1 DEF WorkAt
<1>8. QueuePart(j)
  <2>1. QueueType'
    BY <1>1, <1>4, <1>7, Typed DEF QueueType
  <2>2. ASSUME NEW k \in Jobs \ {j} PROVE SameQueue(k)
    <3>1. \A v \in Workers : holding[v] = k => holding'[v] = k
      BY <1>1, <1>2, BatchAssumption
    <3> QED
      BY <1>1, <1>4, <1>7, <3>1 DEF SameQueue
  <2> QED
    BY <2>1, <2>2 DEF QueuePart
<1>9. TypeInv' /\ MoneySound'
  <2>1. FaultType'
    BY <1>1, Typed, FaultOK DEF WorkAt
  <2> QED
    BY <1>3, <1>5, <1>6, <1>8, <2>1, TypeAfter
    DEF RowPart, MoneyPart, MoneySound, ProviderPart, CallPart, QueuePart
<1>10. \A k \in Jobs \ {j} : Same(k)
  BY <1>5, <1>6, <1>8 DEF Same, RowPart, MoneyPart, ProviderPart, CallPart, QueuePart
<1>11. Kept(j) /\ JobInv(j)
  BY <1>1, <1>4, <1>5, <1>6 DEF IInv, Kept, SameMoney, SameRow
<1>12. RestInv(j)'
  <2>1. CareInv(j)'
    BY <1>1 DEF CareInv, Cared
  <2>2. SubmitInv(j)' /\ RowInv(j)'
    BY <1>5, <1>6, <1>11 DEF JobInv, SubmitInv, RowInv, SameMoney, SameRow, SameCalls
  <2>3. RefundInv(j)'
    BY <1>4, <1>5, <1>6, <1>11 DEF JobInv, RefundInv, SameMoney, SameRow, SameCalls
  <2> QED
    BY <2>1, <2>2, <2>3 DEF RestInv
<1>13. ASSUME NEW v \in Workers, holding'[v] = j PROVE KnownInv(work[v], j)'
  <2>1. CASE v = w
    BY <1>1, <1>2, <2>1 DEF KnownInv, Providing, Settling, Answered
  <2>2. CASE v # w
    <3>1. holding[v] = j /\ work'[v] = work[v]
      BY <1>2, <1>13, <2>2
    <3>2. PICK step : step = work[v]
      OBVIOUS
    <3>3. KnownInv(step, j)
      BY <3>1, <3>2, Knows
    <3>4. KnownInv(step, j)'
      BY <1>4, <1>11, <3>1, <3>3, Onlooker
    <3> QED
      BY <3>1, <3>2, <3>4
  <2> QED
    BY <2>1, <2>2
<1>14. LockInv'
  <2>1. ASSUME NEW u \in Workers, NEW v \in Workers, holding'[u] = holding'[v],
               holding'[u] # NoJob, u # v
        PROVE  lapsed'[holding'[u]]
    <3>1. CASE u = w \/ v = w
      BY <1>2, <1>4, <2>1, <3>1
    <3>2. CASE u # w /\ v # w
      <4>1. PICK k \in Jobs : holding[u] = k /\ holding[v] = k /\ holding'[u] = k
        BY <1>2, <2>1, <3>2, Typed DEF WorkerType
      <4>2. lapsed[k]
        BY <2>1, <4>1, BatchAssumption DEF IInv, LockInv
      <4> QED
        BY <1>4, <4>1, <4>2
    <3> QED
      BY <3>1, <3>2
  <2> QED
    BY <2>1 DEF LockInv
<1>15. \A v \in Workers : holding'[v] # j /\ holding'[v] # NoJob =>
                             holding'[v] = holding[v] /\ work'[v] = work[v]
  BY <1>2
<1> QED
  BY <1>9, <1>10, <1>12, <1>13, <1>14, <1>15, Frame

-----------------------------------------------------------------------------
(* The invariant holds                                                     *)

LEMMA Initially == Init => IInv
<1> SUFFICES ASSUME Init PROVE IInv
  OBVIOUS
<1>1. /\ dedup = <<>> /\ archive = <<>> /\ balance \in Balances /\ frozen = OtherFrozen
      /\ moves = [j \in Jobs |-> {}] /\ charged = [j \in Jobs |-> 0]
  BY DEF Init, HoldsInit, DedupInit
<1>2. HoldsType
  <2>1. DOMAIN dedup = {} /\ DOMAIN archive = {}
    BY <1>1
  <2>2. balance \in Nat /\ frozen \in Nat /\ charged \in [Jobs -> 0..Hold]
    BY <1>1, HoldAssumption
  <2>3. moves \in [Jobs -> SUBSET Operations]
    BY <1>1
  <2> QED
    BY <1>1, <2>1, <2>2, <2>3 DEF HoldsType, HoldsTypeOK
<1>3. RowType
  <2>1. retry \in [Jobs -> 0..MaxRetries]
    BY BatchAssumption DEF Init
  <2> QED
    BY <2>1 DEF Init, RowType
<1>4. ProviderType /\ RequestType
  BY DEF Init, ProviderType, RequestType, SubmitSteps, CancelSteps
<1>5. /\ pending = {} /\ \A w \in Workers : holding[w] = NoJob /\ work[w] = "idle"
      /\ WorkerType
  BY DEF Init, Queue!QueueInit, WorkerType, WorkSteps
<1>6. QueueType
  BY <1>5 DEF Init, QueueType
<1>7. FaultType
  BY BatchAssumption DEF Init, FaultType
<1>8. TypeInv
  BY <1>2, <1>3, <1>4, <1>5, <1>6, <1>7, TypeParts
<1>9. ASSUME NEW j \in Jobs PROVE JobInv(j)
  <2>1. /\ moves[j] = {} /\ \A r : ~Claimed(r)
        /\ status[j] = "none" /\ ~named[j] /\ provider[j] = "none"
        /\ submit[j] = "create" /\ cancel[j] = "idle" /\ sweep[j] = "idle"
    BY <1>1 DEF Init, Claimed
  <2>2. MoneyInv(j) /\ SubmitInv(j)
    BY <2>1 DEF MoneyInv, SubmitInv
  <2>3. RowInv(j) /\ RefundInv(j) /\ CareInv(j)
    BY <2>1 DEF RowInv, RefundInv, CareInv, Paid
  <2> QED
    BY <2>2, <2>3 DEF JobInv
<1>10. FrozenInv
  <2>1. Both = {} /\ Frozen = {}
    BY <1>1 DEF Both, Frozen, Outstanding
  <2>2. Cardinality({}) = 0
    BY FS_EmptySet
  <2>3. OtherFrozen + Hold * 0 = OtherFrozen + Hold * 0
    OBVIOUS
  <2> QED
    BY <1>1, <2>1, <2>2, <2>3 DEF FrozenInv
<1> QED
  BY <1>5, <1>8, <1>9, <1>10 DEF IInv, WorkInv, LockInv

LEMMA Inductive == IInv /\ [Next]_vars => IInv'
<1> SUFFICES ASSUME IInv, [Next]_vars PROVE IInv'
  OBVIOUS
<1>1. ASSUME NEW j \in Jobs, Submit(j) PROVE IInv'
  BY <1>1, StepCreate, StepReserve, StepItems, StepUpload, StepProvider, StepName, StepAbort,
     StepSubmitEnqueue, StepSubmitRelease, StepRecord DEF Submit
<1>2. ASSUME NEW j \in Jobs,
             TouchBatchImageJobSubmitting(j) \/ Resubmit(j) \/ CrashSubmit(j)
      PROVE  IInv'
  BY <1>2, StepTouch, StepResubmit, StepCrashSubmit
<1>3. ASSUME NEW j \in Jobs, CancelRead(j) \/ Cancel(j) \/ CrashCancel(j) PROVE IInv'
  BY <1>3, StepCancelRead, StepCancelProvider, StepCancelTransition, StepCancelRelease,
     StepCancelEnqueue, StepCrashCancel DEF Cancel
<1>4. ASSUME NEW j \in Jobs, Age(j) \/ Sweep(j) \/ CrashSweep(j) PROVE IInv'
  BY <1>4, StepAge, StepListStale, StepFailStale, StepSweepRelease, StepSweepEnqueue,
     StepCrashSweep DEF Sweep
<1>5. ASSUME NEW j \in Jobs, ProviderFinishes(j) \/ CleanupOutput(j) PROVE IInv'
  BY <1>5, StepProviderFinishes, StepCleanup
<1>6. ASSUME NEW w \in Workers, NEW j \in Jobs, Pipeline(w, j) PROVE IInv'
  BY <1>6, StepPipelineRead, StepProcessRead, StepGet, StepProcessTransition, StepIndex,
     StepReleaseTerminalHold, StepSettleRead, StepSettleCapture, StepMarkSettled,
     StepRecordFailure, StepExhaustedRelease, StepFailExhausted, StepAck, StepRequeue,
     StepWorkerError
  DEF Pipeline
<1>7. ASSUME NEW w \in Workers, NEW j \in Jobs,
             Reserved(w, j) \/ (holding[w] = j /\ CrashWorker(w, j))
      PROVE  IInv'
  BY <1>7, StepReserved, StepCrashWorker
<1>8. CASE UNCHANGED vars
  <2>1. /\ UNCHANGED holdVars /\ UNCHANGED rowVars /\ UNCHANGED provider /\ UNCHANGED callVars
        /\ UNCHANGED queueVars /\ UNCHANGED faultVars /\ UNCHANGED dropped
    BY <1>8 DEF vars
  <2>2. MoneySound' /\ RowType'
    BY <2>1, HasMoneySound, MoneySoundStays, Typed, RowStays
  <2>3. TypeInv'
    BY <2>1, <2>2, Typed, TypeAfter
    DEF MoneySound, ProviderType, RequestType, WorkerType, QueueType, FaultType, callVars,
        queueVars, faultVars
  <2>4. ASSUME NEW j \in Jobs PROVE Same(j)
    BY <2>1, MoneyStays
    DEF Same, SameRow, SameCalls, SameQueue, rowVars, callVars, queueVars
  <2>5. ASSUME NEW j \in Jobs PROVE JobInv(j)'
    <3>1. RestInv(j)'
      BY <2>4, SameRest DEF IInv, JobInv, RestInv
    <3> QED
      BY <2>2, <3>1 DEF JobInv, RestInv, MoneySound
  <2>6. ASSUME NEW w \in Workers PROVE WorkInv(w)'
    <3>1. ASSUME NEW j \in Jobs, holding[w] = j PROVE KnownInv(work[w], j)'
      <4>1. PICK step : step = work[w]
        OBVIOUS
      <4>2. KnownInv(step, j)
        BY <3>1, <4>1, Knows
      <4>3. KnownInv(step, j)'
        BY <2>4, <4>2, SameKept, Onlooker DEF Same, SameRow
      <4> QED
        BY <2>1, <4>1, <4>3 DEF callVars
    <3>2. holding'[w] = holding[w] /\ holding[w] \in Jobs \cup {NoJob}
      BY <2>1, Typed DEF queueVars, WorkerType
    <3>3. CASE holding[w] = NoJob
      BY <3>2, <3>3 DEF WorkInv
    <3>4. CASE holding[w] # NoJob
      <4>1. PICK j \in Jobs : holding[w] = j /\ holding'[w] = j
        BY <3>2, <3>4
      <4> QED
        BY <3>1, <4>1 DEF WorkInv
    <3> QED
      BY <3>3, <3>4
  <2>7. LockInv'
    BY <2>1 DEF IInv, LockInv, queueVars
  <2> QED
    BY <2>2, <2>3, <2>5, <2>6, <2>7 DEF IInv, MoneySound
<1> QED
  BY <1>1, <1>2, <1>3, <1>4, <1>5, <1>6, <1>7, <1>8 DEF Next

LEMMA Invariance == Spec => []IInv
BY Initially, Inductive, PTL DEF Spec

-----------------------------------------------------------------------------
(* What follows from it                                                    *)

\* Whatever fails, stops or is repeated, the variables keep their types: in
\* particular neither the balance nor the frozen balance becomes negative.
THEOREM TypeCorrect == Spec => []TypeOK
<1>1. IInv => TypeOK
  BY DEF IInv, TypeInv
<1> QED
  BY <1>1, Invariance, PTL

\* No batch's capture or release is paid from what is frozen for another one,
\* except for a job that was refunded after its capture.
THEOREM FrozenCovered == Spec => []FrozenCoversHolds
<1>1. IInv => FrozenCoversHolds
  <2> SUFFICES ASSUME IInv PROVE FrozenCoversHolds
    OBVIOUS
  <2> DEFINE x == Hold * Cardinality(Both)
             y == Hold * Cardinality(Frozen)
  <2>1. x \in Nat /\ y \in Nat /\ frozen \in Nat /\ OtherFrozen \in Nat
    BY Counted, Times, HoldAssumption, Typed DEF HoldsType, HoldsTypeOK
  <2>2. frozen + x = OtherFrozen + y
    BY DEF IInv, FrozenInv
  <2>3. frozen + x >= OtherFrozen + y
    <3> HIDE DEF x, y
    <3> QED
      BY <2>1, <2>2
  <2> QED
    BY <2>3 DEF FrozenCoversHolds, Both, Frozen
<1> QED
  BY <1>1, Invariance, PTL

\* A completed job has been charged, and what the items it has now cost: a worker
\* that lost its lock neither completes it for nothing nor rewrites its items.
THEOREM CompletedCharged == Spec => []CompletedIsCharged
<1>1. IInv => CompletedIsCharged
  BY DEF IInv, JobInv, RowInv, CompletedIsCharged, Paid
<1> QED
  BY <1>1, Invariance, PTL

\* The provider is not working on a job that is failed under the provider's name.
THEOREM FailedNotRunning == Spec => []FailedIsNotRunning
<1>1. IInv => FailedIsNotRunning
  BY DEF IInv, JobInv, RowInv, FailedIsNotRunning
<1> QED
  BY <1>1, Invariance, PTL

\* A frozen hold is forgotten only when it is out of sight: after every other
\* crash, failure or race a request, the sweep, the queue or a worker leads to it.
THEOREM HoldRemembered == Spec => []HoldIsRemembered
<1>1. IInv => HoldIsRemembered
  <2> SUFFICES ASSUME IInv, NEW j \in Jobs, Outstanding(j), NoOneActs(j)
               PROVE  OutOfSight(j)
    BY DEF HoldIsRemembered
  <2>1. moves[j] = {"hold"}
    BY DEF Outstanding
  <2>2. Cared(j)
    BY <2>1 DEF IInv, JobInv, CareInv
  <2>3. Settled(j) \/ dropped[j]
    BY <2>2 DEF Cared, NoOneActs
  <2> QED
    BY <2>1, <2>3 DEF Settled, OutOfSight, Phantom
<1> QED
  BY <1>1, Invariance, PTL

\* While its lock holds, a charged job is refunded only when its settlement is
\* given up after the last failure.
THEOREM RefundedWhenGivenUp == Spec => []RefundedAfterChargeIsGivenUp
<1>1. IInv => RefundedAfterChargeIsGivenUp
  BY DEF IInv, JobInv, RefundInv, RefundedAfterChargeIsGivenUp
<1> QED
  BY <1>1, Invariance, PTL

\* A step leaves a finished job finished, and a completed one completed.
StaysFinished(j) ==
    /\ status[j] \in Terminal => status'[j] \in Terminal
    /\ status[j] = "completed" => status'[j] \in Paid

LEMMA StatusKept == ASSUME UNCHANGED rowVars, NEW k \in Jobs PROVE StaysFinished(k)
BY DEF rowVars, StaysFinished, Paid

\* An update by the transition table, or of a row that is not finished
LEMMA StatusMoves ==
    ASSUME IInv, NEW j \in Jobs, NEW s \in Live \cup Terminal,
           status' = [status EXCEPT ![j] = s],
           \/ CanTransition(status[j], s)
           \/ status[j] \notin Terminal
           \/ s = "failed" /\ status[j] \notin Paid
    PROVE  \A k \in Jobs : StaysFinished(k)
<1>1. status'[j] = s /\ \A k \in Jobs \ {j} : status'[k] = status[k]
  BY Typed DEF RowType
<1>2. CASE status[j] \notin Terminal
  BY <1>1, <1>2 DEF StaysFinished, Paid, Terminal
<1>3. CASE s = "failed" /\ status[j] \notin Paid
  BY <1>1, <1>3 DEF StaysFinished, Paid, Terminal
<1>4. CASE CanTransition(status[j], s) /\ status[j] \in Terminal
  <2>1. s = "output_deleted"
    BY <1>4 DEF CanTransition, Live, Unsubmitted, Terminal
  <2> QED
    BY <1>1, <2>1 DEF StaysFinished, Paid, Terminal
<1> QED
  BY <1>2, <1>3, <1>4

LEMMA SubmitKeeps == ASSUME IInv, NEW j \in Jobs, Submit(j) PROVE \A k \in Jobs : StaysFinished(k)
<1>1. CASE CreateBatchImageJob(j)
  <2>1. status[j] = "none"
    BY <1>1 DEF CreateBatchImageJob, SubmitAt, IInv, JobInv, SubmitInv
  <2> QED
    BY <1>1, <2>1, StatusMoves DEF CreateBatchImageJob, SetStatus, Live, Unsubmitted, Terminal
<1>2. CASE SubmitUpload(j)
  <2>1. CASE Transition(j, "uploading")
    BY <2>1, StatusMoves DEF Transition, SetStatus, Live, Unsubmitted
  <2> QED
    BY <1>2, <2>1, StatusKept DEF SubmitUpload
<1>3. CASE UpdateBatchImageJobProviderSubmit(j)
  <2>1. CASE CanTransition(status[j], "submitted") /\ status' = [status EXCEPT ![j] = "submitted"]
    BY <2>1, StatusMoves DEF Live
  <2> QED
    BY <1>3, <2>1, StatusKept DEF UpdateBatchImageJobProviderSubmit
<1>4. CASE RecordSubmitFailure(j)
  <2>1. status[j] \notin Paid
    BY <1>4 DEF RecordSubmitFailure, SubmitAt, IInv, JobInv, SubmitInv, RowInv, Unnamed
  <2>2. CASE SetStatus(j, "failed")
    BY <2>1, <2>2, StatusMoves DEF SetStatus, Terminal
  <2> QED
    BY <1>4, <2>2, StatusKept DEF RecordSubmitFailure
<1>5. CASE SubmitReserve(j) \/ SubmitItems(j) \/ SubmitProvider(j) \/ AbortOrphanProviderJob(j)
           \/ SubmitEnqueue(j) \/ ReleaseFailedSubmitHold(j)
  <2>1. UNCHANGED rowVars
    BY <1>5 DEF SubmitReserve, SubmitItems, SubmitProvider, AbortOrphanProviderJob, SubmitEnqueue,
                ReleaseFailedSubmitHold
  <2> QED
    BY <2>1, StatusKept
<1> QED
  BY <1>1, <1>2, <1>3, <1>4, <1>5 DEF Submit

LEMMA RequestKeeps ==
    ASSUME IInv, NEW j \in Jobs,
           \/ TouchBatchImageJobSubmitting(j) \/ Resubmit(j) \/ CrashSubmit(j)
           \/ CancelRead(j) \/ Cancel(j) \/ CrashCancel(j)
           \/ Age(j) \/ Sweep(j) \/ CrashSweep(j)
           \/ ProviderFinishes(j) \/ CleanupOutput(j)
    PROVE  \A k \in Jobs : StaysFinished(k)
<1>1. CASE TouchBatchImageJobSubmitting(j) \/ Age(j)
  BY <1>1 DEF TouchBatchImageJobSubmitting, Age, StaysFinished, Paid
<1>2. CASE CancelTransition(j)
  <2>1. CASE Transition(j, "cancelled")
    BY <2>1, StatusMoves DEF Transition, SetStatus, Terminal
  <2> QED
    BY <1>2, <2>1, StatusKept DEF CancelTransition
<1>3. CASE FailStaleUnsubmitted(j)
  <2>1. CASE StaleUnsubmitted(j) /\ SetStatus(j, "failed")
    BY <2>1, StatusMoves DEF StaleUnsubmitted, SetStatus, Unsubmitted, Terminal
  <2> QED
    BY <1>3, <2>1, StatusKept DEF FailStaleUnsubmitted
<1>4. CASE CleanupOutput(j)
  BY <1>4, StatusMoves DEF CleanupOutput, SetStatus, CanTransition, Terminal
<1>5. CASE \/ Resubmit(j) \/ CrashSubmit(j)
           \/ CancelRead(j) \/ CancelProvider(j) \/ CancelRelease(j) \/ CancelEnqueue(j)
           \/ CrashCancel(j)
           \/ ListStale(j) \/ SweepRelease(j) \/ SweepEnqueue(j) \/ CrashSweep(j)
           \/ ProviderFinishes(j)
  <2>1. UNCHANGED rowVars
    BY <1>5 DEF Resubmit, CrashSubmit, CancelRead, CancelProvider, CancelRelease, CancelEnqueue,
                CrashCancel, ListStale, SweepRelease, SweepEnqueue, CrashSweep, ProviderFinishes
  <2> QED
    BY <2>1, StatusKept
<1> QED
  BY <1>1, <1>2, <1>3, <1>4, <1>5 DEF Cancel, Sweep

LEMMA WorkerKeeps ==
    ASSUME IInv, NEW w \in Workers, NEW j \in Jobs,
           Reserved(w, j) \/ Pipeline(w, j) \/ CrashWorker(w, j)
    PROVE  \A k \in Jobs : StaysFinished(k)
<1>1. CASE ProcessTransition(w, j)
  <2>1. CASE \E s \in {"running", "indexing", "failed", "cancelled", "settling"} : Transition(j, s)
    BY <2>1, StatusMoves DEF Transition, SetStatus, Live, Terminal
  <2> QED
    BY <1>1, <2>1, StatusKept DEF ProcessTransition
<1>2. CASE MarkBatchImageJobSettled(w, j)
  <2>1. CASE status[j] = "settling" /\ SetStatus(j, "completed")
    BY <2>1, StatusMoves DEF SetStatus, Terminal
  <2> QED
    BY <1>2, <2>1, StatusKept DEF MarkBatchImageJobSettled
<1>3. CASE FailExhaustedTransition(w, j)
  <2>1. CASE Transition(j, "failed")
    BY <2>1, StatusMoves DEF Transition, SetStatus, Terminal
  <2> QED
    BY <1>3, <2>1, StatusKept DEF FailExhaustedTransition
<1>4. CASE Index(w, j) \/ RecordSettlementFailure(w, j) \/ FailExhaustedRelease(w, j)
  <2>1. UNCHANGED status
    BY <1>4 DEF Index, RecordSettlementFailure, FailExhaustedRelease, CountFailure, rowVars
  <2> QED
    BY <2>1 DEF StaysFinished, Paid
<1>5. CASE \/ Reserved(w, j) \/ PipelineRead(w, j) \/ ProcessRead(w, j) \/ GetProviderStatus(w, j)
           \/ ReleaseTerminalHold(w, j) \/ SettleRead(w, j) \/ SettleCapture(w, j)
           \/ WorkerAck(w, j) \/ WorkerRequeue(w, j) \/ WorkerError(w, j) \/ CrashWorker(w, j)
  <2>1. UNCHANGED rowVars
    BY <1>5 DEF Reserved, PipelineRead, ProcessRead, GetProviderStatus, ReleaseTerminalHold,
                SettleRead, SettleCapture, WorkerAck, WorkerRequeue, WorkerError, CrashWorker,
                OnlyWork
  <2> QED
    BY <2>1, StatusKept
<1> QED
  BY <1>1, <1>2, <1>3, <1>4, <1>5 DEF Pipeline

\* No step brings a finished job back, and a completed one is never failed or
\* cancelled afterwards, although a failed submission writes its status blindly.
THEOREM StayFinished == Spec => FinishedStaysFinished
<1>1. IInv /\ [Next]_vars => \A j \in Jobs : StaysFinished(j)
  <2> SUFFICES ASSUME IInv, [Next]_vars PROVE \A j \in Jobs : StaysFinished(j)
    OBVIOUS
  <2>1. CASE UNCHANGED vars
    BY <2>1, StatusKept DEF vars
  <2>2. CASE Next
    BY <2>2, SubmitKeeps, RequestKeeps, WorkerKeeps DEF Next
  <2> QED
    BY <2>1, <2>2
<1>2. IInv /\ [Next]_vars =>
        [\A j \in Jobs :
            /\ status[j] \in Terminal => status'[j] \in Terminal
            /\ status[j] = "completed" => status'[j] \in {"completed", "output_deleted"}]_vars
  BY <1>1 DEF StaysFinished, Paid
<1> QED
  BY <1>2, Invariance, PTL DEF Spec, FinishedStaysFinished
=============================================================================
