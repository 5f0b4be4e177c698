---------------------------- MODULE BalanceHolds ----------------------------
(***************************************************************************)
(* Balance holds of batch image jobs, as one user's row keeps them:        *)
(* reserve, capture and release in usage_billing_repo.go, called through   *)
(* batch_image_billing_hold.go. Each is one transaction: the claim of its  *)
(* request id, the update of balance and frozen_balance, the commit.       *)
(***************************************************************************)
EXTENDS UsageBillingDedup

CONSTANTS
    Jobs,       \* batch ids of one user
    Hold,       \* what a job freezes: its hold_amount
    Balances,   \* the balances the user may start with
    OtherFrozen \* what is frozen for the user's other batches

ASSUME HoldAssumption ==
    /\ Hold \in Nat \ {0}
    /\ Balances \subseteq Nat
    /\ OtherFrozen \in Nat

VARIABLES
    balance,    \* users.balance
    frozen,     \* users.frozen_balance
    moves,      \* history: per job, the transactions that moved money
    charged     \* history: per job, what its capture kept

holdVars == <<dedupVars, balance, frozen, moves, charged>>

Operations == {"hold", "capture", "release"}

HoldsInit ==
    /\ DedupInit
    /\ balance \in Balances
    /\ frozen = OtherFrozen
    /\ moves = [j \in Jobs |-> {}]
    /\ charged = [j \in Jobs |-> 0]

\* The request ids: batch_image_hold:, batch_image_capture:, batch_image_release:.
HoldId(j) == <<"hold", j>>
CaptureId(j) == <<"capture", j>>
ReleaseId(j) == <<"release", j>>

\* A reserve succeeds when its transaction commits or had committed before.
CanReserve(j) ==
    \/ ClaimResult(HoldId(j), 0) = "duplicate"
    \/ ClaimResult(HoldId(j), 0) = "claimed" /\ balance >= Hold

Reserve(j) ==
    /\ CanReserve(j)
    /\ IF Claimed(HoldId(j))
       THEN UNCHANGED holdVars
       ELSE /\ Claim(HoldId(j), 0)
            /\ balance' = balance - Hold
            /\ frozen' = frozen + Hold
            /\ moves' = [moves EXCEPT ![j] = @ \cup {"hold"}]
            /\ UNCHANGED charged

\* The capture's fingerprint holds the actual cost; the frozen balance it asks
\* for is the user's, not the job's.
CanCapture(j, cost) ==
    \/ ClaimResult(CaptureId(j), cost) = "duplicate"
    \/ /\ ClaimResult(CaptureId(j), cost) = "claimed"
       /\ cost <= Hold
       /\ frozen >= Hold

Capture(j, cost) ==
    /\ CanCapture(j, cost)
    /\ IF Claimed(CaptureId(j))
       THEN UNCHANGED holdVars
       ELSE /\ Claim(CaptureId(j), cost)
            /\ balance' = balance + Hold - cost
            /\ frozen' = frozen - Hold
            /\ moves' = [moves EXCEPT ![j] = @ \cup {"capture"}]
            /\ charged' = [charged EXCEPT ![j] = cost]

\* Mutant: the release does not ask whether the hold was ever made.
AlwaysReserved(j) == FALSE

\* A release of a job that never reserved commits its claim and moves nothing.
NeverReserved(j) == ~Claimed(HoldId(j))

CanRelease(j) ==
    \/ Claimed(ReleaseId(j))
    \/ NeverReserved(j)
    \/ frozen >= Hold

Release(j) ==
    /\ CanRelease(j)
    /\ IF Claimed(ReleaseId(j))
       THEN UNCHANGED holdVars
       ELSE /\ Claim(ReleaseId(j), 0)
            /\ IF NeverReserved(j)
               THEN UNCHANGED <<balance, frozen, moves, charged>>
               ELSE /\ balance' = balance + Hold
                    /\ frozen' = frozen - Hold
                    /\ moves' = [moves EXCEPT ![j] = @ \cup {"release"}]
                    /\ UNCHANGED charged

-----------------------------------------------------------------------------
\* The job's money is frozen and neither kept nor given back.
Outstanding(j) == moves[j] = {"hold"}

\* The release was claimed before the hold, so no later release moves money.
Phantom(j) == Claimed(ReleaseId(j)) /\ "release" \notin moves[j]

HoldsTypeOK ==
    /\ DOMAIN dedup \cup DOMAIN archive \subseteq Operations \X Jobs
    /\ balance \in Nat
    /\ frozen \in Nat
    /\ moves \in [Jobs -> SUBSET Operations]
    /\ charged \in [Jobs -> 0..Hold]
=============================================================================
