---------------------------- MODULE UsageBilling ----------------------------
(***************************************************************************)
(* Usage billing: usageBillingRepository.Apply charges one usage event in  *)
(* one transaction, to the user's balance, the API key's quota and the     *)
(* account's quota. The transaction's outbox row belongs to                *)
(* SchedulerOutbox; SchedulerSnapshot puts the two together.               *)
(***************************************************************************)
EXTENDS UsageBillingDedup, Integers, FiniteSets

CONSTANTS
    Requests,       \* request ids of one API key
    Costs,          \* what a usage event may cost
    StartBalance,   \* the user's balance before
    KeyQuota,       \* api_keys.quota
    QuotaLimit,     \* the account's quota_limit
    NoTx            \* no transaction is open

ASSUME UsageAssumption ==
    /\ Costs \subseteq Nat \ {0}
    /\ {StartBalance, KeyQuota, QuotaLimit} \subseteq Nat \ {0}

VARIABLES
    balance,        \* users.balance
    keyUsed,        \* api_keys.quota_used
    keyStatus,      \* api_keys.status
    used,           \* accounts.extra quota_used
    tx              \* the open transaction: [request, cost, row] or NoTx

usageVars == <<dedupVars, balance, keyUsed, keyStatus, used, tx>>

UsageInit ==
    /\ DedupInit
    /\ balance = StartBalance
    /\ keyUsed = 0
    /\ keyStatus = "active"
    /\ used = 0
    /\ tx = NoTx

\* The account is over its quota: the scheduler must not choose it.
Over == used >= QuotaLimit

\* This increment takes the account from below its limit to it.
CrossesQuota(c) == used < QuotaLimit /\ used + c >= QuotaLimit

\* Claim and effects, not committed yet. A duplicate or conflicting request
\* ends here; the updated rows stay locked until the end of the transaction.
BeginApply(r, c, row) ==
    /\ tx = NoTx
    /\ ClaimResult(r, c) = "claimed"
    /\ tx' = [request |-> r, cost |-> c, row |-> row]
    /\ UNCHANGED <<dedupVars, balance, keyUsed, keyStatus, used>>

\* The key is exhausted by the increment that reaches its quota.
ExhaustsKey(c) == keyStatus = "active" /\ keyUsed < KeyQuota /\ keyUsed + c >= KeyQuota

CommitApply ==
    /\ tx # NoTx
    /\ Claim(tx.request, tx.cost)
    /\ balance' = balance - tx.cost
    /\ keyUsed' = keyUsed + tx.cost
    /\ keyStatus' = IF ExhaustsKey(tx.cost) THEN "quota_exhausted" ELSE keyStatus
    /\ used' = used + tx.cost
    /\ tx' = NoTx

RollbackApply ==
    /\ tx # NoTx
    /\ tx' = NoTx
    /\ UNCHANGED <<dedupVars, balance, keyUsed, keyStatus, used>>

-----------------------------------------------------------------------------
UsageTypeOK ==
    /\ DOMAIN dedup \cup DOMAIN archive \subseteq Requests
    /\ balance \in Int
    /\ keyUsed \in Nat
    /\ keyStatus \in {"active", "quota_exhausted"}
    /\ used \in Nat
    /\ tx = NoTx \/ tx \in [request : Requests, cost : Costs, row : Nat]

\* Every request that has been claimed, archived or not, with its fingerprint
Claims ==
    [r \in DOMAIN dedup \cup DOMAIN archive |->
        IF r \in DOMAIN dedup THEN dedup[r] ELSE archive[r]]

\* Every unit of money that a claimed request costs: the sum of the claims is how
\* many there are.
ChargedUnits == UNION {{r} \X (1..Claims[r]) : r \in DOMAIN Claims}

\* What the claimed requests cost
Charged == Cardinality(ChargedUnits)
=============================================================================
