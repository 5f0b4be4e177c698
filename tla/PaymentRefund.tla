--------------------------- MODULE PaymentRefund ---------------------------
(***************************************************************************)
(* Refunding one completed balance order                                   *)
(* (backend/internal/service/payment_refund.go).                           *)
(*                                                                         *)
(* A call is a user's refund request, an administrator's refund            *)
(* (PrepareRefund, then ExecuteRefund) or an administrator's query of a    *)
(* pending refund.  Each database statement, transaction and provider      *)
(* request of a call is one action.  Several calls run at once, usage      *)
(* billing spends the balance between them, and the gateway settles its    *)
(* pending refunds when it pleases.                                        *)
(*                                                                         *)
(* Money is counted in units: the order credited Amount of them, the payer *)
(* paid as much, so the gateway amount of a refund is its balance amount.  *)
(* A failing statement has no effect; a failing gateway request may have   *)
(* had one.                                                                *)
(***************************************************************************)
EXTENDS Integers, Sequences, SequencesExt

CONSTANTS
    Workers,        \* concurrently running calls
    Ops,            \* the kinds of call that occur
    Amount,         \* the order's amount
    Amounts,        \* the refund amounts administrators ask for
    Providers,      \* the provider kinds this instance considers
    StartBalances,  \* the balances the user may have once the order is completed
    Charges,        \* what usage billing may charge at once
    MaxSpends,      \* bound: charges in a behaviour
    MaxRefunds,     \* bound: refunds the gateway opens for the order
    MaxAttempts,    \* bound: refunds administrators start
    MaxCrashes,     \* bound: process crashes in a behaviour
    MaxErrors       \* bound: failing database statements in a behaviour

\* "keyed": the refund's identity at the gateway is made of the order and the
\* amount, and it can be queried (Stripe, WeChat Pay, Airwallex).
\* "unkeyed": every request opens a refund of its own and there is no query
\* (Alipay, EasyPay).  "unpaid": the order has no trade number, nothing to refund.
ProviderKinds == {"keyed", "unkeyed", "unpaid"}

ASSUME ConstantsAssumption ==
    /\ Ops \subseteq {"request", "refund", "query"}
    /\ Amount \in Nat \ {0}
    /\ Amounts \subseteq 1..Amount
    /\ Providers \subseteq ProviderKinds
    /\ StartBalances \subseteq Int
    /\ Charges \subseteq Nat
    /\ MaxSpends \in Nat
    /\ MaxRefunds \in Nat
    /\ MaxAttempts \in Nat
    /\ MaxCrashes \in Nat
    /\ MaxErrors \in Nat

VARIABLES
    status,             \* row: status
    refundAmount,       \* row: refund_amount
    balance, recharged, \* users row: balance and total_recharged
    taken,              \* history: deducted for refunds and not given back
    forgotten,          \* history: how often what is held went out of sight
    disturbed,          \* history: a query failed a refund under way or done
    rollbackFailed,     \* audit log: REFUND_ROLLBACK_FAILED is there
    pendingAudit,       \* audit log: the detail of REFUND_PENDING
    successAudit,       \* audit log: REFUND_SUCCESS is there
    provider,           \* the kind of provider the order was paid through
    refunds,            \* the refunds the gateway opened, oldest first
    pc, plan,           \* per call: next statement, RefundPlan and local values
    spends, attempts,   \* what is left of MaxSpends and MaxAttempts
    crashes, errors     \* what is left of the fault budgets

rowVars   == <<status, refundAmount>>
history   == <<forgotten, disturbed>>
userVars  == <<balance, recharged, taken, history>>
auditVars == <<rollbackFailed, pendingAudit, successAudit>>
gatewayVars == <<provider, refunds>>
callVars  == <<pc, plan>>
budgetVars == <<spends, attempts, crashes, errors>>
vars == <<rowVars, userVars, auditVars, gatewayVars, callVars, budgetVars>>

Refundable == {"COMPLETED", "REFUND_REQUESTED", "REFUND_PENDING", "REFUND_FAILED"}
Settled    == {"REFUNDED", "PARTIALLY_REFUNDED"}
Statuses   == Refundable \cup Settled \cup {"REFUNDING"}

\* Statements of a call that has not claimed the order.
CallSteps == {"request", "prepDeduct", "execute"}
\* Statements of a QueryAndFinalizeRefund.
QuerySteps == {"detail", "ask", "finalize", "finalizeFailed"}
\* Statements of an ExecuteRefund that has claimed the order.
RefundSteps == {"check", "deduct", "gateway", "rollback", "recordFailure",
                "restore", "markFailed", "markOk", "markPending"}
\* The audit writes of markRefundPending and markRefundOk come after the row
\* has left REFUNDING.
Steps == {"idle", "auditPending", "auditOk"} \cup CallSteps \cup QuerySteps \cup RefundSteps

Refunds == [amt : 0..Amount, state : {"pending", "success", "failed"}]
NoRefund == 0
NoPlan == [from |-> "COMPLETED", amt |-> 0, deduct |-> 0, force |-> FALSE,
           resp |-> "none", id |-> NoRefund, rollbackOK |-> TRUE]

Plans == [from : Statuses, amt : 0..Amount, deduct : 0..Amount,
          force : BOOLEAN, resp : {"none", "success", "pending", "failed"},
          id : Nat, rollbackOK : BOOLEAN]

RowTypeOK ==
    /\ status \in Statuses
    /\ refundAmount \in 0..Amount

UserTypeOK ==
    /\ balance \in Int
    /\ recharged \in Nat
    /\ taken \in Int
    /\ forgotten \in Nat
    /\ disturbed \in BOOLEAN

AuditTypeOK ==
    /\ rollbackFailed \in BOOLEAN
    /\ successAudit \in BOOLEAN
    /\ pendingAudit \in [written : BOOLEAN, id : Nat, rollbackOK : BOOLEAN]

GatewayTypeOK ==
    /\ provider \in Providers
    /\ refunds \in Seq(Refunds)

CallTypeOK ==
    /\ pc \in [Workers -> Steps]
    /\ plan \in [Workers -> Plans]

BudgetTypeOK ==
    /\ spends \in 0..MaxSpends
    /\ attempts \in 0..MaxAttempts
    /\ crashes \in 0..MaxCrashes
    /\ errors \in 0..MaxErrors

\* Every variable keeps its type: an amount to deduct or to give back is never
\* negative nor more than the order's amount (prepDeduct, DeductAvailableBalance).
TypeOK ==
    /\ RowTypeOK /\ UserTypeOK /\ AuditTypeOK
    /\ GatewayTypeOK /\ CallTypeOK /\ BudgetTypeOK

-----------------------------------------------------------------------------
(* The order is completed.  The user may have spent some of what it        *)
(* credited, or have more than that.                                       *)
Init ==
    /\ status = "COMPLETED" /\ refundAmount = 0
    /\ balance \in StartBalances /\ recharged = Amount /\ taken = 0
    /\ forgotten = 0 /\ disturbed = FALSE
    /\ rollbackFailed = FALSE /\ successAudit = FALSE
    /\ pendingAudit = [written |-> FALSE, id |-> NoRefund, rollbackOK |-> TRUE]
    /\ provider \in Providers
    /\ refunds = <<>>
    /\ pc = [w \in Workers |-> "idle"]
    /\ plan = [w \in Workers |-> NoPlan]
    /\ spends = MaxSpends /\ attempts = MaxAttempts
    /\ crashes = MaxCrashes /\ errors = MaxErrors

Goto(w, step) == pc' = [pc EXCEPT ![w] = step]
SetPlan(w, p) == plan' = [plan EXCEPT ![w] = p]
Return(w) == Goto(w, "idle") /\ SetPlan(w, NoPlan)
Min2(a, b) == IF a < b THEN a ELSE b
Max2(a, b) == IF a > b THEN a ELSE b

\* Usage billing charges the user.
Spend ==
    /\ spends > 0 /\ spends' = spends - 1
    /\ \E charge \in Charges : balance' = balance - charge
    /\ UNCHANGED <<rowVars, recharged, taken, history, auditVars, gatewayVars,
                   callVars, attempts, crashes, errors>>

-----------------------------------------------------------------------------
(* RequestRefund: the order and the balance are read, then the row is      *)
(* updated if it is still COMPLETED.                                       *)
BeginRequest(w) ==
    /\ "request" \in Ops
    /\ pc[w] = "idle"
    /\ status = "COMPLETED"
    /\ balance >= Amount
    /\ Goto(w, "request")
    /\ UNCHANGED <<rowVars, userVars, auditVars, gatewayVars, plan, budgetVars>>

RequestRefund(w) ==
    /\ pc[w] = "request"
    /\ IF status = "COMPLETED"
       THEN status' = "REFUND_REQUESTED" /\ refundAmount' = Amount
       ELSE UNCHANGED rowVars
    /\ Return(w)
    /\ UNCHANGED <<userVars, auditVars, gatewayVars, budgetVars>>

-----------------------------------------------------------------------------
(* PrepareRefund reads the order and decides the amount; prepDeduct reads  *)
(* the balance.                                                            *)
PrepareRefund(w) ==
    /\ "refund" \in Ops
    /\ pc[w] = "idle"
    /\ status \in Refundable
    /\ \E amt \in Amounts, force \in BOOLEAN, deduct \in BOOLEAN :
        /\ SetPlan(w, [NoPlan EXCEPT !.from = status, !.amt = amt,
                                     !.force = force /\ deduct])
        /\ Goto(w, IF deduct THEN "prepDeduct" ELSE "execute")
    /\ attempts > 0 /\ attempts' = attempts - 1
    /\ UNCHANGED <<rowVars, userVars, auditVars, gatewayVars, spends, crashes,
                   errors>>

PrepDeduct(w) ==
    /\ pc[w] = "prepDeduct"
    /\ IF balance < plan[w].amt /\ ~plan[w].force
       THEN Return(w)
       ELSE /\ SetPlan(w, [plan[w] EXCEPT !.force = FALSE,
                            !.deduct = Max2(0, Min2(plan[w].amt, balance))])
            /\ Goto(w, "execute")
    /\ UNCHANGED <<rowVars, userVars, auditVars, gatewayVars, budgetVars>>

-----------------------------------------------------------------------------
(* ExecuteRefund: claim the row, take the balance back, ask the gateway.   *)
\* Mutant: the claim does not look at the status.
ClaimUnguarded(w) ==
    /\ pc[w] = "execute"
    /\ status' = "REFUNDING"
    /\ Goto(w, IF plan[w].deduct > 0 THEN "check" ELSE "gateway")
    /\ UNCHANGED <<plan, refundAmount, userVars, auditVars, gatewayVars, budgetVars>>

ClaimRefund(w) ==
    /\ pc[w] = "execute"
    /\ IF status \in Refundable
       THEN /\ status' = "REFUNDING"
            /\ Goto(w, IF plan[w].deduct > 0 THEN "check" ELSE "gateway")
            /\ UNCHANGED plan
       ELSE Return(w) /\ UNCHANGED status
    /\ UNCHANGED <<refundAmount, userVars, auditVars, gatewayVars, budgetVars>>

\* Mutant: a retry deducts again whatever the audit log says.
CheckForgotten(w) ==
    /\ pc[w] = "check"
    /\ Goto(w, "deduct")
    /\ UNCHANGED <<plan, rowVars, userVars, auditVars, gatewayVars, budgetVars>>

CheckRollbackFailed(w) ==
    /\ pc[w] = "check"
    /\ IF rollbackFailed
       THEN Goto(w, "gateway") /\ SetPlan(w, [plan[w] EXCEPT !.deduct = 0])
       ELSE Goto(w, "deduct") /\ UNCHANGED plan
    /\ UNCHANGED <<rowVars, userVars, auditVars, gatewayVars, budgetVars>>

\* What an earlier refund holds of the balance goes out of sight.
Forget(how) == forgotten' = IF how THEN forgotten + 1 ELSE forgotten

\* DeductAvailableBalance: one statement takes at most what is there.
Available(amt) == Min2(amt, Max2(balance, 0))

\* Mutant: the deduction of usage billing, which may overdraw.
TakeWhole(amt) ==
    /\ balance' = balance - amt
    /\ taken' = taken + amt
    /\ UNCHANGED recharged

TakeBalance(amt) ==
    /\ balance' = balance - Available(amt)
    /\ taken' = taken + Available(amt)
    /\ UNCHANGED recharged

Deduct(w) ==
    /\ pc[w] = "deduct"
    /\ TakeBalance(plan[w].deduct)
    /\ SetPlan(w, [plan[w] EXCEPT !.deduct = Available(plan[w].deduct)])
    /\ Goto(w, "gateway")
    /\ UNCHANGED <<rowVars, history, auditVars, gatewayVars, budgetVars>>

\* Where finishRefund goes with the gateway's answer, and handleGwFail.
AfterAnswer(resp) == IF resp = "success" THEN "markOk" ELSE "rollback"

Answer(w, resp, id) ==
    /\ SetPlan(w, [plan[w] EXCEPT !.resp = resp, !.id = id])
    /\ Goto(w, AfterAnswer(resp))

\* The gateway keeps the refunded total within what was paid.
Refunded ==
    FoldSeq(LAMBDA r, sum : IF r.state = "failed" THEN sum ELSE sum + r.amt, 0, refunds)

\* A keyed provider recognises a request it has seen before.
Repeats(amt) ==
    IF provider = "keyed" THEN {i \in DOMAIN refunds : refunds[i].amt = amt} ELSE {}

\* The request fails, or its answer is lost: handleGwFail either way.
GwRefundFails(w) ==
    /\ pc[w] = "gateway"
    /\ provider # "unpaid"
    /\ Answer(w, "failed", NoRefund)
    /\ UNCHANGED <<rowVars, userVars, auditVars, gatewayVars, budgetVars>>

GwRefundOpens(w) ==
    /\ pc[w] = "gateway"
    /\ provider # "unpaid"
    /\ Repeats(plan[w].amt) = {}
    /\ Len(refunds) < MaxRefunds
    /\ Refunded + plan[w].amt <= Amount
    /\ \E state \in {"pending", "success"} :
        /\ refunds' = Append(refunds, [amt |-> plan[w].amt, state |-> state])
        /\ \E resp \in {state, "failed"} : Answer(w, resp, Len(refunds) + 1)
    /\ UNCHANGED <<rowVars, userVars, auditVars, provider, budgetVars>>

\* The provider answers with the refund it has: as it is, or, replaying its
\* first answer, as it was.  WeChat Pay and Stripe call everything pending that
\* has not succeeded; Airwallex's error for a failed refund is GwRefundFails.
GwRefundRepeats(w) ==
    /\ pc[w] = "gateway"
    /\ \E i \in Repeats(plan[w].amt), resp \in {"pending", "success"} :
        /\ resp = "success" => refunds[i].state = "success"
        /\ Answer(w, resp, i)
    /\ UNCHANGED <<rowVars, userVars, auditVars, gatewayVars, budgetVars>>

\* No trade number: there is nothing to send.
GwRefundSkipped(w) ==
    /\ pc[w] = "gateway"
    /\ provider = "unpaid"
    /\ Answer(w, "success", NoRefund)
    /\ UNCHANGED <<rowVars, userVars, auditVars, gatewayVars, budgetVars>>

\* The gateway settles a refund it had accepted.
RefundSettles ==
    /\ \E i \in DOMAIN refunds, state \in {"success", "failed"} :
        /\ refunds[i].state = "pending"
        /\ refunds' = [refunds EXCEPT ![i].state = state]
    /\ UNCHANGED <<rowVars, userVars, auditVars, provider, callVars, budgetVars>>

-----------------------------------------------------------------------------
(* RollbackRefund gives the balance back, before the row leaves REFUNDING. *)
\* What follows the rollback in markRefundPending or handleGwFail.
AfterRollback(w, ok) ==
    IF plan[w].resp = "pending" THEN "markPending"
    ELSE IF ok THEN "restore" ELSE "markFailed"

\* UpdateBalance counts every addition as a recharge.
GiveBack(amt) ==
    /\ balance' = balance + amt
    /\ recharged' = recharged + amt
    /\ taken' = taken - amt

RollbackRefund(w) ==
    /\ pc[w] = "rollback"
    /\ GiveBack(plan[w].deduct)
    /\ SetPlan(w, [plan[w] EXCEPT !.deduct = 0])
    /\ Goto(w, AfterRollback(w, TRUE))
    /\ UNCHANGED <<rowVars, history, auditVars, gatewayVars, budgetVars>>

RecordRollbackFailure(w) ==
    /\ pc[w] = "recordFailure"
    /\ rollbackFailed' = TRUE
    /\ Goto(w, AfterRollback(w, FALSE))
    /\ UNCHANGED <<rowVars, userVars, pendingAudit, successAudit, gatewayVars,
                   plan, budgetVars>>

RestoreStatus(w) ==
    /\ pc[w] = "restore"
    /\ status' = IF plan[w].from = "REFUND_REQUESTED" THEN "REFUND_REQUESTED"
                 ELSE "COMPLETED"
    /\ Return(w)
    /\ UNCHANGED <<refundAmount, userVars, auditVars, gatewayVars, budgetVars>>

MarkRefundFailed(w) ==
    /\ pc[w] = "markFailed"
    /\ status' = "REFUND_FAILED"
    /\ Return(w)
    /\ UNCHANGED <<refundAmount, userVars, auditVars, gatewayVars, budgetVars>>

-----------------------------------------------------------------------------
SettledStatus(amt) == IF amt < Amount THEN "PARTIALLY_REFUNDED" ELSE "REFUNDED"

\* markRefundOk writes the row unconditionally.
MarkRefundOk(w) ==
    /\ pc[w] = "markOk"
    /\ status' = SettledStatus(plan[w].amt)
    /\ refundAmount' = plan[w].amt
    /\ Goto(w, "auditOk")
    /\ UNCHANGED <<userVars, auditVars, gatewayVars, plan, budgetVars>>

AuditRefundOk(w) ==
    /\ pc[w] = "auditOk"
    /\ successAudit' = TRUE
    /\ Return(w)
    /\ UNCHANGED <<rowVars, userVars, rollbackFailed, pendingAudit, gatewayVars,
                   budgetVars>>

MarkRefundPending(w) ==
    /\ pc[w] = "markPending"
    /\ status' = "REFUND_PENDING"
    /\ refundAmount' = plan[w].amt
    /\ Goto(w, "auditPending")
    /\ UNCHANGED <<userVars, auditVars, gatewayVars, plan, budgetVars>>

\* (order_id, action) is unique: a second REFUND_PENDING entry is rejected.
KeepFirst(p) ==
    IF pendingAudit.written THEN pendingAudit
    ELSE [written |-> TRUE, id |-> p.id, rollbackOK |-> p.rollbackOK]

AuditRefundPending(w) ==
    /\ pc[w] = "auditPending"
    /\ pendingAudit' = KeepFirst(plan[w])
    /\ Return(w)
    /\ UNCHANGED <<rowVars, userVars, rollbackFailed, successAudit, gatewayVars,
                   budgetVars>>

-----------------------------------------------------------------------------
(* QueryAndFinalizeRefund: read the order, read the pending refund's       *)
(* detail, ask the gateway, then finalize in one transaction or fail.      *)
BeginQuery(w) ==
    /\ "query" \in Ops
    /\ pc[w] = "idle"
    /\ status = "REFUND_PENDING"
    /\ provider = "keyed"
    /\ SetPlan(w, [NoPlan EXCEPT !.from = status, !.amt = refundAmount])
    /\ Goto(w, "detail")
    /\ UNCHANGED <<rowVars, userVars, auditVars, gatewayVars, budgetVars>>

\* refundFinalizePlan: the whole amount is due unless a deduction is still held.
FinalDeduction(rollbackOK, amt) == IF rollbackOK THEN amt ELSE 0

LatestRefundPendingDetail(w) ==
    /\ pc[w] = "detail"
    /\ SetPlan(w, [plan[w] EXCEPT !.id = pendingAudit.id,
                      !.deduct = FinalDeduction(pendingAudit.rollbackOK, plan[w].amt)])
    /\ Goto(w, "ask")
    /\ UNCHANGED <<rowVars, userVars, auditVars, gatewayVars, budgetVars>>

\* The refund a query is about: by its id, else by the amount, else the latest.
Queried(w) ==
    {i \in DOMAIN refunds :
        IF plan[w].id # NoRefund THEN i = plan[w].id
        ELSE refunds[i].amt = plan[w].amt \/ i = Len(refunds)}

\* Mutant: a refund still pending at the gateway is finalized.
PendingIsDone(state) == IF state = "failed" THEN "finalizeFailed" ELSE "finalize"

AfterQuery(state) ==
    CASE state = "success" -> "finalize"
      [] state = "failed"  -> "finalizeFailed"
      [] state = "pending" -> "idle"

QueryRefund(w) ==
    /\ pc[w] = "ask"
    /\ \E i \in Queried(w) :
        LET step == AfterQuery(refunds[i].state)
        IN IF step = "idle" THEN Return(w) ELSE Goto(w, step) /\ UNCHANGED plan
    /\ UNCHANGED <<rowVars, userVars, auditVars, gatewayVars, budgetVars>>

\* The gateway does not answer the query.
QueryRefundFails(w) ==
    /\ pc[w] = "ask"
    /\ Return(w)
    /\ UNCHANGED <<rowVars, userVars, auditVars, gatewayVars, budgetVars>>

\* The finalization deducts without a look at REFUND_ROLLBACK_FAILED.
Overlooked(w) == rollbackFailed /\ plan[w].deduct > 0

\* Mutant: the finalizing transaction does not check that the order is pending.
FinalizeUnguarded(w) ==
    /\ pc[w] = "finalize"
    /\ TakeBalance(plan[w].deduct)
    /\ Forget(Overlooked(w))
    /\ status' = SettledStatus(plan[w].amt)
    /\ refundAmount' = plan[w].amt
    /\ successAudit' = TRUE
    /\ Return(w)
    /\ UNCHANGED <<disturbed, rollbackFailed, pendingAudit, gatewayVars, budgetVars>>

FinalizePendingRefundSuccess(w) ==
    /\ pc[w] = "finalize"
    /\ IF status = "REFUND_PENDING" /\ ~successAudit
       THEN /\ TakeBalance(plan[w].deduct)
            /\ Forget(Overlooked(w))
            /\ status' = SettledStatus(plan[w].amt)
            /\ refundAmount' = plan[w].amt
            /\ successAudit' = TRUE
       ELSE UNCHANGED <<rowVars, balance, recharged, taken, forgotten, successAudit>>
    /\ Return(w)
    /\ UNCHANGED <<disturbed, rollbackFailed, pendingAudit, gatewayVars, budgetVars>>

\* finalizeRefundFailed writes the row unconditionally.
FinalizeRefundFailed(w) ==
    /\ pc[w] = "finalizeFailed"
    /\ status' = "REFUND_FAILED"
    /\ disturbed' = (disturbed \/ status \in Settled \cup {"REFUNDING"})
    /\ Return(w)
    /\ UNCHANGED <<refundAmount, balance, recharged, taken, forgotten, auditVars, gatewayVars, budgetVars>>

-----------------------------------------------------------------------------
(* A database statement fails, without effect.  What the call does next    *)
(* depends on the statement.                                               *)
AfterError(w) ==
    CASE pc[w] = "prepDeduct" /\ plan[w].force -> "execute"
      [] pc[w] = "check"         -> "deduct"
      [] pc[w] = "deduct"        -> "restore"
      [] pc[w] = "rollback" /\ plan[w].deduct > 0 -> "recordFailure"
      [] pc[w] = "recordFailure" -> AfterRollback(w, FALSE)
      [] pc[w] = "detail"        -> "ask"
      [] OTHER                   -> "idle"

\* The entry of a failed rollback is not written, or not read.
EntryLost(w) ==
    \/ pc[w] = "recordFailure" /\ ~rollbackFailed
    \/ pc[w] = "check" /\ rollbackFailed

StatementFails(w) ==
    /\ errors > 0
    /\ errors' = errors - 1
    /\ pc[w] \notin {"idle", "gateway", "ask"}
    /\ pc[w] = "rollback" => plan[w].deduct > 0
    /\ Goto(w, AfterError(w))
    /\ SetPlan(w, CASE pc[w] = "rollback"     -> [plan[w] EXCEPT !.rollbackOK = FALSE]
                    [] pc[w] = "detail"       -> [plan[w] EXCEPT !.deduct = plan[w].amt]
                    [] AfterError(w) = "idle" -> NoPlan
                    [] OTHER                  -> plan[w])
    /\ Forget(EntryLost(w))
    /\ UNCHANGED <<rowVars, balance, recharged, taken, disturbed, auditVars, gatewayVars,
                   spends, attempts, crashes>>

Crash(w) ==
    /\ crashes > 0
    /\ crashes' = crashes - 1
    /\ pc[w] # "idle"
    /\ Return(w)
    /\ UNCHANGED <<rowVars, userVars, auditVars, gatewayVars, spends, attempts,
                   errors>>

CallStep(w) ==
    \/ RequestRefund(w)
    \/ PrepDeduct(w)
    \/ ClaimRefund(w)
    \/ CheckRollbackFailed(w)
    \/ Deduct(w)
    \/ GwRefundFails(w)
    \/ GwRefundOpens(w)
    \/ GwRefundRepeats(w)
    \/ GwRefundSkipped(w)
    \/ RollbackRefund(w)
    \/ RecordRollbackFailure(w)
    \/ RestoreStatus(w)
    \/ MarkRefundFailed(w)
    \/ MarkRefundOk(w)
    \/ AuditRefundOk(w)
    \/ MarkRefundPending(w)
    \/ AuditRefundPending(w)
    \/ LatestRefundPendingDetail(w)
    \/ QueryRefund(w)
    \/ QueryRefundFails(w)
    \/ FinalizePendingRefundSuccess(w)
    \/ FinalizeRefundFailed(w)

Next ==
    \/ Spend
    \/ RefundSettles
    \/ \E w \in Workers :
        \/ BeginRequest(w)
        \/ PrepareRefund(w)
        \/ BeginQuery(w)
        \/ CallStep(w)
        \/ StatementFails(w)
        \/ Crash(w)

Spec == Init /\ [][Next]_vars

-----------------------------------------------------------------------------
(* Properties *)

\* A call between its claim of the order and the row write that ends its
\* refund has the order to itself: the row stays REFUNDING under it, so no
\* other call deducts the balance or sends a second refund meanwhile
\* (the conditional update at the top of ExecuteRefund).
ExclusiveRefund ==
    \A w \in Workers : pc[w] \in RefundSteps =>
        /\ status = "REFUNDING"
        /\ \A u \in Workers : pc[u] \in RefundSteps => u = w

\* What refunds may hold of the balance that the next one does not know of.
OutOfSight == Amount * forgotten

\* The refunds of an order never hold more of the user's balance than the
\* order had credited, unless the code loses sight of what is held, and then
\* once more for each time it does: retries after a failed rollback skip the
\* deduction (REFUND_ROLLBACK_FAILED in ExecuteRefund).  Sight is lost when that
\* entry fails too or cannot be read, and when a query finalizes, which does not
\* look at it.  Excepted are orders failed by a late query while another refund
\* was under way or done.
DeductedAtMostOnce == disturbed \/ taken <= OutOfSight + Amount

PaidBack(amt) ==
    \E i \in DOMAIN refunds : refunds[i].amt = amt /\ refunds[i].state = "success"

\* An order shown as refunded has been refunded: the gateway paid back the
\* amount the row states (markRefundOk and finalizePendingRefundSuccess).
RefundedMeansPaidBack ==
    (status \in Settled /\ provider # "unpaid") => PaidBack(refundAmount)

\* A refunded order stays refunded and keeps its amount: no late write of
\* another call reopens it for a second refund (the unconditional writes of
\* restoreStatus, handleGwFail, finalizeRefundFailed and markRefundPending).
RefundedIsFinal ==
    [][(status \in Settled) => UNCHANGED rowVars]_vars

\* Taking a refund back from the balance never makes a deficit, nor deepens
\* one, whatever usage billing charges between the read of prepDeduct and the
\* deduction (DeductAvailableBalance).
RefundNeverOverdraws ==
    [][taken' > taken => balance' >= 0]_vars

-----------------------------------------------------------------------------
(* What the proofs add to ExclusiveRefund and RefundedMeansPaidBack to     *)
(* make them inductive when no query runs.                                 *)

NoQueryRunning == \A w \in Workers : pc[w] \notin QuerySteps

\* A call about to report success has the gateway's success in hand.
SuccessMeansPaidBack ==
    \A w \in Workers :
        (pc[w] = "markOk" /\ provider # "unpaid") => PaidBack(plan[w].amt)

RefundInv ==
    /\ NoQueryRunning
    /\ ExclusiveRefund
    /\ SuccessMeansPaidBack
    /\ RefundedMeansPaidBack

\* What the audit log tells the next refund of.
Known == IF rollbackFailed THEN Amount ELSE 0

\* What a refund in progress has taken, it gives back or is known of: without
\* it no more is held than is out of sight.
HeldBy(w) ==
    /\ pc[w] \in {"check", "restore", "markFailed", "markPending"} =>
        taken <= OutOfSight + Known
    /\ pc[w] = "deduct" => taken <= OutOfSight
    /\ pc[w] \in {"gateway", "rollback"} =>
        \/ taken - plan[w].deduct <= OutOfSight
        \/ rollbackFailed /\ plan[w].deduct = 0

HeldInv ==
    disturbed \/
        /\ ExclusiveRefund
        /\ taken <= OutOfSight + Amount
        /\ status \in Refundable => taken <= OutOfSight + Known
        /\ \A w \in Workers : HeldBy(w)
=============================================================================
