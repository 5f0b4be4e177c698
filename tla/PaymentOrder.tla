---------------------------- MODULE PaymentOrder ----------------------------
(***************************************************************************)
(* The life of one payment order and its fulfilment                        *)
(* (backend/internal/service/payment_order.go, payment_order_lifecycle.go, *)
(* payment_fulfillment.go, redeem_service.go).                             *)
(*                                                                         *)
(* Every statement the service sends to the database names one order id,   *)
(* so one order row is enough.  What runs concurrently on it are calls:    *)
(* webhook deliveries, cancellations, the periodic expiry and              *)
(* reconciliation sweep, user verification and administrator retries, in   *)
(* any number of server instances.  A call is a worker; each database      *)
(* statement, transaction or provider request of the call is one action,   *)
(* so another call may run between any two of them.                        *)
(*                                                                         *)
(* Time is kept as the age of the row (now - updated_at) and the time left *)
(* until expires_at, both saturating, so that runs need no final instant.  *)
(* updated_at is written by every update of the row (its ent schema has an *)
(* UpdateDefault); it is microsecond-precise and compared for equality, so *)
(* its identity is a version that no outstanding lease already holds.      *)
(***************************************************************************)
EXTENDS Naturals

CONSTANTS
    Workers,        \* concurrently running calls
    Versions,       \* identities of updated_at values
    OrderTypes,     \* the order types this instance considers
    Ops,            \* the kinds of call that occur
    LeaseDuration,  \* paymentFulfillmentLeaseDuration
    GracePeriod,    \* paymentGraceMinutes
    OrderTimeout,   \* time from creation to expires_at
    MaxCrashes,     \* bound: process crashes in a behaviour
    MaxErrors       \* bound: failing database or provider requests

AllOps == {"webhook", "cancel", "expire", "reconcile", "verify", "retry"}

ASSUME ConstantsAssumption ==
    /\ Versions \subseteq Nat \ {0}
    /\ OrderTypes \subseteq {"balance", "subscription"}
    /\ Ops \subseteq AllOps
    /\ LeaseDuration \in Nat \ {0}
    /\ GracePeriod \in Nat \ {0}
    /\ OrderTimeout \in Nat
    /\ MaxCrashes \in Nat
    /\ MaxErrors \in Nat

VARIABLES
    status, version, age,   \* row: status, and updated_at as identity and age
    paidAt,                 \* row: paid_at is not null
    tradeNo,                \* row: payment_trade_no is the provider's own number
    orderType,              \* row: order_type
    expiresIn,              \* time left until expires_at
    creation,               \* where the CreateOrder call stands
    payment,                \* the payment as the provider sees it
    code,                   \* the order's redeem code (balance orders)
    grants,                 \* times the balance or subscription was granted
    rebates,                \* times an affiliate rebate was accrued
    audit,                  \* payment_audit_logs of the order: unique actions
    pc, op, known, lease,   \* per call: next statement, kind, local values
    owner,                  \* history: the running call that took the last lease
    acked,                  \* some webhook delivery was answered with success
    crashes, errors         \* what is left of the fault budgets

rowVars    == <<status, version, age, paidAt, tradeNo>>
outsideVars == <<orderType, expiresIn, creation, payment>>
grantVars  == <<code, grants, rebates, audit>>
callVars   == <<pc, op, known, lease, owner, acked>>
faultVars  == <<crashes, errors>>
vars == <<rowVars, outsideVars, grantVars, callVars, faultVars>>

Statuses == {"PENDING", "PAID", "RECHARGING", "COMPLETED", "EXPIRED",
             "CANCELLED", "FAILED", "REFUND_REQUESTED"}
AuditActions == {"SUBSCRIPTION_ASSIGNED", "SUBSCRIPTION_SUCCESS",
                 "RECHARGE_SUCCESS", "AFFILIATE_REBATE_APPLIED",
                 "AFFILIATE_REBATE_SKIPPED", "PAYMENT_AFTER_EXPIRY"}
Received == {"matching", "mismatched"}    \* the provider holds the money

NoLease == 0
MaxAge == 1 + (IF LeaseDuration > GracePeriod THEN LeaseDuration ELSE GracePeriod)

\* Statements of a call after which it only reports to its caller.
CallSteps == {"query", "cancelUpstream", "cancelRow", "persist", "confirm",
              "toPaid", "already", "execute", "acquire", "missed", "reload"}
\* Statements of a call that holds a fulfilment lease.
LeaseSteps == {"lookup", "createCode", "redeem", "assign", "rebate",
               "complete", "completeMissed", "recordSuccess", "markFailed"}

RowTypeOK ==
    /\ status \in Statuses
    /\ version \in Versions \cup {NoLease}
    /\ age \in 0..MaxAge
    /\ paidAt \in BOOLEAN
    /\ tradeNo \in BOOLEAN

OutsideTypeOK ==
    /\ orderType \in OrderTypes
    /\ expiresIn \in 0..OrderTimeout
    /\ creation \in {"calling", "saving", "rejecting", "ready", "failed"}
    /\ payment \in {"none", "open", "closed"} \cup Received

GrantTypeOK ==
    /\ code \in {"none", "unused", "used"}
    /\ grants \in Nat
    /\ rebates \in Nat
    /\ audit \in SUBSET AuditActions

Steps == {"idle"} \cup CallSteps \cup LeaseSteps

CallTypeOK ==
    /\ pc \in [Workers -> Steps]
    /\ op \in [Workers -> Ops \cup {"none"}]
    /\ known \in [Workers -> BOOLEAN]
    /\ lease \in [Workers -> Versions \cup {NoLease}]
    /\ owner \in Workers \cup {NoLease}
    /\ acked \in BOOLEAN

FaultTypeOK == crashes \in 0..MaxCrashes /\ errors \in 0..MaxErrors

\* The order's row, what is outside of it, the grants and the calls have the
\* values the code can give them.
TypeOK == RowTypeOK /\ OutsideTypeOK /\ GrantTypeOK /\ CallTypeOK /\ FaultTypeOK

-----------------------------------------------------------------------------
(* createOrderInTx has committed the PENDING row; the provider has not yet *)
(* been asked for a payment.                                               *)
Init ==
    /\ status = "PENDING" /\ version = NoLease /\ age = 0
    /\ paidAt = FALSE /\ tradeNo = FALSE
    /\ orderType \in OrderTypes
    /\ expiresIn = OrderTimeout
    /\ creation = "calling" /\ payment = "none"
    /\ code = "none" /\ grants = 0 /\ rebates = 0 /\ audit = {}
    /\ pc = [w \in Workers |-> "idle"]
    /\ op = [w \in Workers |-> "none"]
    /\ known = [w \in Workers |-> FALSE]
    /\ lease = [w \in Workers |-> NoLease]
    /\ acked = FALSE
    /\ owner = NoLease
    /\ crashes = MaxCrashes /\ errors = MaxErrors

\* The least version no call holds: updated_at := now, at a later microsecond.
Fresh(v) ==
    /\ \A w \in Workers : lease[w] # v
    /\ \A u \in Versions : u < v => \E w \in Workers : lease[w] = u

\* Every update of the row sets updated_at.
Touch == age' = 0 /\ \E v \in Versions : Fresh(v) /\ version' = v

SetStatus(s) == status' = s /\ Touch /\ UNCHANGED <<paidAt, tradeNo>>

Goto(w, step) ==
    /\ pc' = [pc EXCEPT ![w] = step]
    /\ UNCHANGED <<op, known, lease, owner, acked>>

\* The call ends; a webhook delivery that ends without error is answered 2xx
\* and the provider stops redelivering (handleNotify).
Return(w, ok) ==
    /\ pc' = [pc EXCEPT ![w] = "idle"]
    /\ op' = [op EXCEPT ![w] = "none"]
    /\ known' = [known EXCEPT ![w] = FALSE]
    /\ lease' = [lease EXCEPT ![w] = NoLease]
    /\ owner' = IF owner = w THEN NoLease ELSE owner
    /\ acked' = (acked \/ (ok /\ op[w] = "webhook"))

Fail == errors > 0 /\ errors' = errors - 1 /\ UNCHANGED crashes

-----------------------------------------------------------------------------
(* The world outside: the CreateOrder call, the payer, the clock.          *)

\* invokeProvider: the provider registers the payment or refuses it.
CreatePayment ==
    /\ creation = "calling"
    /\ \/ creation' = "saving" /\ payment' = "open"
       \/ creation' = "rejecting" /\ UNCHANGED payment
    /\ UNCHANGED <<rowVars, orderType, expiresIn, grantVars, callVars, faultVars>>

\* invokeProvider stores the payment details, whatever the status has become;
\* only then does the payer get a link to pay with.
SavePaymentDetails ==
    /\ creation = "saving"
    /\ \/ creation' = "ready" /\ Touch /\ UNCHANGED <<status, paidAt, tradeNo, faultVars>>
       \/ creation' = "rejecting" /\ Fail /\ UNCHANGED rowVars
    /\ UNCHANGED <<orderType, expiresIn, payment, grantVars, callVars>>

\* CreateOrder marks the order FAILED without looking at its status; an error
\* of that update is ignored.
CreateOrderFails ==
    /\ creation = "rejecting"
    /\ creation' = "failed"
    /\ \/ SetStatus("FAILED") /\ UNCHANGED faultVars
       \/ Fail /\ UNCHANGED rowVars
    /\ UNCHANGED <<orderType, expiresIn, payment, grantVars, callVars>>

\* The process running CreateOrder dies.
CreatorCrash ==
    /\ creation \in {"calling", "saving", "rejecting"}
    /\ crashes > 0 /\ crashes' = crashes - 1
    /\ creation' = "failed"
    /\ UNCHANGED <<rowVars, orderType, expiresIn, payment, grantVars, callVars, errors>>

\* The payer pays.  A payment is mismatched when its amount, provider or
\* metadata are not the order's.
PayerPays ==
    /\ creation = "ready" /\ payment = "open"
    /\ payment' \in Received
    /\ UNCHANGED <<rowVars, orderType, expiresIn, creation, grantVars, callVars, faultVars>>

Tick ==
    /\ age' = IF age < MaxAge THEN age + 1 ELSE age
    /\ expiresIn' = IF expiresIn > 0 THEN expiresIn - 1 ELSE 0
    /\ UNCHANGED <<status, version, paidAt, tradeNo, orderType, creation, payment,
                   grantVars, callVars, faultVars>>

\* RequestRefund: the user asks for a refund of a completed balance order.
RequestRefund ==
    /\ status = "COMPLETED" /\ orderType = "balance"
    /\ SetStatus("REFUND_REQUESTED")
    /\ UNCHANGED <<outsideVars, grantVars, callVars, faultVars>>

-----------------------------------------------------------------------------
(* Calls begin.  What a call reads of the row before its first provider    *)
(* request is read here.                                                   *)
Begin(w, kind, step) ==
    /\ pc[w] = "idle" /\ kind \in Ops
    /\ pc' = [pc EXCEPT ![w] = step]
    /\ op' = [op EXCEPT ![w] = kind]
    /\ known' = [known EXCEPT ![w] = (step = "query" /\ tradeNo)]
    /\ UNCHANGED <<rowVars, outsideVars, grantVars, lease, owner, acked, faultVars>>

\* A notification is delivered: late, repeatedly, or redelivered after success.
BeginWebhook(w) == payment \in Received /\ Begin(w, "webhook", "confirm")

\* CancelOrder and AdminCancelOrder.
BeginCancel(w) == status = "PENDING" /\ Begin(w, "cancel", "query")

\* ExpireTimedOutOrders picks the order.
BeginExpire(w) == status = "PENDING" /\ expiresIn = 0 /\ Begin(w, "expire", "query")

\* ReconcilePendingPaymentOrders picks the order.
BeginReconcile(w) == status = "PENDING" /\ expiresIn > 0 /\ Begin(w, "reconcile", "query")

\* VerifyOrderByOutTradeNo.
BeginVerify(w) == status \in {"PENDING", "EXPIRED"} /\ Begin(w, "verify", "query")

\* RetryFulfillment.
BeginRetry(w) ==
    /\ paidAt /\ status \in {"FAILED", "PAID", "RECHARGING"}
    /\ Begin(w, "retry", "execute")

-----------------------------------------------------------------------------
(* checkPaidWithOptions and cancelCore.                                    *)
Cancelling(w) == op[w] \in {"cancel", "expire"}

\* checkPaid learnt nothing: cancelCore goes on, a reconciliation ends.
NotPaid(w) ==
    IF Cancelling(w) THEN Goto(w, "cancelRow") ELSE Return(w, TRUE)

\* QueryOrder.  A paid answer whose amount is invalid twice counts as no answer.
QueryUpstream(w) ==
    /\ pc[w] = "query"
    /\ \/ payment \in Received /\ Goto(w, IF known[w] THEN "confirm" ELSE "persist")
       \/ payment = "mismatched" /\ NotPaid(w)
       \/ /\ payment \notin Received
          /\ IF Cancelling(w) THEN Goto(w, "cancelUpstream") ELSE Return(w, TRUE)
    /\ UNCHANGED <<rowVars, outsideVars, grantVars, faultVars>>

\* CancelPayment, where the provider has it; its error is ignored.
CancelUpstream(w) ==
    /\ pc[w] = "cancelUpstream"
    /\ payment' \in {payment} \cup (IF payment = "open" THEN {"closed"} ELSE {})
    /\ Goto(w, "cancelRow")
    /\ UNCHANGED <<rowVars, orderType, expiresIn, creation, grantVars, faultVars>>

\* Mutant: the update is not guarded by the status.
CancelRowUnguarded(w) ==
    /\ pc[w] = "cancelRow"
    /\ SetStatus(IF op[w] = "expire" THEN "EXPIRED" ELSE "CANCELLED")
    /\ Return(w, TRUE)
    /\ UNCHANGED <<outsideVars, grantVars, faultVars>>

\* cancelCore's update, guarded by status = PENDING.
CancelRow(w) ==
    /\ pc[w] = "cancelRow"
    /\ IF status = "PENDING"
       THEN SetStatus(IF op[w] = "expire" THEN "EXPIRED" ELSE "CANCELLED")
       ELSE UNCHANGED rowVars
    /\ Return(w, TRUE)
    /\ UNCHANGED <<outsideVars, grantVars, faultVars>>

\* checkPaidWithOptions stores the provider's trade number, whatever the status.
PersistTradeNo(w) ==
    /\ pc[w] = "persist"
    /\ tradeNo' = TRUE /\ Touch /\ UNCHANGED <<status, paidAt>>
    /\ Goto(w, "confirm")
    /\ UNCHANGED <<outsideVars, grantVars, faultVars>>

-----------------------------------------------------------------------------
(* HandlePaymentNotification, confirmPayment, toPaid, alreadyProcessed.    *)

\* Mutant: amount, provider and metadata are not compared.
ConfirmAnyPayment(w) ==
    /\ pc[w] = "confirm"
    /\ Goto(w, "toPaid")
    /\ UNCHANGED <<rowVars, outsideVars, grantVars, faultVars>>

\* confirmPayment turns away a payment that is not the order's.
ConfirmPayment(w) ==
    /\ pc[w] = "confirm"
    /\ IF payment = "matching" THEN Goto(w, "toPaid") ELSE Return(w, FALSE)
    /\ UNCHANGED <<rowVars, outsideVars, grantVars, faultVars>>

\* The rows toPaid's update accepts.
AcceptsPayment ==
    \/ status \in {"PENDING", "CANCELLED"}
    \/ status = "EXPIRED" /\ age <= GracePeriod

ToPaid(w) ==
    /\ pc[w] = "toPaid"
    /\ IF AcceptsPayment
       THEN /\ status' = "PAID" /\ paidAt' = TRUE /\ tradeNo' = TRUE /\ Touch
            /\ Goto(w, "execute")
       ELSE UNCHANGED rowVars /\ Goto(w, "already")
    /\ UNCHANGED <<outsideVars, grantVars, faultVars>>

AlreadyProcessed(w) ==
    /\ pc[w] = "already"
    /\ IF status \in {"FAILED", "PAID", "RECHARGING"}
       THEN Goto(w, "execute")
       ELSE Return(w, TRUE)
    /\ audit' = IF status = "EXPIRED" THEN audit \cup {"PAYMENT_AFTER_EXPIRY"} ELSE audit
    /\ UNCHANGED <<rowVars, outsideVars, code, grants, rebates, faultVars>>

-----------------------------------------------------------------------------
(* ExecuteBalanceFulfillment / ExecuteSubscriptionFulfillment.             *)

\* The status checks before the lease is taken.
ExecuteFulfillment(w) ==
    /\ pc[w] = "execute"
    /\ IF status \in {"PAID", "FAILED", "RECHARGING"}
       THEN Goto(w, "acquire")
       ELSE Return(w, status = "COMPLETED")
    /\ UNCHANGED <<rowVars, outsideVars, grantVars, faultVars>>

\* Mutant: a stale lease is never taken over.
LeaseNeverStale == status \in {"PAID", "FAILED"}

\* The rows acquirePaymentFulfillmentLease's update accepts.
LeaseAvailable ==
    \/ status \in {"PAID", "FAILED"}
    \/ status = "RECHARGING" /\ age >= LeaseDuration

AcquireLease(w) ==
    /\ pc[w] = "acquire"
    /\ IF LeaseAvailable
       THEN /\ SetStatus("RECHARGING") /\ owner' = w
            /\ pc' = [pc EXCEPT ![w] = "reload"]
            /\ UNCHANGED <<op, known, lease, acked>>
       ELSE UNCHANGED rowVars /\ Goto(w, "missed")
    /\ UNCHANGED <<outsideVars, grantVars, faultVars>>

\* Mutant: a delivery that finds the order being processed reports success.
AcquireMissedSilently(w) ==
    /\ pc[w] = "missed"
    /\ Return(w, TRUE)
    /\ UNCHANGED <<rowVars, outsideVars, grantVars, faultVars>>

\* The lease was not free: no error only if the order is completed by now.
AcquireMissed(w) ==
    /\ pc[w] = "missed"
    /\ Return(w, status = "COMPLETED")
    /\ UNCHANGED <<rowVars, outsideVars, grantVars, faultVars>>

\* The lease version is read back from the row in a statement of its own.
ReloadLease(w) ==
    /\ pc[w] = "reload"
    /\ IF status = "RECHARGING"
       THEN /\ lease' = [lease EXCEPT ![w] = version]
            /\ pc' = [pc EXCEPT ![w] = "lookup"]
            /\ UNCHANGED <<op, known, owner, acked>>
       ELSE Return(w, FALSE)
    /\ UNCHANGED <<rowVars, outsideVars, grantVars, faultVars>>

\* Mutant: an existing code is taken for a redeemed one.
LookupIgnoresUnused(w) ==
    /\ pc[w] = "lookup"
    /\ Goto(w, IF orderType = "subscription" THEN "assign"
               ELSE [none |-> "createCode", unused |-> "rebate", used |-> "rebate"][code])
    /\ UNCHANGED <<rowVars, outsideVars, grantVars, faultVars>>

\* doBalance: resolveRedeemAction on the order's code; doSub: the group check.
LookupGrant(w) ==
    /\ pc[w] = "lookup"
    /\ Goto(w, IF orderType = "subscription" THEN "assign"
               ELSE [none |-> "createCode", unused |-> "redeem", used |-> "rebate"][code])
    /\ UNCHANGED <<rowVars, outsideVars, grantVars, faultVars>>

\* CreateCode: the code column is unique.
CreateCode(w) ==
    /\ pc[w] = "createCode"
    /\ IF code = "none" THEN code' = "unused" /\ Goto(w, "redeem")
                        ELSE UNCHANGED code /\ Goto(w, "markFailed")
    /\ UNCHANGED <<rowVars, outsideVars, grants, rebates, audit, faultVars>>

\* Mutant: Use is not guarded by status = unused.
RedeemCodeUnguarded(w) ==
    /\ pc[w] = "redeem"
    /\ code' = "used" /\ grants' = grants + 1
    /\ Goto(w, "rebate")
    /\ UNCHANGED <<rowVars, outsideVars, rebates, audit, faultVars>>

\* The transaction of redeemForPaymentFulfillment: Use is guarded by
\* status = unused and commits together with the balance.
RedeemCode(w) ==
    /\ pc[w] = "redeem"
    /\ IF code = "unused" THEN code' = "used" /\ grants' = grants + 1
                          ELSE UNCHANGED <<code, grants>>
    /\ \/ code = "unused" /\ Goto(w, "rebate") /\ UNCHANGED faultVars
       \/ code # "unused" /\ Goto(w, "markFailed") /\ UNCHANGED faultVars
       \/ Goto(w, "markFailed") /\ Fail     \* an error after the commit
    /\ UNCHANGED <<rowVars, outsideVars, rebates, audit>>

\* Another call holds the Redis lock of the code.
RedeemLocked(w) ==
    /\ pc[w] = "redeem" /\ \E other \in Workers \ {w} : pc[other] = "redeem"
    /\ Goto(w, "markFailed")
    /\ UNCHANGED <<rowVars, outsideVars, grantVars, faultVars>>

Assigned == {"SUBSCRIPTION_ASSIGNED", "SUBSCRIPTION_SUCCESS"} \cap audit # {}

\* Mutant: an earlier assignment is not looked for.
AssignSubscriptionAgain(w) ==
    /\ pc[w] = "assign"
    /\ grants' = grants + 1 /\ audit' = audit \cup {"SUBSCRIPTION_ASSIGNED"}
    /\ Goto(w, "rebate")
    /\ UNCHANGED <<rowVars, outsideVars, code, rebates, faultVars>>

\* The transaction of ensurePaymentSubscriptionAssigned; of two that run at
\* once the unique audit row rolls the second back.
AssignSubscription(w) ==
    /\ pc[w] = "assign"
    /\ IF Assigned THEN UNCHANGED <<grants, audit>>
                   ELSE grants' = grants + 1 /\ audit' = audit \cup {"SUBSCRIPTION_ASSIGNED"}
    /\ \/ Goto(w, "rebate") /\ UNCHANGED faultVars
       \/ Goto(w, "markFailed") /\ Fail     \* the caches could not be invalidated
    /\ UNCHANGED <<rowVars, outsideVars, code, rebates>>

RebateClaimed == {"AFFILIATE_REBATE_APPLIED", "AFFILIATE_REBATE_SKIPPED"} \cap audit # {}

\* The transaction of applyAffiliateRebateForOrder: the claim (INSERT ... WHERE
\* NOT EXISTS ... ON CONFLICT DO NOTHING) commits together with the accrual.
\* Whether there is an inviter to pay is not the order's to know.
ApplyRebate(w) ==
    /\ pc[w] = "rebate"
    /\ \/ RebateClaimed /\ UNCHANGED <<rebates, audit>>
       \/ /\ ~RebateClaimed
          /\ \/ rebates' = rebates + 1 /\ audit' = audit \cup {"AFFILIATE_REBATE_APPLIED"}
             \/ UNCHANGED rebates /\ audit' = audit \cup {"AFFILIATE_REBATE_SKIPPED"}
    /\ \/ Goto(w, "complete") /\ UNCHANGED faultVars
       \/ Goto(w, "markFailed") /\ Fail     \* the commit's outcome was not learnt
    /\ UNCHANGED <<rowVars, outsideVars, code, grants>>

HoldsLease(w) == status = "RECHARGING" /\ version = lease[w]

MarkCompleted(w) ==
    /\ pc[w] = "complete"
    /\ IF HoldsLease(w)
       THEN SetStatus("COMPLETED") /\ Goto(w, "recordSuccess")
       ELSE UNCHANGED rowVars /\ Goto(w, "completeMissed")
    /\ UNCHANGED <<outsideVars, grantVars, faultVars>>

\* markCompleted updated no row: fine if somebody else completed the order.
CompleteMissed(w) ==
    /\ pc[w] = "completeMissed"
    /\ IF status = "COMPLETED" THEN Return(w, TRUE) ELSE Goto(w, "markFailed")
    /\ UNCHANGED <<rowVars, outsideVars, grantVars, faultVars>>

RecordSuccess(w) ==
    /\ pc[w] = "recordSuccess"
    /\ audit' = audit \cup {IF orderType = "balance" THEN "RECHARGE_SUCCESS"
                             ELSE "SUBSCRIPTION_SUCCESS"}
    /\ Return(w, TRUE)
    /\ UNCHANGED <<rowVars, outsideVars, code, grants, rebates, faultVars>>

MarkFailed(w) ==
    /\ pc[w] = "markFailed"
    /\ IF HoldsLease(w) THEN SetStatus("FAILED") ELSE UNCHANGED rowVars
    /\ Return(w, FALSE)
    /\ UNCHANGED <<outsideVars, grantVars, faultVars>>

-----------------------------------------------------------------------------
(* Faults.                                                                 *)

\* A request of the call fails with no effect.  confirmPayment and
\* alreadyProcessed swallow the error of their Get; a failing step of the
\* lease holder leads to markFailed; the error of an audit insert is logged.
RequestFails(w) ==
    /\ Fail
    /\ \/ pc[w] = "query" /\ NotPaid(w)
       \/ pc[w] = "persist" /\ Goto(w, "confirm")
       \/ pc[w] \in {"confirm", "already", "recordSuccess"} /\ Return(w, TRUE)
       \/ pc[w] \in {"confirm", "toPaid", "execute", "acquire", "missed", "reload",
                     "cancelRow", "markFailed"} /\ Return(w, FALSE)
       \/ pc[w] \in {"lookup", "createCode", "redeem", "assign", "rebate",
                     "complete", "completeMissed"} /\ Goto(w, "markFailed")
    /\ UNCHANGED <<rowVars, outsideVars, grantVars>>

\* The process running the call dies.
Crash(w) ==
    /\ pc[w] # "idle"
    /\ crashes > 0 /\ crashes' = crashes - 1
    /\ Return(w, FALSE)
    /\ UNCHANGED <<rowVars, outsideVars, grantVars, errors>>

-----------------------------------------------------------------------------
BeginCall(w) ==
    \/ BeginWebhook(w) \/ BeginCancel(w) \/ BeginExpire(w)
    \/ BeginReconcile(w) \/ BeginVerify(w) \/ BeginRetry(w)

CallStep(w) ==
    \/ QueryUpstream(w) \/ CancelUpstream(w) \/ CancelRow(w) \/ PersistTradeNo(w)
    \/ ConfirmPayment(w) \/ ToPaid(w) \/ AlreadyProcessed(w)
    \/ ExecuteFulfillment(w) \/ AcquireLease(w) \/ AcquireMissed(w) \/ ReloadLease(w)
    \/ LookupGrant(w) \/ CreateCode(w) \/ RedeemCode(w) \/ RedeemLocked(w)
    \/ AssignSubscription(w) \/ ApplyRebate(w)
    \/ MarkCompleted(w) \/ CompleteMissed(w) \/ RecordSuccess(w) \/ MarkFailed(w)

World ==
    \/ CreatePayment \/ SavePaymentDetails \/ CreateOrderFails \/ CreatorCrash
    \/ PayerPays \/ Tick \/ RequestRefund

Next ==
    \/ World
    \/ \E w \in Workers : BeginCall(w) \/ CallStep(w) \/ RequestFails(w) \/ Crash(w)

Spec == Init /\ [][Next]_vars

\* A lease runs out while the call that took it is still at work.
Overrun == age < LeaseDuration /\ age' = LeaseDuration /\ status = "RECHARGING" /\ owner # NoLease

\* Calls run on, time passes, the sweep recurs, the provider redelivers until
\* a delivery is acknowledged, somebody who contends for the redeem lock gets
\* it, and at length the five minutes of a lease are enough for its holder.
Fairness ==
    /\ \A w \in Workers : WF_vars(CallStep(w))
    /\ WF_vars(Tick)
    /\ SF_vars(\E w \in Workers : ~acked /\ BeginWebhook(w))
    /\ SF_vars(\E w \in Workers : BeginExpire(w) \/ BeginReconcile(w))
    /\ SF_vars(\E w \in Workers : RedeemCode(w))
    /\ <>[][~Overrun]_vars

FairSpec == Spec /\ Fairness

-----------------------------------------------------------------------------
(* Properties.                                                             *)

Completed == status \in {"COMPLETED", "REFUND_REQUESTED"}

\* However many deliveries, sweeps, retries and crashed or overtaken lease
\* holders work on the order, the balance or subscription is granted at most
\* once (redeem code, SUBSCRIPTION_ASSIGNED) and the rebate accrued at most once.
GrantedAtMostOnce == grants <= 1 /\ rebates <= 1

\* Nothing is granted unless the provider holds a payment that matches the
\* order, and then paid_at is on record (RetryFulfillment depends on it).
GrantedOnlyIfPaid == grants > 0 => payment = "matching" /\ paidAt

\* COMPLETED (and a refund request, which needs it) says the grant happened
\* and the rebate was settled, whichever call wrote it.
CompletedMeansServed == Completed => grants = 1 /\ RebateClaimed

\* A FAILED order whose payer did pay can be retried by an administrator:
\* CreateOrder's unguarded FAILED never lands on a paid order.
FailedPaidOrderCanRetry == status = "FAILED" /\ payment = "matching" => paidAt

\* A cancellation or expiry that was decided before the payment was confirmed
\* never takes a paid order back, and a late lease holder never reopens a
\* completed one.
PaidNeverUndone ==
    [][/\ paidAt => paidAt' /\ status' \notin {"PENDING", "CANCELLED", "EXPIRED"}
       /\ Completed => Completed']_<<status, paidAt>>

\* The provider is told to stop redelivering only once the order is completed,
\* or its payment came too late and was recorded for manual handling.
\* (Holds when no database request fails: see RequestFails.)
AckedOnlyWhenSettled == acked => Completed \/ "PAYMENT_AFTER_EXPIRY" \in audit

\* An order with a matching payment is eventually completed, or its payment is
\* recorded as too late: a lease whose holder died or lost its version is taken
\* over when it is stale, because the provider redelivers.
PaidIsCompleted ==
    payment = "matching" ~> (Completed \/ "PAYMENT_AFTER_EXPIRY" \in audit)

Promise == INSTANCE OrderPromise WITH
    paid <- payment = "matching", granted <- grants,
    rebated <- RebateClaimed, completed <- Completed

\* The order keeps its promise: see OrderPromise.
KeepsPromise == Promise!Spec

-----------------------------------------------------------------------------
(* The inductive invariant behind these properties (PaymentOrderProofs).   *)

Fulfilling == {"execute", "acquire", "missed", "reload"} \cup LeaseSteps

\* What the row knows of the payment: only a payer who was given a link pays,
\* paid_at and the paid statuses go together, and a FAILED order that is not
\* paid is one whose creation failed.
RowInv ==
    /\ payment \in Received => creation = "ready"
    /\ paidAt => payment = "matching"
    /\ paidAt => status \in {"PAID", "RECHARGING", "FAILED", "COMPLETED", "REFUND_REQUESTED"}
    /\ status \in {"PAID", "RECHARGING", "COMPLETED", "REFUND_REQUESTED"} => paidAt
    /\ status = "FAILED" /\ ~paidAt => creation = "failed"

\* What a call has established by the time it reaches a statement.
CallInv ==
    \A w \in Workers :
        /\ pc[w] \in {"persist", "confirm"} => payment \in Received
        /\ pc[w] \in {"toPaid", "already"} => payment = "matching"
        /\ pc[w] \in Fulfilling => paidAt

\* The redeem code or the audit log says exactly how often was granted, and
\* the claim exactly whether the rebate was accrued.
GrantInv ==
    /\ orderType = "balance" => ~Assigned /\ grants = (IF code = "used" THEN 1 ELSE 0)
    /\ orderType = "subscription" => code = "none" /\ grants = (IF Assigned THEN 1 ELSE 0)
    /\ grants = 1 => paidAt
    /\ rebates = (IF "AFFILIATE_REBATE_APPLIED" \in audit THEN 1 ELSE 0)
    /\ RebateClaimed => grants = 1
    /\ Completed => RebateClaimed

\* What a lease holder has granted by the time it reaches a statement.
HolderInv ==
    \A w \in Workers :
        /\ pc[w] \in {"createCode", "redeem"} => orderType = "balance"
        /\ pc[w] = "assign" => orderType = "subscription"
        /\ pc[w] = "rebate" => grants = 1
        /\ pc[w] \in {"complete", "completeMissed", "recordSuccess"} => RebateClaimed
=============================================================================
