------------------------- MODULE PaymentOrderProofs -------------------------
(***************************************************************************)
(* Proofs about PaymentOrder for any number of concurrent calls, any lease *)
(* duration and grace period, and any number of faults.                    *)
(***************************************************************************)
EXTENDS PaymentOrder, TLAPS

-----------------------------------------------------------------------------
(* What the building blocks of the actions do to the types.                *)

LEMMA MaxAgeNat == MaxAge \in Nat
BY ConstantsAssumption DEF MaxAge

LEMMA UnchangedType ==
    /\ RowTypeOK /\ UNCHANGED rowVars => RowTypeOK'
    /\ OutsideTypeOK /\ UNCHANGED outsideVars => OutsideTypeOK'
    /\ GrantTypeOK /\ UNCHANGED grantVars => GrantTypeOK'
    /\ CallTypeOK /\ UNCHANGED callVars => CallTypeOK'
    /\ FaultTypeOK /\ UNCHANGED faultVars => FaultTypeOK'
BY DEF RowTypeOK, rowVars, OutsideTypeOK, outsideVars, GrantTypeOK, grantVars,
       CallTypeOK, callVars, FaultTypeOK, faultVars

LEMMA TouchType == Touch => age' \in 0..MaxAge /\ version' \in Versions \cup {NoLease}
BY MaxAgeNat DEF Touch

LEMMA SetStatusType ==
    ASSUME NEW s \in Statuses, RowTypeOK, SetStatus(s)
    PROVE  RowTypeOK'
BY TouchType DEF SetStatus, RowTypeOK

LEMMA GotoType ==
    ASSUME NEW w \in Workers, NEW step \in Steps, CallTypeOK, Goto(w, step)
    PROVE  CallTypeOK'
BY DEF Goto, CallTypeOK

LEMMA ReturnType ==
    ASSUME NEW w \in Workers, NEW ok \in BOOLEAN, CallTypeOK, Return(w, ok)
    PROVE  CallTypeOK'
<1>1. pc' \in [Workers -> Steps] /\ op' \in [Workers -> Ops \cup {"none"}]
  BY DEF Return, CallTypeOK, Steps
<1>2. lease' \in [Workers -> Versions \cup {NoLease}] /\ owner' \in Workers \cup {NoLease}
  BY DEF Return, CallTypeOK
<1>3. known' \in [Workers -> BOOLEAN]
  BY DEF Return, CallTypeOK
<1>4. acked' \in BOOLEAN
  BY DEF Return
<1> QED
  BY <1>1, <1>2, <1>3, <1>4 DEF CallTypeOK

LEMMA FailType == FaultTypeOK /\ Fail => FaultTypeOK'
BY ConstantsAssumption DEF Fail, FaultTypeOK

-----------------------------------------------------------------------------
(* Type correctness.                                                       *)

LEMMA InitType == Init => TypeOK
<1> SUFFICES ASSUME Init PROVE TypeOK
  OBVIOUS
<1>1. RowTypeOK
  BY MaxAgeNat, 0 \in 0..MaxAge DEF Init, RowTypeOK, Statuses
<1>2. OutsideTypeOK
  BY ConstantsAssumption DEF Init, OutsideTypeOK
<1>3. GrantTypeOK
  BY DEF Init, GrantTypeOK
<1>4. CallTypeOK
  BY DEF Init, CallTypeOK, Steps
<1>5. FaultTypeOK
  BY ConstantsAssumption DEF Init, FaultTypeOK
<1> QED
  BY <1>1, <1>2, <1>3, <1>4, <1>5 DEF TypeOK

LEMMA StepType == TypeOK /\ [Next]_vars => TypeOK'
<1> SUFFICES ASSUME TypeOK, [Next]_vars PROVE TypeOK'
  OBVIOUS
<1> USE UnchangedType, SetStatusType, GotoType, ReturnType, FailType DEF TypeOK
<1>1. CASE CreatePayment
  <2>1. OutsideTypeOK'
    BY <1>1, ConstantsAssumption DEF CreatePayment, OutsideTypeOK, outsideVars, Received
  <2> QED
    BY <1>1, <2>1 DEF CreatePayment, Statuses, Steps, CallSteps, LeaseSteps
<1>2. CASE SavePaymentDetails
  <2>1. RowTypeOK'
    BY <1>2, MaxAgeNat, TouchType DEF SavePaymentDetails, RowTypeOK, rowVars, Statuses
  <2>2. OutsideTypeOK'
    BY <1>2, ConstantsAssumption DEF SavePaymentDetails, OutsideTypeOK, outsideVars, Received
  <2> QED
    BY <1>2, <2>1, <2>2 DEF SavePaymentDetails, Statuses, Steps, CallSteps, LeaseSteps
<1>3. CASE CreateOrderFails
  <2>1. OutsideTypeOK'
    BY <1>3, ConstantsAssumption DEF CreateOrderFails, OutsideTypeOK, outsideVars, Received
  <2> QED
    BY <1>3, <2>1 DEF CreateOrderFails, Statuses, Steps, CallSteps, LeaseSteps
<1>4. CASE CreatorCrash
  <2>1. OutsideTypeOK'
    BY <1>4, ConstantsAssumption DEF CreatorCrash, OutsideTypeOK, outsideVars, Received
  <2>2. FaultTypeOK'
    BY <1>4, ConstantsAssumption DEF CreatorCrash, FaultTypeOK, faultVars
  <2> QED
    BY <1>4, <2>1, <2>2 DEF CreatorCrash, Statuses, Steps, CallSteps, LeaseSteps
<1>5. CASE PayerPays
  <2>1. OutsideTypeOK'
    BY <1>5, ConstantsAssumption DEF PayerPays, OutsideTypeOK, outsideVars, Received
  <2> QED
    BY <1>5, <2>1 DEF PayerPays, Statuses, Steps, CallSteps, LeaseSteps
<1>6. CASE Tick
  <2>1. RowTypeOK'
    BY <1>6, MaxAgeNat, TouchType DEF Tick, RowTypeOK, rowVars, Statuses
  <2>2. OutsideTypeOK'
    BY <1>6, ConstantsAssumption DEF Tick, OutsideTypeOK, outsideVars, Received
  <2> QED
    BY <1>6, <2>1, <2>2 DEF Tick, Statuses, Steps, CallSteps, LeaseSteps
<1>7. CASE RequestRefund
  BY <1>7 DEF RequestRefund, Statuses, Steps, CallSteps, LeaseSteps
<1>8. ASSUME NEW w \in Workers, BeginWebhook(w) PROVE TypeOK'
  <2>1. CallTypeOK'
    BY <1>8 DEF BeginWebhook, Begin, CallTypeOK, callVars, Steps, CallSteps, LeaseSteps
  <2> QED
    BY <1>8, <2>1 DEF BeginWebhook, Begin, Statuses, Steps, CallSteps, LeaseSteps
<1>9. ASSUME NEW w \in Workers, BeginCancel(w) PROVE TypeOK'
  <2>1. CallTypeOK'
    BY <1>9 DEF BeginCancel, Begin, CallTypeOK, callVars, Steps, CallSteps, LeaseSteps
  <2> QED
    BY <1>9, <2>1 DEF BeginCancel, Begin, Statuses, Steps, CallSteps, LeaseSteps
<1>10. ASSUME NEW w \in Workers, BeginExpire(w) PROVE TypeOK'
  <2>1. CallTypeOK'
    BY <1>10 DEF BeginExpire, Begin, CallTypeOK, callVars, Steps, CallSteps, LeaseSteps
  <2> QED
    BY <1>10, <2>1 DEF BeginExpire, Begin, Statuses, Steps, CallSteps, LeaseSteps
<1>11. ASSUME NEW w \in Workers, BeginReconcile(w) PROVE TypeOK'
  <2>1. CallTypeOK'
    BY <1>11 DEF BeginReconcile, Begin, CallTypeOK, callVars, Steps, CallSteps, LeaseSteps
  <2> QED
    BY <1>11, <2>1 DEF BeginReconcile, Begin, Statuses, Steps, CallSteps, LeaseSteps
<1>12. ASSUME NEW w \in Workers, BeginVerify(w) PROVE TypeOK'
  <2>1. CallTypeOK'
    BY <1>12 DEF BeginVerify, Begin, CallTypeOK, callVars, Steps, CallSteps, LeaseSteps
  <2> QED
    BY <1>12, <2>1 DEF BeginVerify, Begin, Statuses, Steps, CallSteps, LeaseSteps
<1>13. ASSUME NEW w \in Workers, BeginRetry(w) PROVE TypeOK'
  <2>1. CallTypeOK'
    BY <1>13 DEF BeginRetry, Begin, CallTypeOK, callVars, Steps, CallSteps, LeaseSteps
  <2> QED
    BY <1>13, <2>1 DEF BeginRetry, Begin, Statuses, Steps, CallSteps, LeaseSteps
<1>14. ASSUME NEW w \in Workers, QueryUpstream(w) PROVE TypeOK'
  BY <1>14 DEF QueryUpstream, NotPaid, Cancelling, Statuses, Steps, CallSteps, LeaseSteps
<1>15. ASSUME NEW w \in Workers, CancelUpstream(w) PROVE TypeOK'
  <2>1. OutsideTypeOK'
    BY <1>15, ConstantsAssumption DEF CancelUpstream, OutsideTypeOK, outsideVars, Received
  <2> QED
    BY <1>15, <2>1 DEF CancelUpstream, Statuses, Steps, CallSteps, LeaseSteps
<1>16. ASSUME NEW w \in Workers, CancelRow(w) PROVE TypeOK'
  BY <1>16 DEF CancelRow, Statuses, Steps, CallSteps, LeaseSteps
<1>17. ASSUME NEW w \in Workers, PersistTradeNo(w) PROVE TypeOK'
  <2>1. RowTypeOK'
    BY <1>17, MaxAgeNat, TouchType DEF PersistTradeNo, RowTypeOK, rowVars, Statuses
  <2> QED
    BY <1>17, <2>1 DEF PersistTradeNo, Statuses, Steps, CallSteps, LeaseSteps
<1>18. ASSUME NEW w \in Workers, ConfirmPayment(w) PROVE TypeOK'
  BY <1>18 DEF ConfirmPayment, Statuses, Steps, CallSteps, LeaseSteps
<1>19. ASSUME NEW w \in Workers, ToPaid(w) PROVE TypeOK'
  <2>1. RowTypeOK'
    BY <1>19, MaxAgeNat, TouchType DEF ToPaid, AcceptsPayment, RowTypeOK, rowVars, Statuses
  <2> QED
    BY <1>19, <2>1 DEF ToPaid, AcceptsPayment, Statuses, Steps, CallSteps, LeaseSteps
<1>20. ASSUME NEW w \in Workers, AlreadyProcessed(w) PROVE TypeOK'
  <2>1. GrantTypeOK'
    BY <1>20 DEF AlreadyProcessed, GrantTypeOK, grantVars, AuditActions
  <2> QED
    BY <1>20, <2>1 DEF AlreadyProcessed, Statuses, Steps, CallSteps, LeaseSteps
<1>21. ASSUME NEW w \in Workers, ExecuteFulfillment(w) PROVE TypeOK'
  BY <1>21 DEF ExecuteFulfillment, Statuses, Steps, CallSteps, LeaseSteps
<1>22. ASSUME NEW w \in Workers, AcquireLease(w) PROVE TypeOK'
  <2>1. CallTypeOK'
    BY <1>22 DEF AcquireLease, LeaseAvailable, CallTypeOK, callVars, Steps, CallSteps, LeaseSteps
  <2> QED
    BY <1>22, <2>1 DEF AcquireLease, LeaseAvailable, Statuses, Steps, CallSteps, LeaseSteps
<1>23. ASSUME NEW w \in Workers, AcquireMissed(w) PROVE TypeOK'
  BY <1>23 DEF AcquireMissed, Statuses, Steps, CallSteps, LeaseSteps
<1>24. ASSUME NEW w \in Workers, ReloadLease(w) PROVE TypeOK'
  <2>1. CallTypeOK'
    <3>1. CASE status = "RECHARGING"
      BY <1>24, <3>1 DEF ReloadLease, RowTypeOK, CallTypeOK, Steps, LeaseSteps
    <3>2. CASE status # "RECHARGING"
      BY <1>24, <3>2 DEF ReloadLease
    <3> QED
      BY <3>1, <3>2
  <2> QED
    BY <1>24, <2>1 DEF ReloadLease, Statuses, Steps, CallSteps, LeaseSteps
<1>25. ASSUME NEW w \in Workers, LookupGrant(w) PROVE TypeOK'
  <2>1. CallTypeOK'
    <3>1. PICK step \in Steps : Goto(w, step)
      BY <1>25 DEF LookupGrant, GrantTypeOK, Steps, LeaseSteps
    <3> QED
      BY <3>1
  <2> QED
    BY <1>25, <2>1 DEF LookupGrant, Statuses, Steps, CallSteps, LeaseSteps
<1>26. ASSUME NEW w \in Workers, CreateCode(w) PROVE TypeOK'
  <2>1. GrantTypeOK'
    BY <1>26 DEF CreateCode, GrantTypeOK, grantVars, AuditActions
  <2> QED
    BY <1>26, <2>1 DEF CreateCode, Statuses, Steps, CallSteps, LeaseSteps
<1>27. ASSUME NEW w \in Workers, RedeemCode(w) PROVE TypeOK'
  <2>1. GrantTypeOK'
    BY <1>27 DEF RedeemCode, GrantTypeOK, grantVars, AuditActions
  <2> QED
    BY <1>27, <2>1 DEF RedeemCode, Statuses, Steps, CallSteps, LeaseSteps
<1>28. ASSUME NEW w \in Workers, RedeemLocked(w) PROVE TypeOK'
  BY <1>28 DEF RedeemLocked, Statuses, Steps, CallSteps, LeaseSteps
<1>29. ASSUME NEW w \in Workers, AssignSubscription(w) PROVE TypeOK'
  <2>1. GrantTypeOK'
    <3>1. CASE Assigned
      BY <1>29, <3>1 DEF AssignSubscription, GrantTypeOK
    <3>2. CASE ~Assigned
      <4>1. grants' = grants + 1 /\ audit' = audit \cup {"SUBSCRIPTION_ASSIGNED"} /\ code' = code /\ rebates' = rebates
        BY <1>29, <3>2 DEF AssignSubscription
      <4> QED
        BY <4>1 DEF GrantTypeOK, AuditActions
    <3> QED
      BY <3>1, <3>2
  <2> QED
    BY <1>29, <2>1 DEF AssignSubscription, Assigned, Statuses, Steps, CallSteps, LeaseSteps
<1>30. ASSUME NEW w \in Workers, ApplyRebate(w) PROVE TypeOK'
  <2>1. GrantTypeOK'
    <3>1. CASE UNCHANGED <<rebates, audit>>
      BY <1>30, <3>1 DEF ApplyRebate, GrantTypeOK
    <3>2. CASE rebates' = rebates + 1 /\ audit' = audit \cup {"AFFILIATE_REBATE_APPLIED"}
      BY <1>30, <3>2 DEF ApplyRebate, GrantTypeOK, AuditActions
    <3>3. CASE UNCHANGED rebates /\ audit' = audit \cup {"AFFILIATE_REBATE_SKIPPED"}
      BY <1>30, <3>3 DEF ApplyRebate, GrantTypeOK, AuditActions
    <3> QED
      BY <1>30, <3>1, <3>2, <3>3 DEF ApplyRebate
  <2> QED
    BY <1>30, <2>1 DEF ApplyRebate, RebateClaimed, Statuses, Steps, CallSteps, LeaseSteps
<1>31. ASSUME NEW w \in Workers, MarkCompleted(w) PROVE TypeOK'
  BY <1>31 DEF MarkCompleted, HoldsLease, Statuses, Steps, CallSteps, LeaseSteps
<1>32. ASSUME NEW w \in Workers, CompleteMissed(w) PROVE TypeOK'
  BY <1>32 DEF CompleteMissed, Statuses, Steps, CallSteps, LeaseSteps
<1>33. ASSUME NEW w \in Workers, RecordSuccess(w) PROVE TypeOK'
  <2>1. GrantTypeOK'
    BY <1>33 DEF RecordSuccess, GrantTypeOK, grantVars, AuditActions
  <2> QED
    BY <1>33, <2>1 DEF RecordSuccess, Statuses, Steps, CallSteps, LeaseSteps
<1>34. ASSUME NEW w \in Workers, MarkFailed(w) PROVE TypeOK'
  BY <1>34 DEF MarkFailed, HoldsLease, Statuses, Steps, CallSteps, LeaseSteps
<1>35. ASSUME NEW w \in Workers, RequestFails(w) PROVE TypeOK'
  BY <1>35 DEF RequestFails, NotPaid, Cancelling, Statuses, Steps, CallSteps, LeaseSteps
<1>36. ASSUME NEW w \in Workers, Crash(w) PROVE TypeOK'
  <2>1. FaultTypeOK'
    BY <1>36, ConstantsAssumption DEF Crash, FaultTypeOK, faultVars
  <2> QED
    BY <1>36, <2>1 DEF Crash, Statuses, Steps, CallSteps, LeaseSteps
<1>37. CASE UNCHANGED vars
  BY <1>37 DEF vars
<1> QED
  BY <1>1, <1>2, <1>3, <1>4, <1>5, <1>6, <1>7, <1>8, <1>9, <1>10, <1>11, <1>12, <1>13, <1>14,
     <1>15, <1>16, <1>17, <1>18, <1>19, <1>20, <1>21, <1>22, <1>23, <1>24, <1>25, <1>26, <1>27,
     <1>28, <1>29, <1>30, <1>31, <1>32, <1>33, <1>34, <1>35, <1>36, <1>37 DEF Next, World,
     BeginCall, CallStep

\* The row and every call always have values of their types: Spec => []TypeOK.
THEOREM TypeCorrect == Spec => []TypeOK
BY InitType, StepType, PTL DEF Spec

-----------------------------------------------------------------------------
(* The inductive invariant.  RowInv and CallInv carry one another: a call  *)
(* fulfils only a paid order because of what the row said when the call    *)
(* read it, and the row stays paid because no update takes paid_at away.   *)
PayInv == RowInv /\ CallInv

LEMMA GotoPC ==
    ASSUME CallTypeOK, NEW w \in Workers, NEW step, Goto(w, step)
    PROVE  \A v \in Workers : pc'[v] = IF v = w THEN step ELSE pc[v]
BY DEF Goto, CallTypeOK

LEMMA ReturnPC ==
    ASSUME CallTypeOK, NEW w \in Workers, NEW ok, Return(w, ok)
    PROVE  \A v \in Workers : pc'[v] = IF v = w THEN "idle" ELSE pc[v]
BY DEF Return, CallTypeOK

LEMMA InitPay == Init => PayInv
BY DEF Init, PayInv, RowInv, CallInv, Received, Fulfilling, LeaseSteps

LEMMA StepPay == TypeOK /\ PayInv /\ [Next]_vars => PayInv'
<1> SUFFICES ASSUME TypeOK, PayInv, [Next]_vars PROVE PayInv'
  OBVIOUS
<1> USE GotoPC, ReturnPC DEF TypeOK, PayInv, RowInv, CallInv, Received, Fulfilling,
         LeaseSteps, rowVars, outsideVars, grantVars, callVars, faultVars
<1>1. CASE CreatePayment
  BY <1>1 DEF CreatePayment
<1>2. CASE SavePaymentDetails
  BY <1>2 DEF SavePaymentDetails, Touch, Fail
<1>3. CASE CreateOrderFails
  BY <1>3 DEF CreateOrderFails, SetStatus, Touch, Fail
<1>4. CASE CreatorCrash
  BY <1>4 DEF CreatorCrash
<1>5. CASE PayerPays
  BY <1>5 DEF PayerPays
<1>6. CASE Tick
  BY <1>6 DEF Tick
<1>7. CASE RequestRefund
  BY <1>7 DEF RequestRefund, SetStatus, Touch
<1>8. ASSUME NEW w \in Workers, BeginWebhook(w) PROVE PayInv'
  BY <1>8 DEF BeginWebhook, Begin, CallTypeOK
<1>9. ASSUME NEW w \in Workers, BeginCancel(w) PROVE PayInv'
  BY <1>9 DEF BeginCancel, Begin, CallTypeOK
<1>10. ASSUME NEW w \in Workers, BeginExpire(w) PROVE PayInv'
  BY <1>10 DEF BeginExpire, Begin, CallTypeOK
<1>11. ASSUME NEW w \in Workers, BeginReconcile(w) PROVE PayInv'
  BY <1>11 DEF BeginReconcile, Begin, CallTypeOK
<1>12. ASSUME NEW w \in Workers, BeginVerify(w) PROVE PayInv'
  BY <1>12 DEF BeginVerify, Begin, CallTypeOK
<1>13. ASSUME NEW w \in Workers, BeginRetry(w) PROVE PayInv'
  BY <1>13 DEF BeginRetry, Begin, CallTypeOK
<1>14. ASSUME NEW w \in Workers, QueryUpstream(w) PROVE PayInv'
  <2>1. CASE payment \in Received /\ Goto(w, IF known[w] THEN "confirm" ELSE "persist")
    BY <1>14, <2>1 DEF QueryUpstream
  <2>2. CASE Goto(w, "cancelRow")
    BY <1>14, <2>2 DEF QueryUpstream
  <2>3. CASE Goto(w, "cancelUpstream")
    BY <1>14, <2>3 DEF QueryUpstream
  <2>4. CASE Return(w, TRUE)
    BY <1>14, <2>4, ReturnPC DEF QueryUpstream
  <2> QED
    BY <1>14, <2>1, <2>2, <2>3, <2>4 DEF QueryUpstream, NotPaid
<1>15. ASSUME NEW w \in Workers, CancelUpstream(w) PROVE PayInv'
  BY <1>15 DEF CancelUpstream
<1>16. ASSUME NEW w \in Workers, CancelRow(w) PROVE PayInv'
  BY <1>16 DEF CancelRow, SetStatus, Touch
<1>17. ASSUME NEW w \in Workers, PersistTradeNo(w) PROVE PayInv'
  BY <1>17 DEF PersistTradeNo, Touch
<1>18. ASSUME NEW w \in Workers, ConfirmPayment(w) PROVE PayInv'
  <2>1. CASE payment = "matching"
    BY <1>18, <2>1 DEF ConfirmPayment
  <2>2. CASE payment # "matching"
    <3>1. Return(w, FALSE)
      BY <1>18, <2>2 DEF ConfirmPayment
    <3> QED
      BY <1>18, <3>1 DEF ConfirmPayment
  <2> QED
    BY <2>1, <2>2
<1>19. ASSUME NEW w \in Workers, ToPaid(w) PROVE PayInv'
  BY <1>19 DEF ToPaid, Touch, AcceptsPayment
<1>20. ASSUME NEW w \in Workers, AlreadyProcessed(w) PROVE PayInv'
  BY <1>20 DEF AlreadyProcessed
<1>21. ASSUME NEW w \in Workers, ExecuteFulfillment(w) PROVE PayInv'
  BY <1>21 DEF ExecuteFulfillment
<1>22. ASSUME NEW w \in Workers, AcquireLease(w) PROVE PayInv'
  BY <1>22 DEF AcquireLease, SetStatus, Touch, LeaseAvailable, CallTypeOK
<1>23. ASSUME NEW w \in Workers, AcquireMissed(w) PROVE PayInv'
  BY <1>23 DEF AcquireMissed
<1>24. ASSUME NEW w \in Workers, ReloadLease(w) PROVE PayInv'
  BY <1>24 DEF ReloadLease, CallTypeOK
<1>25. ASSUME NEW w \in Workers, LookupGrant(w) PROVE PayInv'
  BY <1>25 DEF LookupGrant
<1>26. ASSUME NEW w \in Workers, CreateCode(w) PROVE PayInv'
  BY <1>26 DEF CreateCode
<1>27. ASSUME NEW w \in Workers, RedeemCode(w) PROVE PayInv'
  BY <1>27 DEF RedeemCode, Fail
<1>28. ASSUME NEW w \in Workers, RedeemLocked(w) PROVE PayInv'
  BY <1>28 DEF RedeemLocked
<1>29. ASSUME NEW w \in Workers, AssignSubscription(w) PROVE PayInv'
  BY <1>29 DEF AssignSubscription, Assigned, Fail
<1>30. ASSUME NEW w \in Workers, ApplyRebate(w) PROVE PayInv'
  BY <1>30 DEF ApplyRebate, RebateClaimed, Fail
<1>31. ASSUME NEW w \in Workers, MarkCompleted(w) PROVE PayInv'
  BY <1>31 DEF MarkCompleted, HoldsLease, SetStatus, Touch
<1>32. ASSUME NEW w \in Workers, CompleteMissed(w) PROVE PayInv'
  BY <1>32 DEF CompleteMissed
<1>33. ASSUME NEW w \in Workers, RecordSuccess(w) PROVE PayInv'
  BY <1>33 DEF RecordSuccess
<1>34. ASSUME NEW w \in Workers, MarkFailed(w) PROVE PayInv'
  BY <1>34 DEF MarkFailed, HoldsLease, SetStatus, Touch
<1>35. ASSUME NEW w \in Workers, RequestFails(w) PROVE PayInv'
  <2>1. UNCHANGED <<rowVars, outsideVars, grantVars>>
    BY <1>35 DEF RequestFails
  <2>2. CASE pc[w] = "query" /\ Goto(w, "cancelRow")
    BY <2>1, <2>2
  <2>3. CASE pc[w] = "persist" /\ Goto(w, "confirm")
    BY <2>1, <2>3
  <2>4. CASE pc[w] \in LeaseSteps /\ Goto(w, "markFailed")
    BY <2>1, <2>4
  <2>5. CASE Return(w, TRUE)
    BY <2>1, <2>5
  <2>6. CASE Return(w, FALSE)
    BY <2>1, <2>6
  <2> QED
    BY <1>35, <2>2, <2>3, <2>4, <2>5, <2>6 DEF RequestFails, NotPaid
<1>36. ASSUME NEW w \in Workers, Crash(w) PROVE PayInv'
  BY <1>36 DEF Crash
<1>37. CASE UNCHANGED vars
  BY <1>37 DEF vars, RowInv, CallInv
<1> QED
  BY <1>1, <1>2, <1>3, <1>4, <1>5, <1>6, <1>7, <1>8, <1>9, <1>10, <1>11, <1>12, <1>13,
         <1>14, <1>15, <1>16, <1>17, <1>18, <1>19, <1>20, <1>21, <1>22, <1>23, <1>24,
         <1>25, <1>26, <1>27, <1>28, <1>29, <1>30, <1>31, <1>32, <1>33, <1>34, <1>35,
         <1>36, <1>37 DEF Next, World, BeginCall, CallStep

-----------------------------------------------------------------------------
(* Exactly once: grants and rebates are functions of the redeem code and   *)
(* the audit log, whoever holds the lease and however many hold it.        *)
OnceInv == GrantInv /\ HolderInv

LEMMA InitOnce == Init => OnceInv
BY DEF Init, OnceInv, GrantInv, HolderInv, Assigned, RebateClaimed, Completed

LEMMA StepOnce == TypeOK /\ PayInv /\ OnceInv /\ [Next]_vars => OnceInv'
<1> SUFFICES ASSUME TypeOK, PayInv, OnceInv, [Next]_vars PROVE OnceInv'
  OBVIOUS
<1> USE GotoPC, ReturnPC, ConstantsAssumption DEF TypeOK, OutsideTypeOK, GrantTypeOK,
         PayInv, RowInv, OnceInv, GrantInv, HolderInv, Completed, Assigned,
         RebateClaimed, rowVars, outsideVars, grantVars, callVars, faultVars
<1>1. CASE CreatePayment
  BY <1>1 DEF CreatePayment
<1>2. CASE SavePaymentDetails
  BY <1>2 DEF SavePaymentDetails, Touch, Fail
<1>3. CASE CreateOrderFails
  BY <1>3 DEF CreateOrderFails, SetStatus, Touch, Fail
<1>4. CASE CreatorCrash
  BY <1>4 DEF CreatorCrash
<1>5. CASE PayerPays
  BY <1>5 DEF PayerPays
<1>6. CASE Tick
  BY <1>6 DEF Tick
<1>7. CASE RequestRefund
  BY <1>7 DEF RequestRefund, SetStatus, Touch
<1>8. ASSUME NEW w \in Workers, BeginWebhook(w) PROVE OnceInv'
  BY <1>8 DEF BeginWebhook, Begin, CallTypeOK
<1>9. ASSUME NEW w \in Workers, BeginCancel(w) PROVE OnceInv'
  BY <1>9 DEF BeginCancel, Begin, CallTypeOK
<1>10. ASSUME NEW w \in Workers, BeginExpire(w) PROVE OnceInv'
  BY <1>10 DEF BeginExpire, Begin, CallTypeOK
<1>11. ASSUME NEW w \in Workers, BeginReconcile(w) PROVE OnceInv'
  BY <1>11 DEF BeginReconcile, Begin, CallTypeOK
<1>12. ASSUME NEW w \in Workers, BeginVerify(w) PROVE OnceInv'
  BY <1>12 DEF BeginVerify, Begin, CallTypeOK
<1>13. ASSUME NEW w \in Workers, BeginRetry(w) PROVE OnceInv'
  BY <1>13 DEF BeginRetry, Begin, CallTypeOK
<1>14. ASSUME NEW w \in Workers, QueryUpstream(w) PROVE OnceInv'
  <2>1. UNCHANGED <<rowVars, outsideVars, grantVars>>
    BY <1>14 DEF QueryUpstream
  <2>2. CASE Return(w, TRUE)
    BY <2>1, <2>2
  <2>3. CASE \E step \in {"confirm", "persist", "cancelRow", "cancelUpstream"} : Goto(w, step)
    BY <2>1, <2>3
  <2> QED
    BY <1>14, <2>2, <2>3 DEF QueryUpstream, NotPaid
<1>15. ASSUME NEW w \in Workers, CancelUpstream(w) PROVE OnceInv'
  BY <1>15 DEF CancelUpstream
<1>16. ASSUME NEW w \in Workers, CancelRow(w) PROVE OnceInv'
  BY <1>16 DEF CancelRow, SetStatus, Touch
<1>17. ASSUME NEW w \in Workers, PersistTradeNo(w) PROVE OnceInv'
  BY <1>17 DEF PersistTradeNo, Touch
<1>18. ASSUME NEW w \in Workers, ConfirmPayment(w) PROVE OnceInv'
  <2>1. CASE Return(w, FALSE)
    BY <1>18, <2>1 DEF ConfirmPayment
  <2>2. CASE Goto(w, "toPaid")
    BY <1>18, <2>2 DEF ConfirmPayment
  <2> QED
    BY <1>18, <2>1, <2>2 DEF ConfirmPayment
<1>19. ASSUME NEW w \in Workers, ToPaid(w) PROVE OnceInv'
  BY <1>19 DEF ToPaid, Touch, AcceptsPayment
<1>20. ASSUME NEW w \in Workers, AlreadyProcessed(w) PROVE OnceInv'
  <2>1. CASE Return(w, TRUE)
    BY <1>20, <2>1 DEF AlreadyProcessed
  <2>2. CASE Goto(w, "execute")
    BY <1>20, <2>2 DEF AlreadyProcessed
  <2> QED
    BY <1>20, <2>1, <2>2 DEF AlreadyProcessed
<1>21. ASSUME NEW w \in Workers, ExecuteFulfillment(w) PROVE OnceInv'
  BY <1>21 DEF ExecuteFulfillment
<1>22. ASSUME NEW w \in Workers, AcquireLease(w) PROVE OnceInv'
  BY <1>22 DEF AcquireLease, SetStatus, Touch, LeaseAvailable, CallTypeOK
<1>23. ASSUME NEW w \in Workers, AcquireMissed(w) PROVE OnceInv'
  BY <1>23 DEF AcquireMissed
<1>24. ASSUME NEW w \in Workers, ReloadLease(w) PROVE OnceInv'
  <2>1. CASE Return(w, FALSE)
    BY <1>24, <2>1 DEF ReloadLease
  <2>2. CASE pc' = [pc EXCEPT ![w] = "lookup"]
    BY <1>24, <2>2 DEF ReloadLease, CallTypeOK
  <2> QED
    BY <1>24, <2>1, <2>2 DEF ReloadLease
<1>25. ASSUME NEW w \in Workers, LookupGrant(w) PROVE OnceInv'
  BY <1>25 DEF LookupGrant, CallInv, Fulfilling, LeaseSteps
<1>26. ASSUME NEW w \in Workers, CreateCode(w) PROVE OnceInv'
  BY <1>26 DEF CreateCode
<1>27. ASSUME NEW w \in Workers, RedeemCode(w) PROVE OnceInv'
  BY <1>27 DEF RedeemCode, Fail, CallInv, Fulfilling, LeaseSteps
<1>28. ASSUME NEW w \in Workers, RedeemLocked(w) PROVE OnceInv'
  BY <1>28 DEF RedeemLocked
<1>29. ASSUME NEW w \in Workers, AssignSubscription(w) PROVE OnceInv'
  BY <1>29 DEF AssignSubscription, Assigned, Fail, CallInv, Fulfilling, LeaseSteps
<1>30. ASSUME NEW w \in Workers, ApplyRebate(w) PROVE OnceInv'
  BY <1>30 DEF ApplyRebate, RebateClaimed, Fail, CallInv, Fulfilling, LeaseSteps
<1>31. ASSUME NEW w \in Workers, MarkCompleted(w) PROVE OnceInv'
  BY <1>31 DEF MarkCompleted, HoldsLease, SetStatus, Touch
<1>32. ASSUME NEW w \in Workers, CompleteMissed(w) PROVE OnceInv'
  <2>1. CASE Return(w, TRUE)
    BY <1>32, <2>1 DEF CompleteMissed
  <2>2. CASE Goto(w, "markFailed")
    BY <1>32, <2>2 DEF CompleteMissed
  <2> QED
    BY <1>32, <2>1, <2>2 DEF CompleteMissed
<1>33. ASSUME NEW w \in Workers, RecordSuccess(w) PROVE OnceInv'
  BY <1>33 DEF RecordSuccess
<1>34. ASSUME NEW w \in Workers, MarkFailed(w) PROVE OnceInv'
  BY <1>34 DEF MarkFailed, HoldsLease, SetStatus, Touch
<1>35. ASSUME NEW w \in Workers, RequestFails(w) PROVE OnceInv'
  <2>1. UNCHANGED <<rowVars, outsideVars, grantVars>>
    BY <1>35 DEF RequestFails
  <2>2. CASE \E step \in {"cancelRow", "confirm", "markFailed"} : Goto(w, step)
    BY <2>1, <2>2
  <2>3. CASE \E ok \in BOOLEAN : Return(w, ok)
    BY <2>1, <2>3
  <2> QED
    BY <1>35, <2>2, <2>3 DEF RequestFails, NotPaid
<1>36. ASSUME NEW w \in Workers, Crash(w) PROVE OnceInv'
  BY <1>36 DEF Crash
<1>37. CASE UNCHANGED vars
  BY <1>37 DEF vars, GrantInv, HolderInv
<1> QED
  BY <1>1, <1>2, <1>3, <1>4, <1>5, <1>6, <1>7, <1>8, <1>9, <1>10, <1>11, <1>12, <1>13,
         <1>14, <1>15, <1>16, <1>17, <1>18, <1>19, <1>20, <1>21, <1>22, <1>23, <1>24,
         <1>25, <1>26, <1>27, <1>28, <1>29, <1>30, <1>31, <1>32, <1>33, <1>34, <1>35,
         <1>36, <1>37 DEF Next, World, BeginCall, CallStep

Inv == TypeOK /\ PayInv /\ OnceInv

LEMMA Invariance == Spec => []Inv
<1>1. Init => Inv
  BY InitType, InitPay, InitOnce DEF Inv
<1>2. Inv /\ [Next]_vars => Inv'
  BY StepType, StepPay, StepOnce DEF Inv
<1> QED
  BY <1>1, <1>2, PTL DEF Spec

\* However many calls, takeovers, retries, crashes and failing requests there
\* are, the balance or subscription is granted and the rebate accrued at most
\* once (redeemForPaymentFulfillment, ensurePaymentSubscriptionAssigned,
\* applyAffiliateRebateForOrder).
THEOREM GrantedOnce == Spec => []GrantedAtMostOnce
<1>1. Inv => GrantedAtMostOnce
  BY ConstantsAssumption DEF Inv, TypeOK, OutsideTypeOK, GrantTypeOK, OnceInv, GrantInv, GrantedAtMostOnce
<1> QED
  BY <1>1, Invariance, PTL

\* Nothing is granted without a matching payment on record (confirmPayment,
\* toPaid, alreadyProcessed).
THEOREM GrantedPaid == Spec => []GrantedOnlyIfPaid
<1>1. Inv => GrantedOnlyIfPaid
  BY ConstantsAssumption DEF Inv, TypeOK, OutsideTypeOK, GrantTypeOK, PayInv, RowInv,
                             OnceInv, GrantInv, GrantedOnlyIfPaid
<1> QED
  BY <1>1, Invariance, PTL

\* An order reported as completed was granted and its rebate settled
\* (markCompleted, reached by doBalance, doSub and every retry).
THEOREM CompletedServed == Spec => []CompletedMeansServed
<1>1. Inv => CompletedMeansServed
  BY DEF Inv, OnceInv, GrantInv, CompletedMeansServed
<1> QED
  BY <1>1, Invariance, PTL

\* RetryFulfillment accepts every FAILED order whose payer paid.
THEOREM FailedCanRetry == Spec => []FailedPaidOrderCanRetry
<1>1. Inv => FailedPaidOrderCanRetry
  BY DEF Inv, PayInv, RowInv, Received, FailedPaidOrderCanRetry
<1> QED
  BY <1>1, Invariance, PTL

-----------------------------------------------------------------------------
(* No step takes a payment or a completion back.                           *)
PaidForGood == (paidAt => paidAt') /\ (Completed => Completed')

LEMMA StepForGood == TypeOK /\ PayInv /\ [Next]_vars => PaidForGood
<1> SUFFICES ASSUME TypeOK, PayInv, [Next]_vars PROVE PaidForGood
  OBVIOUS
<1> USE DEF TypeOK, OutsideTypeOK, PayInv, RowInv, PaidForGood, Completed, Received,
         rowVars, outsideVars, grantVars, callVars, faultVars
<1>1. CASE CreatePayment
  BY <1>1 DEF CreatePayment
<1>2. CASE SavePaymentDetails
  BY <1>2 DEF SavePaymentDetails, Touch, Fail
<1>3. CASE CreateOrderFails
  BY <1>3 DEF CreateOrderFails, SetStatus, Touch, Fail
<1>4. CASE CreatorCrash
  BY <1>4 DEF CreatorCrash
<1>5. CASE PayerPays
  BY <1>5 DEF PayerPays
<1>6. CASE Tick
  BY <1>6 DEF Tick
<1>7. CASE RequestRefund
  BY <1>7 DEF RequestRefund, SetStatus, Touch
<1>8. ASSUME NEW w \in Workers, BeginWebhook(w) PROVE PaidForGood
  BY <1>8 DEF BeginWebhook, Begin, CallTypeOK
<1>9. ASSUME NEW w \in Workers, BeginCancel(w) PROVE PaidForGood
  BY <1>9 DEF BeginCancel, Begin, CallTypeOK
<1>10. ASSUME NEW w \in Workers, BeginExpire(w) PROVE PaidForGood
  BY <1>10 DEF BeginExpire, Begin, CallTypeOK
<1>11. ASSUME NEW w \in Workers, BeginReconcile(w) PROVE PaidForGood
  BY <1>11 DEF BeginReconcile, Begin, CallTypeOK
<1>12. ASSUME NEW w \in Workers, BeginVerify(w) PROVE PaidForGood
  BY <1>12 DEF BeginVerify, Begin, CallTypeOK
<1>13. ASSUME NEW w \in Workers, BeginRetry(w) PROVE PaidForGood
  BY <1>13 DEF BeginRetry, Begin, CallTypeOK
<1>14. ASSUME NEW w \in Workers, QueryUpstream(w) PROVE PaidForGood
  BY <1>14 DEF QueryUpstream, NotPaid, Cancelling
<1>15. ASSUME NEW w \in Workers, CancelUpstream(w) PROVE PaidForGood
  BY <1>15 DEF CancelUpstream
<1>16. ASSUME NEW w \in Workers, CancelRow(w) PROVE PaidForGood
  BY <1>16 DEF CancelRow, SetStatus, Touch
<1>17. ASSUME NEW w \in Workers, PersistTradeNo(w) PROVE PaidForGood
  BY <1>17 DEF PersistTradeNo, Touch
<1>18. ASSUME NEW w \in Workers, ConfirmPayment(w) PROVE PaidForGood
  BY <1>18 DEF ConfirmPayment
<1>19. ASSUME NEW w \in Workers, ToPaid(w) PROVE PaidForGood
  BY <1>19 DEF ToPaid, Touch, AcceptsPayment
<1>20. ASSUME NEW w \in Workers, AlreadyProcessed(w) PROVE PaidForGood
  BY <1>20 DEF AlreadyProcessed
<1>21. ASSUME NEW w \in Workers, ExecuteFulfillment(w) PROVE PaidForGood
  BY <1>21 DEF ExecuteFulfillment
<1>22. ASSUME NEW w \in Workers, AcquireLease(w) PROVE PaidForGood
  BY <1>22 DEF AcquireLease, SetStatus, Touch, LeaseAvailable, CallTypeOK
<1>23. ASSUME NEW w \in Workers, AcquireMissed(w) PROVE PaidForGood
  BY <1>23 DEF AcquireMissed
<1>24. ASSUME NEW w \in Workers, ReloadLease(w) PROVE PaidForGood
  BY <1>24 DEF ReloadLease, CallTypeOK
<1>25. ASSUME NEW w \in Workers, LookupGrant(w) PROVE PaidForGood
  BY <1>25 DEF LookupGrant
<1>26. ASSUME NEW w \in Workers, CreateCode(w) PROVE PaidForGood
  BY <1>26 DEF CreateCode
<1>27. ASSUME NEW w \in Workers, RedeemCode(w) PROVE PaidForGood
  BY <1>27 DEF RedeemCode, Fail
<1>28. ASSUME NEW w \in Workers, RedeemLocked(w) PROVE PaidForGood
  BY <1>28 DEF RedeemLocked
<1>29. ASSUME NEW w \in Workers, AssignSubscription(w) PROVE PaidForGood
  BY <1>29 DEF AssignSubscription, Assigned, Fail
<1>30. ASSUME NEW w \in Workers, ApplyRebate(w) PROVE PaidForGood
  BY <1>30 DEF ApplyRebate, RebateClaimed, Fail
<1>31. ASSUME NEW w \in Workers, MarkCompleted(w) PROVE PaidForGood
  BY <1>31 DEF MarkCompleted, HoldsLease, SetStatus, Touch
<1>32. ASSUME NEW w \in Workers, CompleteMissed(w) PROVE PaidForGood
  BY <1>32 DEF CompleteMissed
<1>33. ASSUME NEW w \in Workers, RecordSuccess(w) PROVE PaidForGood
  BY <1>33 DEF RecordSuccess
<1>34. ASSUME NEW w \in Workers, MarkFailed(w) PROVE PaidForGood
  BY <1>34 DEF MarkFailed, HoldsLease, SetStatus, Touch
<1>35. ASSUME NEW w \in Workers, RequestFails(w) PROVE PaidForGood
  BY <1>35 DEF RequestFails, Fail, NotPaid, Cancelling
<1>36. ASSUME NEW w \in Workers, Crash(w) PROVE PaidForGood
  BY <1>36 DEF Crash
<1>37. CASE UNCHANGED vars
  BY <1>37 DEF vars, PaidForGood
<1> QED
  BY <1>1, <1>2, <1>3, <1>4, <1>5, <1>6, <1>7, <1>8, <1>9, <1>10, <1>11, <1>12, <1>13,
         <1>14, <1>15, <1>16, <1>17, <1>18, <1>19, <1>20, <1>21, <1>22, <1>23, <1>24,
         <1>25, <1>26, <1>27, <1>28, <1>29, <1>30, <1>31, <1>32, <1>33, <1>34, <1>35,
         <1>36, <1>37 DEF Next, World, BeginCall, CallStep

\* Cancellations and expiries decided before the payment was confirmed, and
\* lease holders that were overtaken, never undo a paid or a completed order
\* (cancelCore, markCompleted, markFailed).
THEOREM NeverUndone == Spec => PaidNeverUndone
<1>1. Inv /\ Inv' /\ [Next]_vars
      => [/\ paidAt => paidAt' /\ status' \notin {"PENDING", "CANCELLED", "EXPIRED"}
          /\ Completed => Completed']_<<status, paidAt>>
  <2> SUFFICES ASSUME Inv, Inv', [Next]_vars
               PROVE  /\ paidAt => paidAt' /\ status' \notin {"PENDING", "CANCELLED", "EXPIRED"}
                      /\ Completed => Completed'
    OBVIOUS
  <2>1. PaidForGood
    BY StepForGood DEF Inv
  <2>2. paidAt' => status' \notin {"PENDING", "CANCELLED", "EXPIRED"}
    BY DEF Inv, PayInv, RowInv
  <2> QED
    BY <2>1, <2>2 DEF PaidForGood
<1> QED
  BY <1>1, Invariance, PTL DEF Spec, PaidNeverUndone

-----------------------------------------------------------------------------
(* A delivery that is answered with success, as long as no request has     *)
(* failed.  The rest of the argument is that the row only moves on: what a *)
(* call has seen of it stays true.                                         *)
Settled == Completed \/ "PAYMENT_AFTER_EXPIRY" \in audit

AnswerInv(w) ==
    /\ op[w] = "webhook" => pc[w] \notin {"query", "persist", "cancelUpstream", "cancelRow"}
    /\ pc[w] = "already" => status \notin {"PENDING", "CANCELLED"}
    /\ pc[w] = "recordSuccess" => Completed

AckInv ==
    errors = MaxErrors =>
        /\ acked => Settled
        /\ \A w \in Workers : AnswerInv(w)

\* No update reopens an order, no audit entry is deleted.
Onwards ==
    /\ status \notin {"PENDING", "CANCELLED"} => status' \notin {"PENDING", "CANCELLED"}
    /\ Completed => Completed'
    /\ audit \subseteq audit'
    /\ errors' = MaxErrors => errors = MaxErrors

LEMMA StepOnwards == TypeOK /\ PayInv /\ [Next]_vars => Onwards
<1> SUFFICES ASSUME TypeOK, PayInv, [Next]_vars PROVE Onwards
  OBVIOUS
<1>1. Completed => Completed'
  BY StepForGood DEF PaidForGood
<1> SUFFICES /\ status \notin {"PENDING", "CANCELLED"} => status' \notin {"PENDING", "CANCELLED"}
             /\ audit \subseteq audit'
             /\ errors' = MaxErrors => errors = MaxErrors
  BY <1>1 DEF Onwards
<1>2. errors \in Nat /\ MaxErrors \in Nat /\ errors <= MaxErrors
  BY ConstantsAssumption DEF TypeOK, FaultTypeOK, ConstantsAssumption
<1>3. Fail => errors' # MaxErrors
  BY <1>2 DEF Fail
<1> USE <1>2, <1>3 DEF rowVars, outsideVars, grantVars, faultVars
<1>4. CASE World
  BY <1>4 DEF World, CreatePayment, SavePaymentDetails, CreateOrderFails, CreatorCrash,
     PayerPays, Tick, RequestRefund, SetStatus
<1>5. ASSUME NEW w \in Workers, BeginCall(w) PROVE Onwards
  BY <1>1, <1>5 DEF Onwards, BeginCall, BeginWebhook, BeginCancel, BeginExpire, BeginReconcile,
     BeginVerify, BeginRetry, Begin
<1>6. ASSUME NEW w \in Workers,
             \/ QueryUpstream(w) \/ CancelUpstream(w) \/ CancelRow(w) \/ PersistTradeNo(w)
             \/ ConfirmPayment(w) \/ ToPaid(w) \/ AlreadyProcessed(w)
             \/ ExecuteFulfillment(w) \/ AcquireLease(w) \/ AcquireMissed(w) \/ ReloadLease(w)
      PROVE  Onwards
  BY <1>1, <1>6 DEF Onwards, QueryUpstream, CancelUpstream, CancelRow, PersistTradeNo,
     ConfirmPayment, ToPaid, AlreadyProcessed, ExecuteFulfillment, AcquireLease, AcquireMissed,
     ReloadLease, SetStatus
<1>7. ASSUME NEW w \in Workers,
             \/ LookupGrant(w) \/ CreateCode(w) \/ RedeemCode(w) \/ RedeemLocked(w)
             \/ AssignSubscription(w) \/ ApplyRebate(w)
             \/ MarkCompleted(w) \/ CompleteMissed(w) \/ RecordSuccess(w) \/ MarkFailed(w)
             \/ RequestFails(w) \/ Crash(w)
      PROVE  Onwards
  BY <1>1, <1>7 DEF Onwards, LookupGrant, CreateCode, RedeemCode, RedeemLocked,
     AssignSubscription, ApplyRebate, MarkCompleted, CompleteMissed, RecordSuccess, MarkFailed,
     RequestFails, Crash, SetStatus
<1>8. CASE UNCHANGED vars
  BY <1>8 DEF vars
<1> QED
  BY <1>4, <1>5, <1>6, <1>7, <1>8 DEF Next, CallStep, Onwards

\* What one call does concerns the others only through the row.
LEMMA AnswerKept ==
    ASSUME AckInv, Onwards, NEW w \in Workers,
           \A v \in Workers \ {w} : pc'[v] = pc[v] /\ op'[v] = op[v],
           errors' = MaxErrors => AnswerInv(w)',
           errors' = MaxErrors => (acked' => acked \/ Settled')
    PROVE  AckInv'
BY DEF AckInv, Onwards, AnswerInv, Settled

LEMMA GotoAnswer ==
    ASSUME CallTypeOK, AckInv, Onwards, NEW w \in Workers, NEW step, Goto(w, step),
           step \notin {"query", "persist", "cancelUpstream", "cancelRow"} \/ op[w] # "webhook",
           step = "already" => status' \notin {"PENDING", "CANCELLED"},
           step = "recordSuccess" => Completed'
    PROVE  AckInv'
<1>1. \A v \in Workers : op'[v] = op[v] /\ pc'[v] = IF v = w THEN step ELSE pc[v]
  BY DEF Goto, CallTypeOK
<1>2. acked' = acked
  BY DEF Goto
<1>3. AnswerInv(w)'
  BY <1>1 DEF AnswerInv
<1> QED
  BY <1>1, <1>2, <1>3, AnswerKept

LEMMA ReturnAnswer ==
    ASSUME CallTypeOK, AckInv, Onwards, NEW w \in Workers, NEW ok, Return(w, ok),
           errors' = MaxErrors /\ ok /\ op[w] = "webhook" => Settled'
    PROVE  AckInv'
<1>1. \A v \in Workers \ {w} : op'[v] = op[v] /\ pc'[v] = pc[v]
  BY DEF Return, CallTypeOK
<1>2. pc'[w] = "idle" /\ op'[w] = "none"
  BY DEF Return, CallTypeOK
<1>3. AnswerInv(w)'
  BY <1>2 DEF AnswerInv
<1>4. errors' = MaxErrors => (acked' => acked \/ Settled')
  BY DEF Return
<1> QED
  BY <1>1, <1>3, <1>4, AnswerKept

LEMMA StepAck == TypeOK /\ PayInv /\ AckInv /\ [Next]_vars => AckInv'
<1> SUFFICES ASSUME TypeOK, PayInv, AckInv, [Next]_vars PROVE AckInv'
  OBVIOUS
<1>0. Onwards /\ CallTypeOK /\ FaultTypeOK
  BY StepOnwards DEF TypeOK
<1>1. CASE UNCHANGED callVars
  BY <1>0, <1>1 DEF AckInv, AnswerInv, Onwards, Settled, callVars
<1>2. CASE World
  BY <1>1, <1>2 DEF World, CreatePayment, SavePaymentDetails, CreateOrderFails, CreatorCrash,
     PayerPays, Tick, RequestRefund
<1>3. ASSUME NEW w \in Workers, BeginCall(w) PROVE AckInv'
  <2>1. PICK kind, step : Begin(w, kind, step) /\ (kind = "webhook" => step = "confirm")
                          /\ step \in {"confirm", "query", "execute"}
    BY <1>3 DEF BeginCall, BeginWebhook, BeginCancel, BeginExpire, BeginReconcile,
       BeginVerify, BeginRetry
  <2>2. \A v \in Workers \ {w} : pc'[v] = pc[v] /\ op'[v] = op[v]
    BY <1>0, <2>1 DEF Begin, CallTypeOK
  <2>3. pc'[w] = step /\ op'[w] = kind /\ acked' = acked
    BY <1>0, <2>1 DEF Begin, CallTypeOK
  <2>4. AnswerInv(w)'
    BY <2>1, <2>3 DEF AnswerInv
  <2> QED
    BY <1>0, <2>2, <2>3, <2>4, AnswerKept
<1>4. ASSUME NEW w \in Workers, QueryUpstream(w) \/ CancelUpstream(w) \/ CancelRow(w)
                                \/ PersistTradeNo(w)
      PROVE  AckInv'
  <2>1. errors' = MaxErrors => op[w] # "webhook"
    BY <1>0, <1>4 DEF QueryUpstream, CancelUpstream, CancelRow, PersistTradeNo, AckInv,
       AnswerInv, Onwards
  <2>2. \/ Return(w, TRUE)
        \/ \E step \in {"confirm", "persist", "cancelUpstream", "cancelRow"} : Goto(w, step)
    BY <1>4 DEF QueryUpstream, CancelUpstream, CancelRow, PersistTradeNo, NotPaid
  <2>3. CASE errors' # MaxErrors
    BY <2>3 DEF AckInv
  <2>4. CASE errors' = MaxErrors /\ Return(w, TRUE)
    BY <1>0, <2>1, <2>4, ReturnAnswer
  <2>5. ASSUME errors' = MaxErrors, NEW step \in {"confirm", "persist", "cancelUpstream", "cancelRow"},
               Goto(w, step)
        PROVE  AckInv'
    BY <1>0, <2>1, <2>5, GotoAnswer
  <2> QED
    BY <2>2, <2>3, <2>4, <2>5
<1>5. ASSUME NEW w \in Workers, ConfirmPayment(w) PROVE AckInv'
  <2>1. Goto(w, "toPaid") \/ Return(w, FALSE)
    BY <1>5 DEF ConfirmPayment
  <2> QED
    BY <1>0, <2>1, GotoAnswer, ReturnAnswer
<1>6. ASSUME NEW w \in Workers, ToPaid(w) PROVE AckInv'
  <2>1. CASE Goto(w, "execute")
    BY <1>0, <2>1, GotoAnswer
  <2>2. CASE ~AcceptsPayment /\ status' = status /\ Goto(w, "already")
    <3>1. status' \notin {"PENDING", "CANCELLED"}
      BY <2>2 DEF AcceptsPayment
    <3> QED
      BY <1>0, <2>2, <3>1, GotoAnswer
  <2> QED
    BY <1>6, <2>1, <2>2 DEF ToPaid, rowVars
<1>7. ASSUME NEW w \in Workers, AlreadyProcessed(w) PROVE AckInv'
  <2>1. CASE Goto(w, "execute")
    BY <1>0, <2>1, GotoAnswer
  <2>2. CASE status \notin {"FAILED", "PAID", "RECHARGING"} /\ Return(w, TRUE)
    <3>1. ASSUME errors' = MaxErrors PROVE Settled'
      <4>1. status \notin {"PENDING", "CANCELLED"}
        BY <1>0, <1>7, <3>1 DEF AlreadyProcessed, AckInv, AnswerInv, Onwards
      <4>2. status \in {"COMPLETED", "REFUND_REQUESTED", "EXPIRED"}
        BY <2>2, <4>1 DEF TypeOK, RowTypeOK, Statuses
      <4>3. status = "EXPIRED" => "PAYMENT_AFTER_EXPIRY" \in audit'
        BY <1>7 DEF AlreadyProcessed
      <4> QED
        BY <1>0, <4>2, <4>3 DEF Settled, Completed, Onwards
    <3> QED
      BY <1>0, <2>2, <3>1, ReturnAnswer
  <2> QED
    BY <1>7, <2>1, <2>2 DEF AlreadyProcessed
<1>8. ASSUME NEW w \in Workers, ExecuteFulfillment(w) \/ AcquireMissed(w) PROVE AckInv'
  <2>1. CASE Goto(w, "acquire")
    BY <1>0, <2>1, GotoAnswer
  <2>2. CASE Return(w, status = "COMPLETED")
    BY <1>0, <2>2, ReturnAnswer DEF Settled, Completed, Onwards
  <2> QED
    BY <1>8, <2>1, <2>2 DEF ExecuteFulfillment, AcquireMissed
<1>9. ASSUME NEW w \in Workers, AcquireLease(w) PROVE AckInv'
  <2>1. CASE Goto(w, "missed")
    BY <1>0, <2>1, GotoAnswer
  <2>2. CASE pc' = [pc EXCEPT ![w] = "reload"] /\ UNCHANGED <<op, acked>>
    <3>1. /\ \A v \in Workers \ {w} : pc'[v] = pc[v] /\ op'[v] = op[v]
          /\ pc'[w] = "reload"
      BY <1>0, <2>2 DEF CallTypeOK
    <3>2. AnswerInv(w)'
      BY <3>1 DEF AnswerInv
    <3> QED
      BY <1>0, <2>2, <3>1, <3>2, AnswerKept
  <2> QED
    BY <1>9, <2>1, <2>2 DEF AcquireLease
<1>10. ASSUME NEW w \in Workers, ReloadLease(w) PROVE AckInv'
  <2>1. CASE Return(w, FALSE)
    BY <1>0, <2>1, ReturnAnswer
  <2>2. CASE pc' = [pc EXCEPT ![w] = "lookup"] /\ UNCHANGED <<op, acked>>
    <3>1. /\ \A v \in Workers \ {w} : pc'[v] = pc[v] /\ op'[v] = op[v]
          /\ pc'[w] = "lookup"
      BY <1>0, <2>2 DEF CallTypeOK
    <3>2. AnswerInv(w)'
      BY <3>1 DEF AnswerInv
    <3> QED
      BY <1>0, <2>2, <3>1, <3>2, AnswerKept
  <2> QED
    BY <1>10, <2>1, <2>2 DEF ReloadLease
<1>11. ASSUME NEW w \in Workers,
              \/ LookupGrant(w) \/ CreateCode(w) \/ RedeemCode(w) \/ RedeemLocked(w)
              \/ AssignSubscription(w) \/ ApplyRebate(w)
       PROVE  AckInv'
  <2>1. \E step \in {"assign", "createCode", "redeem", "rebate", "markFailed", "complete"} :
            Goto(w, step)
    BY <1>11 DEF LookupGrant, CreateCode, RedeemCode, RedeemLocked, AssignSubscription,
       ApplyRebate, TypeOK, GrantTypeOK
  <2> QED
    BY <1>0, <2>1, GotoAnswer
<1>12. ASSUME NEW w \in Workers, MarkCompleted(w) PROVE AckInv'
  <2>1. CASE Goto(w, "completeMissed")
    BY <1>0, <2>1, GotoAnswer
  <2>2. CASE SetStatus("COMPLETED") /\ Goto(w, "recordSuccess")
    <3>1. Completed'
      BY <2>2 DEF SetStatus, Completed
    <3> QED
      BY <1>0, <2>2, <3>1, GotoAnswer
  <2> QED
    BY <1>12, <2>1, <2>2 DEF MarkCompleted
<1>13. ASSUME NEW w \in Workers, CompleteMissed(w) PROVE AckInv'
  <2>1. CASE Goto(w, "markFailed")
    BY <1>0, <2>1, GotoAnswer
  <2>2. CASE status = "COMPLETED" /\ Return(w, TRUE)
    BY <1>0, <2>2, ReturnAnswer DEF Settled, Completed, Onwards
  <2> QED
    BY <1>13, <2>1, <2>2 DEF CompleteMissed
<1>14. ASSUME NEW w \in Workers, RecordSuccess(w) PROVE AckInv'
  <2>1. errors' = MaxErrors => Settled'
    BY <1>0, <1>14 DEF RecordSuccess, AckInv, AnswerInv, Onwards, Settled
  <2> QED
    BY <1>0, <1>14, <2>1, ReturnAnswer DEF RecordSuccess
<1>15. ASSUME NEW w \in Workers, MarkFailed(w) \/ Crash(w) PROVE AckInv'
  BY <1>0, <1>15, ReturnAnswer DEF MarkFailed, Crash
<1>16. ASSUME NEW w \in Workers, RequestFails(w) PROVE AckInv'
  <2>1. errors' # MaxErrors
    BY <1>0, <1>16, ConstantsAssumption DEF RequestFails, Fail, FaultTypeOK, ConstantsAssumption
  <2> QED
    BY <2>1 DEF AckInv
<1> QED
  BY <1>1, <1>2, <1>3, <1>4, <1>5, <1>6, <1>7, <1>8, <1>9, <1>10, <1>11, <1>12, <1>13, <1>14,
     <1>15, <1>16 DEF Next, CallStep, vars

\* Until a request to the database or the provider fails, a delivery is answered with
\* success only when the order is completed or its payment recorded as too late: a
\* call that finds the order in another's hands, or has lost its lease, reports an
\* error (HandlePaymentNotification, alreadyProcessed, markCompleted).
THEOREM AckedSettled == Spec => [](errors = MaxErrors => AckedOnlyWhenSettled)
<1>1. Init => AckInv
  BY DEF Init, AckInv, AnswerInv
<1>2. Inv /\ AckInv /\ [Next]_vars => AckInv'
  BY StepAck DEF Inv
<1>3. AckInv => (errors = MaxErrors => AckedOnlyWhenSettled)
  BY DEF AckInv, Settled, AckedOnlyWhenSettled
<1> QED
  BY <1>1, <1>2, <1>3, Invariance, PTL DEF Spec

-----------------------------------------------------------------------------
(* Refinement.                                                             *)
PromiseStep == [Promise!Next]_(Promise!promiseVars)

LEMMA InitRefines == Init => Promise!Init
BY DEF Init, Promise!Init, RebateClaimed, Completed

LEMMA StepRefines == Inv /\ [Next]_vars => PromiseStep
<1> SUFFICES ASSUME Inv, [Next]_vars PROVE PromiseStep
  OBVIOUS
<1> USE DEF Inv, TypeOK, OutsideTypeOK, PayInv, RowInv, OnceInv, GrantInv, HolderInv,
         PromiseStep, Completed, Assigned, RebateClaimed, Received, Promise!Next,
         Promise!Pay, Promise!Grant, Promise!SettleRebate, Promise!Complete,
         Promise!promiseVars, rowVars, outsideVars, grantVars, callVars, faultVars
<1>1. CASE CreatePayment
  BY <1>1 DEF CreatePayment
<1>2. CASE SavePaymentDetails
  BY <1>2 DEF SavePaymentDetails, Touch, Fail
<1>3. CASE CreateOrderFails
  BY <1>3 DEF CreateOrderFails, SetStatus, Touch, Fail
<1>4. CASE CreatorCrash
  BY <1>4 DEF CreatorCrash
<1>5. CASE PayerPays
  BY <1>5 DEF PayerPays
<1>6. CASE Tick
  BY <1>6 DEF Tick
<1>7. CASE RequestRefund
  BY <1>7 DEF RequestRefund, SetStatus, Touch
<1>8. ASSUME NEW w \in Workers, BeginWebhook(w) PROVE PromiseStep
  BY <1>8 DEF BeginWebhook, Begin, CallTypeOK
<1>9. ASSUME NEW w \in Workers, BeginCancel(w) PROVE PromiseStep
  BY <1>9 DEF BeginCancel, Begin, CallTypeOK
<1>10. ASSUME NEW w \in Workers, BeginExpire(w) PROVE PromiseStep
  BY <1>10 DEF BeginExpire, Begin, CallTypeOK
<1>11. ASSUME NEW w \in Workers, BeginReconcile(w) PROVE PromiseStep
  BY <1>11 DEF BeginReconcile, Begin, CallTypeOK
<1>12. ASSUME NEW w \in Workers, BeginVerify(w) PROVE PromiseStep
  BY <1>12 DEF BeginVerify, Begin, CallTypeOK
<1>13. ASSUME NEW w \in Workers, BeginRetry(w) PROVE PromiseStep
  BY <1>13 DEF BeginRetry, Begin, CallTypeOK
<1>14. ASSUME NEW w \in Workers, QueryUpstream(w) PROVE PromiseStep
  BY <1>14 DEF QueryUpstream, NotPaid, Cancelling
<1>15. ASSUME NEW w \in Workers, CancelUpstream(w) PROVE PromiseStep
  BY <1>15 DEF CancelUpstream
<1>16. ASSUME NEW w \in Workers, CancelRow(w) PROVE PromiseStep
  BY <1>16 DEF CancelRow, SetStatus, Touch
<1>17. ASSUME NEW w \in Workers, PersistTradeNo(w) PROVE PromiseStep
  BY <1>17 DEF PersistTradeNo, Touch
<1>18. ASSUME NEW w \in Workers, ConfirmPayment(w) PROVE PromiseStep
  BY <1>18 DEF ConfirmPayment
<1>19. ASSUME NEW w \in Workers, ToPaid(w) PROVE PromiseStep
  BY <1>19 DEF ToPaid, Touch, AcceptsPayment
<1>20. ASSUME NEW w \in Workers, AlreadyProcessed(w) PROVE PromiseStep
  BY <1>20 DEF AlreadyProcessed
<1>21. ASSUME NEW w \in Workers, ExecuteFulfillment(w) PROVE PromiseStep
  BY <1>21 DEF ExecuteFulfillment
<1>22. ASSUME NEW w \in Workers, AcquireLease(w) PROVE PromiseStep
  BY <1>22 DEF AcquireLease, SetStatus, Touch, LeaseAvailable, CallTypeOK
<1>23. ASSUME NEW w \in Workers, AcquireMissed(w) PROVE PromiseStep
  BY <1>23 DEF AcquireMissed
<1>24. ASSUME NEW w \in Workers, ReloadLease(w) PROVE PromiseStep
  BY <1>24 DEF ReloadLease, CallTypeOK
<1>25. ASSUME NEW w \in Workers, LookupGrant(w) PROVE PromiseStep
  BY <1>25 DEF LookupGrant
<1>26. ASSUME NEW w \in Workers, CreateCode(w) PROVE PromiseStep
  BY <1>26 DEF CreateCode
<1>27. ASSUME NEW w \in Workers, RedeemCode(w) PROVE PromiseStep
  <2>1. payment = "matching" /\ orderType = "balance"
    BY <1>27 DEF RedeemCode, CallInv, Fulfilling, LeaseSteps
  <2>2. CASE code = "unused"
    BY <1>27, <2>1, <2>2 DEF RedeemCode
  <2>3. CASE code # "unused"
    BY <1>27, <2>3 DEF RedeemCode
  <2> QED
    BY <2>2, <2>3
<1>28. ASSUME NEW w \in Workers, RedeemLocked(w) PROVE PromiseStep
  BY <1>28 DEF RedeemLocked
<1>29. ASSUME NEW w \in Workers, AssignSubscription(w) PROVE PromiseStep
  <2>1. payment = "matching" /\ orderType = "subscription"
    BY <1>29 DEF AssignSubscription, CallInv, Fulfilling, LeaseSteps
  <2>2. CASE Assigned
    BY <1>29, <2>2 DEF AssignSubscription
  <2>3. CASE ~Assigned
    BY <1>29, <2>1, <2>3 DEF AssignSubscription
  <2> QED
    BY <2>2, <2>3
<1>30. ASSUME NEW w \in Workers, ApplyRebate(w) PROVE PromiseStep
  BY <1>30 DEF ApplyRebate, RebateClaimed, Fail
<1>31. ASSUME NEW w \in Workers, MarkCompleted(w) PROVE PromiseStep
  BY <1>31 DEF MarkCompleted, HoldsLease, SetStatus, Touch
<1>32. ASSUME NEW w \in Workers, CompleteMissed(w) PROVE PromiseStep
  BY <1>32 DEF CompleteMissed
<1>33. ASSUME NEW w \in Workers, RecordSuccess(w) PROVE PromiseStep
  BY <1>33 DEF RecordSuccess
<1>34. ASSUME NEW w \in Workers, MarkFailed(w) PROVE PromiseStep
  BY <1>34 DEF MarkFailed, HoldsLease, SetStatus, Touch
<1>35. ASSUME NEW w \in Workers, RequestFails(w) PROVE PromiseStep
  BY <1>35 DEF RequestFails, Fail, NotPaid, Cancelling
<1>36. ASSUME NEW w \in Workers, Crash(w) PROVE PromiseStep
  BY <1>36 DEF Crash
<1>37. CASE UNCHANGED vars
  BY <1>37 DEF vars, PromiseStep
<1> QED
  BY <1>1, <1>2, <1>3, <1>4, <1>5, <1>6, <1>7, <1>8, <1>9, <1>10, <1>11, <1>12, <1>13,
         <1>14, <1>15, <1>16, <1>17, <1>18, <1>19, <1>20, <1>21, <1>22, <1>23, <1>24,
         <1>25, <1>26, <1>27, <1>28, <1>29, <1>30, <1>31, <1>32, <1>33, <1>34, <1>35,
         <1>36, <1>37 DEF Next, World, BeginCall, CallStep

\* The order with all its concurrent calls implements OrderPromise: paid, then
\* granted once, then rebated once, then completed.
THEOREM Refinement == Spec => KeepsPromise
BY InitRefines, StepRefines, Invariance, PTL DEF Spec, PromiseStep, KeepsPromise, Promise!Spec
=============================================================================
