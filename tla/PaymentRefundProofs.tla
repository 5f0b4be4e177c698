------------------------ MODULE PaymentRefundProofs ------------------------
(***************************************************************************)
(* Theorems about PaymentRefund, for every value of its constants: any     *)
(* number of calls, any amounts, any number of crashes and failing         *)
(* statements.                                                             *)
(***************************************************************************)
EXTENDS PaymentRefund, TLAPS, SequenceTheorems

-----------------------------------------------------------------------------
(* Calls: what a change of a call's step or plan preserves. *)

\* A plan stays a plan when one of its fields gets a value of the field's type.
LEMMA PlanFields ==
    ASSUME NEW p \in Plans
    PROVE  /\ \A d \in 0..Amount : [p EXCEPT !.deduct = d] \in Plans
           /\ \A d \in 0..Amount : [p EXCEPT !.force = FALSE, !.deduct = d] \in Plans
           /\ \A r \in {"none", "success", "pending", "failed"}, i \in Nat :
                [p EXCEPT !.resp = r, !.id = i] \in Plans
           /\ \A d \in 0..Amount, i \in Nat :
                [p EXCEPT !.id = i, !.deduct = d] \in Plans
           /\ [p EXCEPT !.rollbackOK = FALSE] \in Plans
  BY DEF Plans

\* A new plan is built from the order's status and an amount.
LEMMA NewPlans ==
    /\ NoPlan \in Plans
    /\ \A st \in Statuses, a \in 0..Amount, f \in BOOLEAN :
        /\ [NoPlan EXCEPT !.from = st, !.amt = a, !.force = f] \in Plans
        /\ [NoPlan EXCEPT !.from = st, !.amt = a] \in Plans
<1>1. NoPlan \in Plans
  BY ConstantsAssumption DEF NoPlan, Plans, NoRefund, Statuses, Refundable
<1>2. ASSUME NEW p \in Plans
      PROVE  \A st \in Statuses, a \in 0..Amount, f \in BOOLEAN :
                /\ [p EXCEPT !.from = st, !.amt = a, !.force = f] \in Plans
                /\ [p EXCEPT !.from = st, !.amt = a] \in Plans
  BY DEF Plans
<1> QED
  BY <1>1, <1>2

LEMMA CallMoves ==
    ASSUME CallTypeOK, NEW w \in Workers, NEW s \in Steps, Goto(w, s)
    PROVE  /\ pc' \in [Workers -> Steps]
           /\ pc'[w] = s
           /\ \A u \in Workers : u # w => pc'[u] = pc[u]
  BY DEF CallTypeOK, Goto

LEMMA PlanChanges ==
    ASSUME CallTypeOK, NEW w \in Workers, NEW p \in Plans, SetPlan(w, p)
    PROVE  /\ plan' \in [Workers -> Plans]
           /\ plan'[w] = p
           /\ \A u \in Workers : u # w => plan'[u] = plan[u]
  BY DEF CallTypeOK, SetPlan

LEMMA CallReturns ==
    ASSUME CallTypeOK, NEW w \in Workers, Return(w)
    PROVE  /\ CallTypeOK'
           /\ pc'[w] = "idle"
           /\ \A u \in Workers : u # w => pc'[u] = pc[u] /\ plan'[u] = plan[u]
  BY CallMoves, PlanChanges, NewPlans DEF Return, CallTypeOK, Steps

-----------------------------------------------------------------------------
(* Type correctness *)

LEMMA InitType == Init => TypeOK
<1> SUFFICES ASSUME Init PROVE TypeOK
  OBVIOUS
<1>1. CallTypeOK
  BY NewPlans DEF Init, CallTypeOK, Steps
<1>2. refunds \in Seq(Refunds)
  BY EmptySeq DEF Init
<1>3. UserTypeOK
  <2>1. forgotten \in Nat /\ disturbed \in BOOLEAN
    BY DEF Init
  <2>2. balance \in Int /\ recharged \in Nat /\ taken \in Int
    BY ConstantsAssumption DEF Init
  <2> QED
    BY <2>1, <2>2 DEF UserTypeOK
<1>4. RowTypeOK /\ BudgetTypeOK
  BY ConstantsAssumption
  DEF Init, RowTypeOK, BudgetTypeOK, Statuses, Refundable
<1>5. AuditTypeOK /\ GatewayTypeOK
  BY <1>2 DEF Init, AuditTypeOK, GatewayTypeOK, NoRefund
<1> QED
  BY <1>1, <1>3, <1>4, <1>5 DEF TypeOK

\* DeductAvailableBalance takes at most what was asked for and what is there.
LEMMA AvailableBounds ==
    ASSUME NEW a \in 0..Amount, balance \in Int
    PROVE  /\ Available(a) \in 0..Amount
           /\ Available(a) > 0 => balance - Available(a) >= 0
  BY ConstantsAssumption DEF Available, Min2, Max2

\* Every step keeps the types, one step of the proof per action.
LEMMA TypeStep == TypeOK /\ [Next]_vars => TypeOK'
<1> SUFFICES ASSUME TypeOK, [Next]_vars PROVE TypeOK'
  OBVIOUS
<1>0. CallTypeOK
  BY DEF TypeOK
<1>p. \A w \in Workers : plan[w] \in Plans
  BY <1>0 DEF CallTypeOK
<1>a. \A w \in Workers :
        /\ plan[w].amt \in 0..Amount /\ plan[w].deduct \in 0..Amount
        /\ plan[w].id \in Nat /\ plan[w].rollbackOK \in BOOLEAN
  BY <1>p DEF Plans
<1>z. 0 \in 0..Amount
  BY ConstantsAssumption
<1> USE DEF vars, rowVars, userVars, history, auditVars, gatewayVars, callVars, budgetVars
<1>1. CASE Spend
  BY <1>1, ConstantsAssumption
  DEF Spend, TypeOK, RowTypeOK, UserTypeOK, AuditTypeOK, GatewayTypeOK,
      CallTypeOK, BudgetTypeOK
<1>2. CASE RefundSettles
  <2>1. PICK i \in DOMAIN refunds, state \in {"success", "failed"} :
          refunds' = [refunds EXCEPT ![i].state = state]
    BY <1>2 DEF RefundSettles
  <2> DEFINE r == [refunds[i] EXCEPT !.state = state]
  <2>2. refunds \in Seq(Refunds) /\ i \in 1..Len(refunds)
    BY <2>1 DEF TypeOK, GatewayTypeOK
  <2>3. refunds[i] \in Refunds
    BY <2>2, ElementOfSeq
  <2>4. r \in Refunds
    BY <2>3 DEF Refunds
  <2>5. refunds' = [refunds EXCEPT ![i] = r]
    BY <2>1
  <2> HIDE DEF r
  <2>6. refunds' \in Seq(Refunds)
    BY <2>2, <2>4, <2>5, ExceptSeq
  <2>7. GatewayTypeOK'
    BY <1>2, <2>6 DEF RefundSettles, TypeOK, GatewayTypeOK
  <2> QED
    BY <1>2, <2>7
    DEF RefundSettles, TypeOK, RowTypeOK, UserTypeOK, AuditTypeOK, CallTypeOK,
        BudgetTypeOK
<1>3. CASE UNCHANGED vars
  BY <1>3
  DEF TypeOK, RowTypeOK, UserTypeOK, AuditTypeOK, GatewayTypeOK, CallTypeOK,
      BudgetTypeOK
<1>4. ASSUME NEW w \in Workers, BeginRequest(w) PROVE TypeOK'
  <2>1. CallTypeOK'
    <3>1. Goto(w, "request") /\ UNCHANGED plan
      BY <1>4 DEF BeginRequest
    <3>2. "request" \in Steps
      BY DEF Steps, CallSteps, QuerySteps, RefundSteps
    <3> QED
      BY <3>1, <3>2, <1>0, CallMoves DEF CallTypeOK
  <2>2. /\ RowTypeOK' /\ UserTypeOK' /\ AuditTypeOK'
        /\ GatewayTypeOK' /\ BudgetTypeOK'
    BY <1>4, ConstantsAssumption
    DEF BeginRequest, TypeOK, RowTypeOK, UserTypeOK, AuditTypeOK,
        GatewayTypeOK, BudgetTypeOK
  <2> QED
    BY <2>1, <2>2 DEF TypeOK
<1>5. ASSUME NEW w \in Workers, PrepareRefund(w) PROVE TypeOK'
  <2>1. CallTypeOK'
    <3>1. PICK amt \in Amounts, force \in BOOLEAN, deduct \in BOOLEAN :
            /\ SetPlan(w, [NoPlan EXCEPT !.from = status, !.amt = amt,
                                         !.force = force /\ deduct])
            /\ Goto(w, IF deduct THEN "prepDeduct" ELSE "execute")
      BY <1>5 DEF PrepareRefund
    <3>2. (IF deduct THEN "prepDeduct" ELSE "execute") \in Steps
      BY DEF Steps, CallSteps
    <3>b. (force /\ deduct) \in BOOLEAN /\ amt \in 0..Amount
      BY ConstantsAssumption
    <3>3. [NoPlan EXCEPT !.from = status, !.amt = amt, !.force = force /\ deduct] \in Plans
      BY <3>b, NewPlans DEF TypeOK, RowTypeOK
    <3> QED
      BY <3>1, <3>2, <3>3, <1>0, CallMoves, PlanChanges DEF CallTypeOK
  <2>2. /\ RowTypeOK' /\ UserTypeOK' /\ AuditTypeOK'
        /\ GatewayTypeOK' /\ BudgetTypeOK'
    <3>1. /\ UNCHANGED <<rowVars, userVars, auditVars, gatewayVars, spends, crashes, errors>>
          /\ attempts > 0 /\ attempts' = attempts - 1
      BY <1>5 DEF PrepareRefund
    <3> QED
      BY <3>1, ConstantsAssumption
      DEF TypeOK, RowTypeOK, UserTypeOK, AuditTypeOK, GatewayTypeOK, BudgetTypeOK
  <2> QED
    BY <2>1, <2>2 DEF TypeOK
<1>6. ASSUME NEW w \in Workers, BeginQuery(w) PROVE TypeOK'
  <2>1. CallTypeOK'
    <3>1. Goto(w, "detail") /\ SetPlan(w, [NoPlan EXCEPT !.from = status, !.amt = refundAmount])
      BY <1>6 DEF BeginQuery
    <3>2. "detail" \in Steps
      BY DEF Steps, CallSteps, QuerySteps, RefundSteps
    <3>3. [NoPlan EXCEPT !.from = status, !.amt = refundAmount] \in Plans
      BY NewPlans, ConstantsAssumption
      DEF TypeOK, CallTypeOK, RowTypeOK, AuditTypeOK
    <3> QED
      BY <3>1, <3>2, <3>3, <1>0, CallMoves, PlanChanges DEF CallTypeOK
  <2>2. /\ RowTypeOK' /\ UserTypeOK' /\ AuditTypeOK'
        /\ GatewayTypeOK' /\ BudgetTypeOK'
    BY <1>6, ConstantsAssumption
    DEF BeginQuery, TypeOK, RowTypeOK, UserTypeOK, AuditTypeOK, GatewayTypeOK,
        BudgetTypeOK
  <2> QED
    BY <2>1, <2>2 DEF TypeOK
<1>7. ASSUME NEW w \in Workers, RequestRefund(w) PROVE TypeOK'
  <2>1. CallTypeOK'
    BY <1>7, <1>0, CallReturns DEF RequestRefund
  <2>2. /\ RowTypeOK' /\ UserTypeOK' /\ AuditTypeOK'
        /\ GatewayTypeOK' /\ BudgetTypeOK'
    BY <1>7, ConstantsAssumption
    DEF RequestRefund, Statuses, Settled, Refundable, TypeOK, RowTypeOK,
        UserTypeOK, AuditTypeOK, GatewayTypeOK, BudgetTypeOK
  <2> QED
    BY <2>1, <2>2 DEF TypeOK
<1>8. ASSUME NEW w \in Workers, PrepDeduct(w) PROVE TypeOK'
  <2>1. CallTypeOK'
    <3>1. CASE Return(w)
      BY <3>1, <1>0, CallReturns
    <3>2. CASE ~Return(w)
      <4> DEFINE d == Max2(0, Min2(plan[w].amt, balance))
      <4>1. d \in 0..Amount
        BY <1>p, ConstantsAssumption DEF Plans, Max2, Min2, TypeOK, UserTypeOK
      <4>2. SetPlan(w, [plan[w] EXCEPT !.force = FALSE, !.deduct = d]) /\ Goto(w, "execute")
        BY <1>8, <3>2 DEF PrepDeduct
      <4>3. [plan[w] EXCEPT !.force = FALSE, !.deduct = d] \in Plans
        BY <1>p, <4>1, PlanFields
      <4> QED
        BY <4>2, <4>3, <1>0, CallMoves, PlanChanges
        DEF CallTypeOK, Steps, CallSteps
    <3> QED
      BY <3>1, <3>2
  <2>2. /\ RowTypeOK' /\ UserTypeOK' /\ AuditTypeOK'
        /\ GatewayTypeOK' /\ BudgetTypeOK'
    BY <1>8, ConstantsAssumption
    DEF PrepDeduct, TypeOK, RowTypeOK, UserTypeOK, AuditTypeOK, GatewayTypeOK,
        BudgetTypeOK
  <2> QED
    BY <2>1, <2>2 DEF TypeOK
<1>9. ASSUME NEW w \in Workers, ClaimRefund(w) PROVE TypeOK'
  <2>1. CallTypeOK'
    <3>1. CASE Return(w)
      BY <3>1, <1>0, CallReturns
    <3>2. CASE ~Return(w)
      <4>1. Goto(w, IF plan[w].deduct > 0 THEN "check" ELSE "gateway") /\ UNCHANGED plan
        BY <1>9, <3>2 DEF ClaimRefund
      <4> QED
        BY <4>1, <1>0, CallMoves DEF CallTypeOK, Steps, RefundSteps
    <3> QED
      BY <3>1, <3>2
  <2>2. /\ RowTypeOK' /\ UserTypeOK' /\ AuditTypeOK'
        /\ GatewayTypeOK' /\ BudgetTypeOK'
    BY <1>9, ConstantsAssumption
    DEF ClaimRefund, Statuses, Settled, Refundable, TypeOK, RowTypeOK,
        UserTypeOK, AuditTypeOK, GatewayTypeOK, BudgetTypeOK
  <2> QED
    BY <2>1, <2>2 DEF TypeOK
<1>10. ASSUME NEW w \in Workers, CheckRollbackFailed(w) PROVE TypeOK'
  <2>1. CallTypeOK'
    <3>1. [plan[w] EXCEPT !.deduct = 0] \in Plans
      BY <1>z, <1>p, PlanFields
    <3>2. "gateway" \in Steps /\ "deduct" \in Steps
      BY DEF Steps, RefundSteps
    <3>3. CASE rollbackFailed
      BY <1>10, <3>1, <3>2, <3>3, CallMoves, PlanChanges
      DEF CheckRollbackFailed, CallTypeOK, TypeOK
    <3>4. CASE ~rollbackFailed
      BY <1>10, <3>2, <3>4, CallMoves
      DEF CheckRollbackFailed, CallTypeOK, TypeOK
    <3> QED
      BY <3>3, <3>4
  <2>2. /\ RowTypeOK' /\ UserTypeOK' /\ AuditTypeOK'
        /\ GatewayTypeOK' /\ BudgetTypeOK'
    BY <1>10, ConstantsAssumption
    DEF CheckRollbackFailed, TypeOK, RowTypeOK, UserTypeOK, AuditTypeOK,
        GatewayTypeOK, BudgetTypeOK
  <2> QED
    BY <2>1, <2>2 DEF TypeOK
<1>11. ASSUME NEW w \in Workers, Deduct(w) PROVE TypeOK'
  <2>1. CallTypeOK'
    <3>d. Available(plan[w].deduct) \in 0..Amount
      BY <1>p, ConstantsAssumption
      DEF Plans, Available, Min2, Max2, TypeOK, UserTypeOK
    <3>1. Goto(w, "gateway") /\ SetPlan(w, [plan[w] EXCEPT !.deduct = Available(plan[w].deduct)])
      BY <1>11 DEF Deduct
    <3>2. "gateway" \in Steps
      BY DEF Steps, CallSteps, QuerySteps, RefundSteps
    <3>3. [plan[w] EXCEPT !.deduct = Available(plan[w].deduct)] \in Plans
      BY <1>p, <3>d, PlanFields, ConstantsAssumption
      DEF TypeOK, CallTypeOK, RowTypeOK, AuditTypeOK
    <3> QED
      BY <3>1, <3>2, <3>3, <1>0, CallMoves, PlanChanges DEF CallTypeOK
  <2>u. UserTypeOK'
    BY <1>11, <1>a, ConstantsAssumption, AvailableBounds
    DEF Deduct, TakeBalance, TypeOK, UserTypeOK
  <2>2. RowTypeOK' /\ AuditTypeOK' /\ GatewayTypeOK' /\ BudgetTypeOK'
    BY <1>11, <1>a
    DEF Deduct, TypeOK, RowTypeOK, AuditTypeOK, GatewayTypeOK, BudgetTypeOK
  <2> QED
    BY <2>1, <2>2, <2>u DEF TypeOK
<1>12. ASSUME NEW w \in Workers, GwRefundFails(w) PROVE TypeOK'
  <2>1. CallTypeOK'
    <3>2. SetPlan(w, [plan[w] EXCEPT !.resp = "failed", !.id = NoRefund]) /\ Goto(w, AfterAnswer("failed"))
      BY <1>12 DEF GwRefundFails, Answer
    <3>3. AfterAnswer("failed") \in Steps
      BY DEF AfterAnswer, Steps, RefundSteps
    <3>n. NoRefund \in Nat
      BY SMT DEF TypeOK, GatewayTypeOK, NoRefund
    <3>4. [plan[w] EXCEPT !.resp = "failed", !.id = NoRefund] \in Plans
      BY <1>p, <3>n, PlanFields DEF TypeOK, GatewayTypeOK, NoRefund
    <3> QED
      BY <3>2, <3>3, <3>4, <1>0, CallMoves, PlanChanges DEF CallTypeOK
  <2>2. /\ RowTypeOK' /\ UserTypeOK' /\ AuditTypeOK'
        /\ GatewayTypeOK' /\ BudgetTypeOK'
    BY <1>12, ConstantsAssumption
    DEF GwRefundFails, TypeOK, RowTypeOK, UserTypeOK, AuditTypeOK,
        GatewayTypeOK, BudgetTypeOK
  <2> QED
    BY <2>1, <2>2 DEF TypeOK
<1>13. ASSUME NEW w \in Workers, GwRefundOpens(w) PROVE TypeOK'
  <2>1. CallTypeOK'
    <3>1. PICK resp \in {"pending", "success", "failed"} : Answer(w, resp, Len(refunds) + 1)
      BY <1>13 DEF GwRefundOpens
    <3>2. SetPlan(w, [plan[w] EXCEPT !.resp = resp, !.id = Len(refunds) + 1]) /\ Goto(w, AfterAnswer(resp))
      BY <1>13, <3>1 DEF Answer
    <3>3. AfterAnswer(resp) \in Steps
      BY DEF AfterAnswer, Steps, RefundSteps
    <3>n. Len(refunds) + 1 \in Nat
      BY <3>1, SMT DEF TypeOK, GatewayTypeOK, NoRefund
    <3>4. [plan[w] EXCEPT !.resp = resp, !.id = Len(refunds) + 1] \in Plans
      BY <1>p, <3>n, <3>1, PlanFields DEF TypeOK, GatewayTypeOK, NoRefund
    <3> QED
      BY <3>2, <3>3, <3>4, <1>0, CallMoves, PlanChanges DEF CallTypeOK
  <2>r. PICK state \in {"pending", "success"} :
          refunds' = Append(refunds, [amt |-> plan[w].amt, state |-> state])
    BY <1>13 DEF GwRefundOpens
  <2>p. plan[w] \in Plans /\ refunds \in Seq(Refunds)
    BY DEF TypeOK, CallTypeOK, GatewayTypeOK
  <2>a. [amt |-> plan[w].amt, state |-> state] \in Refunds
    BY <2>p DEF Plans, Refunds
  <2>s. refunds' \in Seq(Refunds)
    BY <2>r, <2>p, <2>a, AppendProperties
  <2>2. /\ RowTypeOK' /\ UserTypeOK' /\ AuditTypeOK'
        /\ GatewayTypeOK' /\ BudgetTypeOK'
    BY <1>13, ConstantsAssumption, <2>s
    DEF GwRefundOpens, TypeOK, RowTypeOK, UserTypeOK, AuditTypeOK,
        GatewayTypeOK, BudgetTypeOK
  <2> QED
    BY <2>1, <2>2 DEF TypeOK
<1>14. ASSUME NEW w \in Workers, GwRefundRepeats(w) PROVE TypeOK'
  <2>1. CallTypeOK'
    <3>0. PICK i \in Repeats(plan[w].amt), resp \in {"pending", "success"} : Answer(w, resp, i)
      BY <1>14 DEF GwRefundRepeats
    <3>1. i \in Nat /\ Answer(w, resp, i)
      BY <3>0 DEF Repeats, TypeOK, GatewayTypeOK
    <3>2. SetPlan(w, [plan[w] EXCEPT !.resp = resp, !.id = i]) /\ Goto(w, AfterAnswer(resp))
      BY <3>1 DEF Answer
    <3>3. AfterAnswer(resp) \in Steps
      BY DEF AfterAnswer, Steps, RefundSteps
    <3>n. i \in Nat
      BY <3>1, SMT DEF TypeOK, GatewayTypeOK, NoRefund
    <3>4. [plan[w] EXCEPT !.resp = resp, !.id = i] \in Plans
      BY <1>p, <3>n, <3>1, PlanFields DEF TypeOK, GatewayTypeOK, NoRefund
    <3> QED
      BY <3>2, <3>3, <3>4, <1>0, CallMoves, PlanChanges DEF CallTypeOK
  <2>2. /\ RowTypeOK' /\ UserTypeOK' /\ AuditTypeOK'
        /\ GatewayTypeOK' /\ BudgetTypeOK'
    BY <1>14, ConstantsAssumption
    DEF GwRefundRepeats, TypeOK, RowTypeOK, UserTypeOK, AuditTypeOK,
        GatewayTypeOK, BudgetTypeOK
  <2> QED
    BY <2>1, <2>2 DEF TypeOK
<1>15. ASSUME NEW w \in Workers, GwRefundSkipped(w) PROVE TypeOK'
  <2>1. CallTypeOK'
    <3>2. SetPlan(w, [plan[w] EXCEPT !.resp = "success", !.id = NoRefund]) /\ Goto(w, AfterAnswer("success"))
      BY <1>15 DEF GwRefundSkipped, Answer
    <3>3. AfterAnswer("success") \in Steps
      BY DEF AfterAnswer, Steps, RefundSteps
    <3>n. NoRefund \in Nat
      BY SMT DEF TypeOK, GatewayTypeOK, NoRefund
    <3>4. [plan[w] EXCEPT !.resp = "success", !.id = NoRefund] \in Plans
      BY <1>p, <3>n, PlanFields DEF TypeOK, GatewayTypeOK, NoRefund
    <3> QED
      BY <3>2, <3>3, <3>4, <1>0, CallMoves, PlanChanges DEF CallTypeOK
  <2>2. /\ RowTypeOK' /\ UserTypeOK' /\ AuditTypeOK'
        /\ GatewayTypeOK' /\ BudgetTypeOK'
    BY <1>15, ConstantsAssumption
    DEF GwRefundSkipped, TypeOK, RowTypeOK, UserTypeOK, AuditTypeOK,
        GatewayTypeOK, BudgetTypeOK
  <2> QED
    BY <2>1, <2>2 DEF TypeOK
<1>16. ASSUME NEW w \in Workers, RollbackRefund(w) PROVE TypeOK'
  <2>1. CallTypeOK'
    <3>1. Goto(w, AfterRollback(w, TRUE)) /\ SetPlan(w, [plan[w] EXCEPT !.deduct = 0])
      BY <1>16 DEF RollbackRefund
    <3>2. AfterRollback(w, TRUE) \in Steps
      BY DEF Steps, CallSteps, QuerySteps, RefundSteps, AfterRollback
    <3>3. [plan[w] EXCEPT !.deduct = 0] \in Plans
      BY <1>z, <1>p, PlanFields DEF TypeOK, CallTypeOK, RowTypeOK, AuditTypeOK
    <3> QED
      BY <3>1, <3>2, <3>3, <1>0, CallMoves, PlanChanges DEF CallTypeOK
  <2>u. UserTypeOK'
    BY <1>16, <1>a, ConstantsAssumption
    DEF RollbackRefund, GiveBack, TypeOK, UserTypeOK
  <2>2. RowTypeOK' /\ AuditTypeOK' /\ GatewayTypeOK' /\ BudgetTypeOK'
    BY <1>16, <1>a
    DEF RollbackRefund, TypeOK, RowTypeOK, AuditTypeOK, GatewayTypeOK,
        BudgetTypeOK
  <2> QED
    BY <2>1, <2>2, <2>u DEF TypeOK
<1>17. ASSUME NEW w \in Workers, RecordRollbackFailure(w) PROVE TypeOK'
  <2>1. CallTypeOK'
    <3>1. Goto(w, AfterRollback(w, FALSE)) /\ UNCHANGED plan
      BY <1>17 DEF RecordRollbackFailure
    <3>2. AfterRollback(w, FALSE) \in Steps
      BY DEF Steps, CallSteps, QuerySteps, RefundSteps, AfterRollback
    <3> QED
      BY <3>1, <3>2, <1>0, CallMoves DEF CallTypeOK
  <2>2. /\ RowTypeOK' /\ UserTypeOK' /\ AuditTypeOK'
        /\ GatewayTypeOK' /\ BudgetTypeOK'
    BY <1>17, ConstantsAssumption
    DEF RecordRollbackFailure, TypeOK, RowTypeOK, UserTypeOK, AuditTypeOK,
        GatewayTypeOK, BudgetTypeOK
  <2> QED
    BY <2>1, <2>2 DEF TypeOK
<1>18. ASSUME NEW w \in Workers, RestoreStatus(w) PROVE TypeOK'
  <2>1. CallTypeOK'
    BY <1>18, <1>0, CallReturns DEF RestoreStatus
  <2>2. /\ RowTypeOK' /\ UserTypeOK' /\ AuditTypeOK'
        /\ GatewayTypeOK' /\ BudgetTypeOK'
    BY <1>18, ConstantsAssumption
    DEF RestoreStatus, Statuses, Settled, Refundable, TypeOK, RowTypeOK,
        UserTypeOK, AuditTypeOK, GatewayTypeOK, BudgetTypeOK
  <2> QED
    BY <2>1, <2>2 DEF TypeOK
<1>19. ASSUME NEW w \in Workers, MarkRefundFailed(w) PROVE TypeOK'
  <2>1. CallTypeOK'
    BY <1>19, <1>0, CallReturns DEF MarkRefundFailed
  <2>2. /\ RowTypeOK' /\ UserTypeOK' /\ AuditTypeOK'
        /\ GatewayTypeOK' /\ BudgetTypeOK'
    BY <1>19, ConstantsAssumption
    DEF MarkRefundFailed, Statuses, Settled, Refundable, TypeOK, RowTypeOK,
        UserTypeOK, AuditTypeOK, GatewayTypeOK, BudgetTypeOK
  <2> QED
    BY <2>1, <2>2 DEF TypeOK
<1>20. ASSUME NEW w \in Workers, MarkRefundOk(w) PROVE TypeOK'
  <2>1. CallTypeOK'
    <3>1. Goto(w, "auditOk") /\ UNCHANGED plan
      BY <1>20 DEF MarkRefundOk
    <3>2. "auditOk" \in Steps
      BY DEF Steps, CallSteps, QuerySteps, RefundSteps
    <3> QED
      BY <3>1, <3>2, <1>0, CallMoves DEF CallTypeOK
  <2>2. /\ RowTypeOK' /\ UserTypeOK' /\ AuditTypeOK'
        /\ GatewayTypeOK' /\ BudgetTypeOK'
    BY <1>20, ConstantsAssumption, <1>a
    DEF MarkRefundOk, SettledStatus, Statuses, Settled, Refundable, TypeOK,
        RowTypeOK, UserTypeOK, AuditTypeOK, GatewayTypeOK, BudgetTypeOK
  <2> QED
    BY <2>1, <2>2 DEF TypeOK
<1>21. ASSUME NEW w \in Workers, AuditRefundOk(w) PROVE TypeOK'
  <2>1. CallTypeOK'
    BY <1>21, <1>0, CallReturns DEF AuditRefundOk
  <2>2. /\ RowTypeOK' /\ UserTypeOK' /\ AuditTypeOK'
        /\ GatewayTypeOK' /\ BudgetTypeOK'
    BY <1>21, ConstantsAssumption
    DEF AuditRefundOk, TypeOK, RowTypeOK, UserTypeOK, AuditTypeOK,
        GatewayTypeOK, BudgetTypeOK
  <2> QED
    BY <2>1, <2>2 DEF TypeOK
<1>22. ASSUME NEW w \in Workers, MarkRefundPending(w) PROVE TypeOK'
  <2>1. CallTypeOK'
    <3>1. Goto(w, "auditPending") /\ UNCHANGED plan
      BY <1>22 DEF MarkRefundPending
    <3>2. "auditPending" \in Steps
      BY DEF Steps, CallSteps, QuerySteps, RefundSteps
    <3> QED
      BY <3>1, <3>2, <1>0, CallMoves DEF CallTypeOK
  <2>2. /\ RowTypeOK' /\ UserTypeOK' /\ AuditTypeOK'
        /\ GatewayTypeOK' /\ BudgetTypeOK'
    BY <1>22, ConstantsAssumption, <1>a
    DEF MarkRefundPending, Statuses, Settled, Refundable, TypeOK, RowTypeOK,
        UserTypeOK, AuditTypeOK, GatewayTypeOK, BudgetTypeOK
  <2> QED
    BY <2>1, <2>2 DEF TypeOK
<1>23. ASSUME NEW w \in Workers, AuditRefundPending(w) PROVE TypeOK'
  <2>1. CallTypeOK'
    BY <1>23, <1>0, CallReturns DEF AuditRefundPending
  <2>2. /\ RowTypeOK' /\ UserTypeOK' /\ AuditTypeOK'
        /\ GatewayTypeOK' /\ BudgetTypeOK'
    BY <1>23, ConstantsAssumption, <1>a
    DEF AuditRefundPending, KeepFirst, TypeOK, RowTypeOK, UserTypeOK,
        AuditTypeOK, GatewayTypeOK, BudgetTypeOK
  <2> QED
    BY <2>1, <2>2 DEF TypeOK
<1>24. ASSUME NEW w \in Workers, LatestRefundPendingDetail(w) PROVE TypeOK'
  <2>1. CallTypeOK'
    <3> DEFINE d == FinalDeduction(pendingAudit.rollbackOK, plan[w].amt)
    <3>2. SetPlan(w, [plan[w] EXCEPT !.id = pendingAudit.id, !.deduct = d]) /\ Goto(w, "ask")
      BY <1>24 DEF LatestRefundPendingDetail
    <3>3. d \in 0..Amount /\ pendingAudit.id \in Nat
      BY <1>p, ConstantsAssumption
      DEF FinalDeduction, Plans, TypeOK, AuditTypeOK
    <3>4. [plan[w] EXCEPT !.id = pendingAudit.id, !.deduct = d] \in Plans
      BY <1>p, <3>3, PlanFields
    <3> QED
      BY <3>2, <3>4, <1>0, CallMoves, PlanChanges
      DEF CallTypeOK, Steps, QuerySteps
  <2>2. /\ RowTypeOK' /\ UserTypeOK' /\ AuditTypeOK'
        /\ GatewayTypeOK' /\ BudgetTypeOK'
    BY <1>24, ConstantsAssumption
    DEF LatestRefundPendingDetail, TypeOK, RowTypeOK, UserTypeOK, AuditTypeOK,
        GatewayTypeOK, BudgetTypeOK
  <2> QED
    BY <2>1, <2>2 DEF TypeOK
<1>25. ASSUME NEW w \in Workers, QueryRefund(w) PROVE TypeOK'
  <2>1. CallTypeOK'
    <3>1. CASE Return(w)
      BY <3>1, <1>0, CallReturns
    <3>2. CASE ~Return(w)
      <4>1. PICK i \in Queried(w) :
              /\ AfterQuery(refunds[i].state) # "idle"
              /\ Goto(w, AfterQuery(refunds[i].state)) /\ UNCHANGED plan
        BY <1>25, <3>2 DEF QueryRefund
      <4>2. i \in DOMAIN refunds
        BY <4>1 DEF Queried
      <4>3. refunds[i] \in Refunds
        BY <4>2, ElementOfSeq DEF TypeOK, GatewayTypeOK
      <4>4. AfterQuery(refunds[i].state) \in Steps
        BY <4>3 DEF AfterQuery, Refunds, Steps, QuerySteps
      <4> QED
        BY <4>1, <4>4, <1>0, CallMoves DEF CallTypeOK
    <3> QED
      BY <3>1, <3>2
  <2>2. /\ RowTypeOK' /\ UserTypeOK' /\ AuditTypeOK'
        /\ GatewayTypeOK' /\ BudgetTypeOK'
    BY <1>25, ConstantsAssumption
    DEF QueryRefund, TypeOK, RowTypeOK, UserTypeOK, AuditTypeOK, GatewayTypeOK,
        BudgetTypeOK
  <2> QED
    BY <2>1, <2>2 DEF TypeOK
<1>26. ASSUME NEW w \in Workers, QueryRefundFails(w) PROVE TypeOK'
  <2>1. CallTypeOK'
    BY <1>26, <1>0, CallReturns DEF QueryRefundFails
  <2>2. /\ RowTypeOK' /\ UserTypeOK' /\ AuditTypeOK'
        /\ GatewayTypeOK' /\ BudgetTypeOK'
    BY <1>26, ConstantsAssumption
    DEF QueryRefundFails, TypeOK, RowTypeOK, UserTypeOK, AuditTypeOK,
        GatewayTypeOK, BudgetTypeOK
  <2> QED
    BY <2>1, <2>2 DEF TypeOK
<1>27. ASSUME NEW w \in Workers, FinalizePendingRefundSuccess(w) PROVE TypeOK'
  <2>1. CallTypeOK'
    BY <1>27, <1>0, CallReturns DEF FinalizePendingRefundSuccess
  <2>u. UserTypeOK'
    BY <1>27, <1>a, ConstantsAssumption, AvailableBounds
    DEF FinalizePendingRefundSuccess, TakeBalance, Forget, TypeOK, UserTypeOK
  <2>2. RowTypeOK' /\ AuditTypeOK' /\ GatewayTypeOK' /\ BudgetTypeOK'
    BY <1>27, <1>a
    DEF FinalizePendingRefundSuccess, SettledStatus, Statuses, Settled,
        Refundable, TypeOK, RowTypeOK, AuditTypeOK, GatewayTypeOK, BudgetTypeOK
  <2> QED
    BY <2>1, <2>2, <2>u DEF TypeOK
<1>28. ASSUME NEW w \in Workers, FinalizeRefundFailed(w) PROVE TypeOK'
  <2>1. CallTypeOK'
    BY <1>28, <1>0, CallReturns DEF FinalizeRefundFailed
  <2>2. /\ RowTypeOK' /\ UserTypeOK' /\ AuditTypeOK'
        /\ GatewayTypeOK' /\ BudgetTypeOK'
    BY <1>28, ConstantsAssumption
    DEF FinalizeRefundFailed, Statuses, Settled, Refundable, TypeOK, RowTypeOK,
        UserTypeOK, AuditTypeOK, GatewayTypeOK, BudgetTypeOK
  <2> QED
    BY <2>1, <2>2 DEF TypeOK
<1>29. ASSUME NEW w \in Workers, StatementFails(w) PROVE TypeOK'
  <2>1. CallTypeOK'
    <3> DEFINE p == CASE pc[w] = "rollback"     -> [plan[w] EXCEPT !.rollbackOK = FALSE]
                      [] pc[w] = "detail"       -> [plan[w] EXCEPT !.deduct = plan[w].amt]
                      [] AfterError(w) = "idle" -> NoPlan
                      [] OTHER                  -> plan[w]
    <3>1. Goto(w, AfterError(w)) /\ SetPlan(w, p)
      BY <1>29 DEF StatementFails
    <3>2. AfterError(w) \in Steps
      BY
      DEF AfterError, AfterRollback, Steps, CallSteps, QuerySteps, RefundSteps
    <3>4. p \in Plans
      BY <1>p, <1>a, PlanFields, NewPlans
    <3> HIDE DEF p
    <3> QED
      BY <3>1, <3>2, <3>4, <1>0, CallMoves, PlanChanges DEF CallTypeOK
  <2>2. /\ RowTypeOK' /\ UserTypeOK' /\ AuditTypeOK'
        /\ GatewayTypeOK' /\ BudgetTypeOK'
    <3>1. /\ errors > 0 /\ errors' = errors - 1
          /\ Forget(EntryLost(w))
          /\ UNCHANGED <<rowVars, balance, recharged, taken, disturbed,
                         auditVars, gatewayVars, spends, attempts, crashes>>
      BY <1>29 DEF StatementFails
    <3>2. UserTypeOK'
      BY <3>1 DEF Forget, TypeOK, UserTypeOK
    <3>3. BudgetTypeOK'
      BY <3>1, ConstantsAssumption DEF TypeOK, BudgetTypeOK
    <3>4. RowTypeOK' /\ AuditTypeOK' /\ GatewayTypeOK'
      BY <3>1
      DEF TypeOK, RowTypeOK, AuditTypeOK, GatewayTypeOK, rowVars, auditVars,
          gatewayVars
    <3> QED
      BY <3>2, <3>3, <3>4
  <2> QED
    BY <2>1, <2>2 DEF TypeOK
<1>30. ASSUME NEW w \in Workers, Crash(w) PROVE TypeOK'
  <2>1. CallTypeOK'
    BY <1>30, <1>0, CallReturns DEF Crash
  <2>2. /\ RowTypeOK' /\ UserTypeOK' /\ AuditTypeOK'
        /\ GatewayTypeOK' /\ BudgetTypeOK'
    BY <1>30, ConstantsAssumption
    DEF Crash, TypeOK, RowTypeOK, UserTypeOK, AuditTypeOK, GatewayTypeOK,
        BudgetTypeOK
  <2> QED
    BY <2>1, <2>2 DEF TypeOK
<1> QED
  BY <1>1, <1>2, <1>3, <1>4, <1>5, <1>6, <1>7, <1>8, <1>9, <1>10, <1>11,
     <1>12, <1>13, <1>14, <1>15, <1>16, <1>17, <1>18, <1>19, <1>20, <1>21,
     <1>22, <1>23, <1>24, <1>25, <1>26, <1>27, <1>28, <1>29, <1>30
  DEF Next, CallStep

\* Type correctness for any calls, amounts and faults: in particular no call
\* ever deducts or gives back a negative amount or more than the order's
\* (prepDeduct, ExecuteRefund, RollbackRefund).
THEOREM TypeCorrect == Spec => []TypeOK
<1> QED
  BY InitType, TypeStep, PTL DEF Spec

-----------------------------------------------------------------------------
(* One refund at a time, and refunded means paid back, when refunds are    *)
(* requested and executed but not queried.                                 *)

LEMMA InitRefundInv == Init => RefundInv
  BY
  DEF Init, RefundInv, NoQueryRunning, ExclusiveRefund, SuccessMeansPaidBack,
         RefundedMeansPaidBack, QuerySteps, RefundSteps, Settled

\* What the gateway paid back stays paid back.
LEMMA PaidBackStays ==
    ASSUME TypeOK, [Next]_vars, NEW a, PaidBack(a)
    PROVE  PaidBack(a)'
<1>1. PICK i \in DOMAIN refunds : refunds[i].amt = a /\ refunds[i].state = "success"
  BY DEF PaidBack
<1>2. refunds \in Seq(Refunds) /\ i \in 1..Len(refunds)
  BY <1>1 DEF TypeOK, GatewayTypeOK
<1>3. CASE UNCHANGED refunds
  BY <1>1, <1>3 DEF PaidBack
<1>4. CASE RefundSettles
  <2>1. PICK j \in DOMAIN refunds, state \in {"success", "failed"} :
          refunds[j].state = "pending" /\ refunds' = [refunds EXCEPT ![j].state = state]
    BY <1>4 DEF RefundSettles
  <2>2. i # j
    BY <1>1, <2>1
  <2>3. i \in DOMAIN refunds' /\ refunds'[i] = refunds[i]
    BY <1>1, <2>1, <2>2
  <2> QED
    BY <1>1, <2>3 DEF PaidBack
<1>5. ASSUME NEW w \in Workers, GwRefundOpens(w) PROVE PaidBack(a)'
  <2>1. PICK r : refunds' = Append(refunds, r) /\ r = [amt |-> plan[w].amt, state |-> r.state]
                 /\ r.state \in {"pending", "success"}
    BY <1>5 DEF GwRefundOpens
  <2>2. r \in Refunds
    BY <2>1 DEF Refunds, TypeOK, CallTypeOK, Plans
  <2>3. Len(refunds') = Len(refunds) + 1 /\ refunds'[i] = refunds[i] /\ refunds' \in Seq(Refunds)
    BY <1>2, <2>1, <2>2, AppendProperties
  <2>4. i \in DOMAIN refunds'
    BY <1>2, <2>3
  <2> QED
    BY <1>1, <2>3, <2>4 DEF PaidBack
<1> QED
  BY <1>3, <1>4, <1>5
  DEF Next, CallStep, Spend, BeginRequest, PrepareRefund, BeginQuery, RequestRefund,
      PrepDeduct, ClaimRefund, CheckRollbackFailed, Deduct, GwRefundFails, GwRefundRepeats,
      GwRefundSkipped, RollbackRefund, RecordRollbackFailure, RestoreStatus, MarkRefundFailed,
      MarkRefundOk, AuditRefundOk, MarkRefundPending, AuditRefundPending,
      LatestRefundPendingDetail, QueryRefund, QueryRefundFails, FinalizePendingRefundSuccess,
      FinalizeRefundFailed, StatementFails, Crash, gatewayVars, vars

LEMMA RefundStep ==
    ASSUME "query" \notin Ops, TypeOK, RefundInv, [Next]_vars
    PROVE  RefundInv'
<1>0. pc \in [Workers -> Steps] /\ plan \in [Workers -> Plans]
  BY DEF TypeOK, CallTypeOK
<1>p. \A x : PaidBack(x) => PaidBack(x)'
  BY PaidBackStays
<1> USE DEF vars, rowVars, userVars, history, auditVars, gatewayVars, callVars, budgetVars, Goto, Return, SetPlan
<1>1. CASE Spend \/ RefundSettles \/ UNCHANGED vars
  BY <1>1, <1>p
  DEF Spend, RefundSettles, RefundInv, NoQueryRunning, ExclusiveRefund,
      SuccessMeansPaidBack, RefundedMeansPaidBack
<1>2. ASSUME NEW w \in Workers, BeginRequest(w) PROVE RefundInv'
  <2>1. NoQueryRunning'
    BY <1>2, <1>0 DEF BeginRequest, RefundInv, NoQueryRunning, QuerySteps
  <2>2. ExclusiveRefund'
    BY <1>2, <1>0
    DEF BeginRequest, RefundInv, ExclusiveRefund, RefundSteps, Refundable
  <2>3. SuccessMeansPaidBack'
    BY <1>2, <1>0, <1>p DEF BeginRequest, RefundInv, SuccessMeansPaidBack
  <2>4. RefundedMeansPaidBack'
    BY <1>2, <1>0, <1>p
    DEF BeginRequest, RefundInv, SuccessMeansPaidBack, RefundedMeansPaidBack,
        Settled
  <2> QED
    BY <2>1, <2>2, <2>3, <2>4 DEF RefundInv
<1>3. ASSUME NEW w \in Workers, PrepareRefund(w) PROVE RefundInv'
  <2>1. NoQueryRunning'
    BY <1>3, <1>0 DEF PrepareRefund, RefundInv, NoQueryRunning, QuerySteps
  <2>2. ExclusiveRefund'
    BY <1>3, <1>0
    DEF PrepareRefund, RefundInv, ExclusiveRefund, RefundSteps, Refundable
  <2>3. SuccessMeansPaidBack'
    BY <1>3, <1>0, <1>p DEF PrepareRefund, RefundInv, SuccessMeansPaidBack
  <2>4. RefundedMeansPaidBack'
    BY <1>3, <1>0, <1>p
    DEF PrepareRefund, RefundInv, SuccessMeansPaidBack, RefundedMeansPaidBack,
        Settled
  <2> QED
    BY <2>1, <2>2, <2>3, <2>4 DEF RefundInv
<1>4. ASSUME NEW w \in Workers, BeginQuery(w) PROVE RefundInv'
  BY <1>4 DEF BeginQuery, RefundInv, NoQueryRunning, QuerySteps
<1>5. ASSUME NEW w \in Workers, RequestRefund(w) PROVE RefundInv'
  <2>1. NoQueryRunning'
    BY <1>5, <1>0 DEF RequestRefund, RefundInv, NoQueryRunning, QuerySteps
  <2>2. ExclusiveRefund'
    BY <1>5, <1>0
    DEF RequestRefund, RefundInv, ExclusiveRefund, RefundSteps, Refundable
  <2>3. SuccessMeansPaidBack'
    BY <1>5, <1>0, <1>p DEF RequestRefund, RefundInv, SuccessMeansPaidBack
  <2>4. RefundedMeansPaidBack'
    BY <1>5, <1>0, <1>p
    DEF RequestRefund, RefundInv, SuccessMeansPaidBack, RefundedMeansPaidBack,
        Settled
  <2> QED
    BY <2>1, <2>2, <2>3, <2>4 DEF RefundInv
<1>6. ASSUME NEW w \in Workers, PrepDeduct(w) PROVE RefundInv'
  <2>1. NoQueryRunning'
    BY <1>6, <1>0 DEF PrepDeduct, RefundInv, NoQueryRunning, QuerySteps
  <2>2. ExclusiveRefund'
    BY <1>6, <1>0
    DEF PrepDeduct, RefundInv, ExclusiveRefund, RefundSteps, Refundable
  <2>3. SuccessMeansPaidBack'
    BY <1>6, <1>0, <1>p DEF PrepDeduct, RefundInv, SuccessMeansPaidBack
  <2>4. RefundedMeansPaidBack'
    BY <1>6, <1>0, <1>p
    DEF PrepDeduct, RefundInv, SuccessMeansPaidBack, RefundedMeansPaidBack,
        Settled
  <2> QED
    BY <2>1, <2>2, <2>3, <2>4 DEF RefundInv
<1>7. ASSUME NEW w \in Workers, ClaimRefund(w) PROVE RefundInv'
  <2>1. NoQueryRunning'
    BY <1>7, <1>0 DEF ClaimRefund, RefundInv, NoQueryRunning, QuerySteps
  <2>2. ExclusiveRefund'
    BY <1>7, <1>0
    DEF ClaimRefund, RefundInv, ExclusiveRefund, RefundSteps, Refundable
  <2>3. SuccessMeansPaidBack'
    BY <1>7, <1>0, <1>p DEF ClaimRefund, RefundInv, SuccessMeansPaidBack
  <2>4. RefundedMeansPaidBack'
    BY <1>7, <1>0, <1>p
    DEF ClaimRefund, RefundInv, SuccessMeansPaidBack, RefundedMeansPaidBack,
        Settled
  <2> QED
    BY <2>1, <2>2, <2>3, <2>4 DEF RefundInv
<1>8. ASSUME NEW w \in Workers, CheckRollbackFailed(w) PROVE RefundInv'
  <2>1. NoQueryRunning'
    BY <1>8, <1>0
    DEF CheckRollbackFailed, RefundInv, NoQueryRunning, QuerySteps
  <2>2. ExclusiveRefund'
    BY <1>8, <1>0
    DEF CheckRollbackFailed, RefundInv, ExclusiveRefund, RefundSteps,
        Refundable
  <2>3. SuccessMeansPaidBack'
    BY <1>8, <1>0, <1>p
    DEF CheckRollbackFailed, RefundInv, SuccessMeansPaidBack
  <2>4. RefundedMeansPaidBack'
    BY <1>8, <1>0, <1>p
    DEF CheckRollbackFailed, RefundInv, SuccessMeansPaidBack,
        RefundedMeansPaidBack, Settled
  <2> QED
    BY <2>1, <2>2, <2>3, <2>4 DEF RefundInv
<1>9. ASSUME NEW w \in Workers, Deduct(w) PROVE RefundInv'
  <2>1. NoQueryRunning'
    BY <1>9, <1>0 DEF Deduct, RefundInv, NoQueryRunning, QuerySteps
  <2>2. ExclusiveRefund'
    BY <1>9, <1>0
    DEF Deduct, RefundInv, ExclusiveRefund, RefundSteps, Refundable
  <2>3. SuccessMeansPaidBack'
    BY <1>9, <1>0, <1>p DEF Deduct, RefundInv, SuccessMeansPaidBack
  <2>4. RefundedMeansPaidBack'
    BY <1>9, <1>0, <1>p
    DEF Deduct, RefundInv, SuccessMeansPaidBack, RefundedMeansPaidBack, Settled
  <2> QED
    BY <2>1, <2>2, <2>3, <2>4 DEF RefundInv
<1>10. ASSUME NEW w \in Workers, GwRefundFails(w) PROVE RefundInv'
  <2>1. NoQueryRunning'
    BY <1>10, <1>0
    DEF GwRefundFails, Answer, AfterAnswer, RefundInv, NoQueryRunning,
        QuerySteps
  <2>2. ExclusiveRefund'
    BY <1>10, <1>0
    DEF GwRefundFails, Answer, AfterAnswer, RefundInv, ExclusiveRefund,
        RefundSteps, Refundable
  <2>3. SuccessMeansPaidBack'
    BY <1>10, <1>0, <1>p
    DEF GwRefundFails, Answer, AfterAnswer, RefundInv, SuccessMeansPaidBack
  <2>4. RefundedMeansPaidBack'
    BY <1>10, <1>0, <1>p
    DEF GwRefundFails, RefundInv, SuccessMeansPaidBack, RefundedMeansPaidBack,
        Settled
  <2> QED
    BY <2>1, <2>2, <2>3, <2>4 DEF RefundInv
<1>11. ASSUME NEW w \in Workers, GwRefundOpens(w) PROVE RefundInv'
  <2>1. NoQueryRunning'
    BY <1>11, <1>0
    DEF GwRefundOpens, Answer, AfterAnswer, RefundInv, NoQueryRunning,
        QuerySteps
  <2>2. ExclusiveRefund'
    BY <1>11, <1>0
    DEF GwRefundOpens, Answer, AfterAnswer, RefundInv, ExclusiveRefund,
        RefundSteps, Refundable
  <2>3. SuccessMeansPaidBack'
    <3>1. PICK state \in {"pending", "success"} :
            /\ refunds' = Append(refunds, [amt |-> plan[w].amt, state |-> state])
            /\ \E resp \in {state, "failed"} : Answer(w, resp, Len(refunds) + 1)
      BY <1>11 DEF GwRefundOpens
    <3>2. PICK resp \in {state, "failed"} : Answer(w, resp, Len(refunds) + 1)
      BY <3>1
    <3> DEFINE r == [amt |-> plan[w].amt, state |-> state]
    <3>3. /\ Len(refunds) + 1 \in DOMAIN refunds'
          /\ refunds'[Len(refunds) + 1] = r
      <4>1. refunds \in Seq(Refunds) /\ r \in Refunds
        BY <1>0 DEF TypeOK, GatewayTypeOK, Plans, Refunds
      <4>2. /\ refunds' \in Seq(Refunds)
            /\ Len(refunds') = Len(refunds) + 1
            /\ refunds'[Len(refunds) + 1] = r
        BY <3>1, <4>1, AppendProperties
      <4> QED
        BY <4>1, <4>2
    <3>4. pc'[w] = "markOk" => PaidBack(plan[w].amt)'
      <4>1. plan'[w].amt = plan[w].amt
        BY <1>0, <3>2 DEF Answer, SetPlan, Plans
      <4>2. pc'[w] = "markOk" => state = "success"
        BY <1>0, <3>2 DEF Answer, Goto, AfterAnswer
      <4> QED
        BY <3>3, <4>1, <4>2 DEF PaidBack
    <3> QED
      <4>1. \A u \in Workers : u # w => pc'[u] = pc[u] /\ plan'[u] = plan[u]
        BY <3>2 DEF Answer, Goto, SetPlan
      <4> QED
        BY <1>11, <1>p, <3>4, <4>1
        DEF GwRefundOpens, RefundInv, SuccessMeansPaidBack
  <2>4. RefundedMeansPaidBack'
    BY <1>11, <1>0, <1>p
    DEF GwRefundOpens, RefundInv, SuccessMeansPaidBack, RefundedMeansPaidBack,
        Settled
  <2> QED
    BY <2>1, <2>2, <2>3, <2>4 DEF RefundInv
<1>12. ASSUME NEW w \in Workers, GwRefundRepeats(w) PROVE RefundInv'
  <2>1. NoQueryRunning'
    BY <1>12, <1>0
    DEF GwRefundRepeats, Answer, AfterAnswer, RefundInv, NoQueryRunning,
        QuerySteps
  <2>2. ExclusiveRefund'
    BY <1>12, <1>0
    DEF GwRefundRepeats, Answer, AfterAnswer, RefundInv, ExclusiveRefund,
        RefundSteps, Refundable
  <2>3. SuccessMeansPaidBack'
    <3>1. PICK i \in Repeats(plan[w].amt), resp \in {"pending", "success"} :
            /\ resp = "success" => refunds[i].state = "success"
            /\ Answer(w, resp, i)
      BY <1>12 DEF GwRefundRepeats
    <3>2. Answer(w, resp, i)
      BY <3>1
    <3>3. i \in DOMAIN refunds /\ refunds[i].amt = plan[w].amt
      BY <3>1 DEF Repeats
    <3>4. pc'[w] = "markOk" => PaidBack(plan[w].amt)'
      <4>1. plan'[w].amt = plan[w].amt
        BY <1>0, <3>2 DEF Answer, SetPlan, Plans
      <4>2. pc'[w] = "markOk" => refunds[i].state = "success"
        BY <1>0, <3>1 DEF Answer, Goto, AfterAnswer
      <4> QED
        BY <1>12, <3>3, <4>1, <4>2 DEF GwRefundRepeats, PaidBack
    <3> QED
      <4>1. \A u \in Workers : u # w => pc'[u] = pc[u] /\ plan'[u] = plan[u]
        BY <3>2 DEF Answer, Goto, SetPlan
      <4> QED
        BY <1>12, <1>p, <3>4, <4>1
        DEF GwRefundRepeats, RefundInv, SuccessMeansPaidBack
  <2>4. RefundedMeansPaidBack'
    BY <1>12, <1>0, <1>p
    DEF GwRefundRepeats, RefundInv, SuccessMeansPaidBack,
        RefundedMeansPaidBack, Settled
  <2> QED
    BY <2>1, <2>2, <2>3, <2>4 DEF RefundInv
<1>13. ASSUME NEW w \in Workers, GwRefundSkipped(w) PROVE RefundInv'
  <2>1. NoQueryRunning'
    BY <1>13, <1>0
    DEF GwRefundSkipped, Answer, AfterAnswer, RefundInv, NoQueryRunning,
        QuerySteps
  <2>2. ExclusiveRefund'
    BY <1>13, <1>0
    DEF GwRefundSkipped, Answer, AfterAnswer, RefundInv, ExclusiveRefund,
        RefundSteps, Refundable
  <2>3. SuccessMeansPaidBack'
    BY <1>13, <1>0, <1>p
    DEF GwRefundSkipped, Answer, AfterAnswer, RefundInv, SuccessMeansPaidBack
  <2>4. RefundedMeansPaidBack'
    BY <1>13, <1>0, <1>p
    DEF GwRefundSkipped, RefundInv, SuccessMeansPaidBack,
        RefundedMeansPaidBack, Settled
  <2> QED
    BY <2>1, <2>2, <2>3, <2>4 DEF RefundInv
<1>14. ASSUME NEW w \in Workers, RollbackRefund(w) PROVE RefundInv'
  <2>1. NoQueryRunning'
    BY <1>14, <1>0
    DEF RollbackRefund, AfterRollback, RefundInv, NoQueryRunning, QuerySteps
  <2>2. ExclusiveRefund'
    BY <1>14, <1>0
    DEF RollbackRefund, AfterRollback, RefundInv, ExclusiveRefund, RefundSteps,
        Refundable
  <2>3. SuccessMeansPaidBack'
    BY <1>14, <1>0, <1>p
    DEF RollbackRefund, AfterRollback, RefundInv, SuccessMeansPaidBack
  <2>4. RefundedMeansPaidBack'
    BY <1>14, <1>0, <1>p
    DEF RollbackRefund, RefundInv, SuccessMeansPaidBack, RefundedMeansPaidBack,
        Settled
  <2> QED
    BY <2>1, <2>2, <2>3, <2>4 DEF RefundInv
<1>15. ASSUME NEW w \in Workers, RecordRollbackFailure(w) PROVE RefundInv'
  <2>1. NoQueryRunning'
    BY <1>15, <1>0
    DEF RecordRollbackFailure, AfterRollback, RefundInv, NoQueryRunning,
        QuerySteps
  <2>2. ExclusiveRefund'
    BY <1>15, <1>0
    DEF RecordRollbackFailure, AfterRollback, RefundInv, ExclusiveRefund,
        RefundSteps, Refundable
  <2>3. SuccessMeansPaidBack'
    BY <1>15, <1>0, <1>p
    DEF RecordRollbackFailure, AfterRollback, RefundInv, SuccessMeansPaidBack
  <2>4. RefundedMeansPaidBack'
    BY <1>15, <1>0, <1>p
    DEF RecordRollbackFailure, RefundInv, SuccessMeansPaidBack,
        RefundedMeansPaidBack, Settled
  <2> QED
    BY <2>1, <2>2, <2>3, <2>4 DEF RefundInv
<1>16. ASSUME NEW w \in Workers, RestoreStatus(w) PROVE RefundInv'
  <2>1. NoQueryRunning'
    BY <1>16, <1>0 DEF RestoreStatus, RefundInv, NoQueryRunning, QuerySteps
  <2>2. ExclusiveRefund'
    BY <1>16, <1>0
    DEF RestoreStatus, RefundInv, ExclusiveRefund, RefundSteps, Refundable
  <2>3. SuccessMeansPaidBack'
    BY <1>16, <1>0, <1>p DEF RestoreStatus, RefundInv, SuccessMeansPaidBack
  <2>4. RefundedMeansPaidBack'
    BY <1>16, <1>0, <1>p
    DEF RestoreStatus, RefundInv, SuccessMeansPaidBack, RefundedMeansPaidBack,
        Settled
  <2> QED
    BY <2>1, <2>2, <2>3, <2>4 DEF RefundInv
<1>17. ASSUME NEW w \in Workers, MarkRefundFailed(w) PROVE RefundInv'
  <2>1. NoQueryRunning'
    BY <1>17, <1>0 DEF MarkRefundFailed, RefundInv, NoQueryRunning, QuerySteps
  <2>2. ExclusiveRefund'
    BY <1>17, <1>0
    DEF MarkRefundFailed, RefundInv, ExclusiveRefund, RefundSteps, Refundable
  <2>3. SuccessMeansPaidBack'
    BY <1>17, <1>0, <1>p DEF MarkRefundFailed, RefundInv, SuccessMeansPaidBack
  <2>4. RefundedMeansPaidBack'
    BY <1>17, <1>0, <1>p
    DEF MarkRefundFailed, RefundInv, SuccessMeansPaidBack,
        RefundedMeansPaidBack, Settled
  <2> QED
    BY <2>1, <2>2, <2>3, <2>4 DEF RefundInv
<1>18. ASSUME NEW w \in Workers, MarkRefundOk(w) PROVE RefundInv'
  <2>1. NoQueryRunning'
    BY <1>18, <1>0
    DEF MarkRefundOk, SettledStatus, RefundInv, NoQueryRunning, QuerySteps
  <2>2. ExclusiveRefund'
    BY <1>18, <1>0
    DEF MarkRefundOk, SettledStatus, RefundInv, ExclusiveRefund, RefundSteps,
        Refundable
  <2>3. SuccessMeansPaidBack'
    BY <1>18, <1>0, <1>p
    DEF MarkRefundOk, SettledStatus, RefundInv, SuccessMeansPaidBack
  <2>4. RefundedMeansPaidBack'
    BY <1>18, <1>0, <1>p
    DEF MarkRefundOk, RefundInv, SuccessMeansPaidBack, RefundedMeansPaidBack,
        Settled, SettledStatus
  <2> QED
    BY <2>1, <2>2, <2>3, <2>4 DEF RefundInv
<1>19. ASSUME NEW w \in Workers, AuditRefundOk(w) PROVE RefundInv'
  <2>1. NoQueryRunning'
    BY <1>19, <1>0 DEF AuditRefundOk, RefundInv, NoQueryRunning, QuerySteps
  <2>2. ExclusiveRefund'
    BY <1>19, <1>0
    DEF AuditRefundOk, RefundInv, ExclusiveRefund, RefundSteps, Refundable
  <2>3. SuccessMeansPaidBack'
    BY <1>19, <1>0, <1>p DEF AuditRefundOk, RefundInv, SuccessMeansPaidBack
  <2>4. RefundedMeansPaidBack'
    BY <1>19, <1>0, <1>p
    DEF AuditRefundOk, RefundInv, SuccessMeansPaidBack, RefundedMeansPaidBack,
        Settled
  <2> QED
    BY <2>1, <2>2, <2>3, <2>4 DEF RefundInv
<1>20. ASSUME NEW w \in Workers, MarkRefundPending(w) PROVE RefundInv'
  <2>1. NoQueryRunning'
    BY <1>20, <1>0 DEF MarkRefundPending, RefundInv, NoQueryRunning, QuerySteps
  <2>2. ExclusiveRefund'
    BY <1>20, <1>0
    DEF MarkRefundPending, RefundInv, ExclusiveRefund, RefundSteps, Refundable
  <2>3. SuccessMeansPaidBack'
    BY <1>20, <1>0, <1>p DEF MarkRefundPending, RefundInv, SuccessMeansPaidBack
  <2>4. RefundedMeansPaidBack'
    BY <1>20, <1>0, <1>p
    DEF MarkRefundPending, RefundInv, SuccessMeansPaidBack,
        RefundedMeansPaidBack, Settled
  <2> QED
    BY <2>1, <2>2, <2>3, <2>4 DEF RefundInv
<1>21. ASSUME NEW w \in Workers, AuditRefundPending(w) PROVE RefundInv'
  <2>1. NoQueryRunning'
    BY <1>21, <1>0
    DEF AuditRefundPending, RefundInv, NoQueryRunning, QuerySteps
  <2>2. ExclusiveRefund'
    BY <1>21, <1>0
    DEF AuditRefundPending, RefundInv, ExclusiveRefund, RefundSteps, Refundable
  <2>3. SuccessMeansPaidBack'
    BY <1>21, <1>0, <1>p
    DEF AuditRefundPending, RefundInv, SuccessMeansPaidBack
  <2>4. RefundedMeansPaidBack'
    BY <1>21, <1>0, <1>p
    DEF AuditRefundPending, RefundInv, SuccessMeansPaidBack,
        RefundedMeansPaidBack, Settled
  <2> QED
    BY <2>1, <2>2, <2>3, <2>4 DEF RefundInv
<1>22. ASSUME NEW w \in Workers, LatestRefundPendingDetail(w) PROVE RefundInv'
  BY <1>22 DEF LatestRefundPendingDetail, RefundInv, NoQueryRunning, QuerySteps
<1>23. ASSUME NEW w \in Workers, QueryRefund(w) PROVE RefundInv'
  BY <1>23 DEF QueryRefund, RefundInv, NoQueryRunning, QuerySteps
<1>24. ASSUME NEW w \in Workers, QueryRefundFails(w) PROVE RefundInv'
  BY <1>24 DEF QueryRefundFails, RefundInv, NoQueryRunning, QuerySteps
<1>25. ASSUME NEW w \in Workers, FinalizePendingRefundSuccess(w) PROVE RefundInv'
  BY <1>25
  DEF FinalizePendingRefundSuccess, RefundInv, NoQueryRunning, QuerySteps
<1>26. ASSUME NEW w \in Workers, FinalizeRefundFailed(w) PROVE RefundInv'
  BY <1>26 DEF FinalizeRefundFailed, RefundInv, NoQueryRunning, QuerySteps
<1>27. ASSUME NEW w \in Workers, StatementFails(w) PROVE RefundInv'
  <2>1. NoQueryRunning'
    BY <1>27, <1>0
    DEF StatementFails, AfterError, AfterRollback, RefundInv, NoQueryRunning,
        QuerySteps
  <2>2. ExclusiveRefund'
    BY <1>27, <1>0
    DEF StatementFails, AfterError, AfterRollback, RefundInv, ExclusiveRefund,
        RefundSteps, Refundable
  <2>3. SuccessMeansPaidBack'
    BY <1>27, <1>0, <1>p
    DEF StatementFails, AfterError, AfterRollback, RefundInv,
        SuccessMeansPaidBack
  <2>4. RefundedMeansPaidBack'
    BY <1>27, <1>0, <1>p
    DEF StatementFails, RefundInv, SuccessMeansPaidBack, RefundedMeansPaidBack,
        Settled
  <2> QED
    BY <2>1, <2>2, <2>3, <2>4 DEF RefundInv
<1>28. ASSUME NEW w \in Workers, Crash(w) PROVE RefundInv'
  <2>1. NoQueryRunning'
    BY <1>28, <1>0 DEF Crash, RefundInv, NoQueryRunning, QuerySteps
  <2>2. ExclusiveRefund'
    BY <1>28, <1>0
    DEF Crash, RefundInv, ExclusiveRefund, RefundSteps, Refundable
  <2>3. SuccessMeansPaidBack'
    BY <1>28, <1>0, <1>p DEF Crash, RefundInv, SuccessMeansPaidBack
  <2>4. RefundedMeansPaidBack'
    BY <1>28, <1>0, <1>p
    DEF Crash, RefundInv, SuccessMeansPaidBack, RefundedMeansPaidBack, Settled
  <2> QED
    BY <2>1, <2>2, <2>3, <2>4 DEF RefundInv
<1> QED
  BY <1>1, <1>2, <1>3, <1>4, <1>5, <1>6, <1>7, <1>8, <1>9, <1>10, <1>11,
     <1>12, <1>13, <1>14, <1>15, <1>16, <1>17, <1>18, <1>19, <1>20, <1>21,
     <1>22, <1>23, <1>24, <1>25, <1>26, <1>27, <1>28
  DEF Next, CallStep

LEMMA RefundInvariant ==
    ASSUME "query" \notin Ops
    PROVE  Spec => [](TypeOK /\ RefundInv)
<1>1. Init => TypeOK /\ RefundInv
  BY InitType, InitRefundInv
<1>2. TypeOK /\ RefundInv /\ [Next]_vars => (TypeOK /\ RefundInv)'
  BY TypeStep, RefundStep
<1> QED
  BY <1>1, <1>2, PTL DEF Spec

\* However many refunds of an order run at once, the conditional update of
\* ExecuteRefund lets one of them through, and it keeps the order until its
\* last write of the row.
THEOREM OneRefundAtATime ==
    ASSUME "query" \notin Ops
    PROVE  Spec => []ExclusiveRefund
<1>1. RefundInv => ExclusiveRefund
  BY DEF RefundInv
<1> QED
  BY <1>1, RefundInvariant, PTL

\* An order that ExecuteRefund marks refunded was paid back by the gateway, in
\* the amount the row states, whatever answers were lost or repeated before.
THEOREM RefundedPaidBack ==
    ASSUME "query" \notin Ops
    PROVE  Spec => []RefundedMeansPaidBack
<1>1. RefundInv => RefundedMeansPaidBack
  BY DEF RefundInv
<1> QED
  BY <1>1, RefundInvariant, PTL

\* None of the unconditional row writes of a refund reaches an order that is
\* refunded already.
THEOREM RefundedStays ==
    ASSUME "query" \notin Ops
    PROVE  Spec => RefundedIsFinal
<1>1. ASSUME TypeOK, RefundInv, [Next]_vars
      PROVE  [(status \in Settled) => UNCHANGED rowVars]_vars
  <2> SUFFICES ASSUME status \in Settled, Next PROVE UNCHANGED rowVars
    BY <1>1
  <2>1. \A w \in Workers : pc[w] \notin RefundSteps \cup QuerySteps
    BY <1>1 DEF RefundInv, ExclusiveRefund, NoQueryRunning, Settled
  <2> QED
    BY <2>1
    DEF Next, CallStep, Spend, RefundSettles, BeginRequest, PrepareRefund, BeginQuery,
        RequestRefund, PrepDeduct, ClaimRefund, CheckRollbackFailed, Deduct, GwRefundFails,
        GwRefundOpens, GwRefundRepeats, GwRefundSkipped, RollbackRefund, RecordRollbackFailure,
        RestoreStatus, MarkRefundFailed, MarkRefundOk, AuditRefundOk, MarkRefundPending,
        AuditRefundPending, LatestRefundPendingDetail, QueryRefund, QueryRefundFails,
        FinalizePendingRefundSuccess, FinalizeRefundFailed, StatementFails, Crash, rowVars,
        Settled, Refundable, RefundSteps, QuerySteps
<1> QED
  BY <1>1, RefundInvariant, PTL DEF Spec, RefundedIsFinal

-----------------------------------------------------------------------------
(* Refunds of one amount, with queries.  When every administrator asks for *)
(* the same amount, a provider that can be queried opens one refund for    *)
(* the order, so a query is about the refund the row means.                *)

\* Statements of a call that has decided on an amount.
AmountSteps == {"prepDeduct", "execute", "auditPending"} \cup QuerySteps \cup RefundSteps

\* The gateway has the one refund that was asked for.
OneRefund ==
    /\ \A i \in DOMAIN refunds : refunds[i].amt \in Amounts
    /\ provider = "keyed" => Len(refunds) <= 1

\* The row of a pending refund and the calls speak of that amount.
OneAmount ==
    /\ status = "REFUND_PENDING" => refundAmount \in Amounts
    /\ \A w \in Workers : pc[w] \in AmountSteps => plan[w].amt \in Amounts

\* The gateway has refused the refund, which is its last word.
Refused == provider = "keyed" /\ \E i \in DOMAIN refunds : refunds[i].state = "failed"

\* What a query knows of the refund when it writes its outcome.
QueryKnows ==
    \A w \in Workers :
        /\ pc[w] \in QuerySteps => provider = "keyed"
        /\ pc[w] = "finalize" => PaidBack(plan[w].amt)
        /\ pc[w] = "finalizeFailed" => Refused

\* A late query of a refused refund reopens the order under a retry, and then
\* refunds overlap; but an order whose refund was refused is never marked
\* refunded.
QueryInv ==
    /\ OneRefund
    /\ OneAmount
    /\ QueryKnows
    /\ Refused \/ ExclusiveRefund
    /\ SuccessMeansPaidBack
    /\ RefundedMeansPaidBack

LEMMA InitQueryInv == Init => QueryInv
<1> SUFFICES ASSUME Init PROVE QueryInv
  OBVIOUS
<1>1. DOMAIN refunds = {} /\ Len(refunds) = 0
  BY DEF Init
<1> QED
  BY <1>1
  DEF Init, QueryInv, OneRefund, OneAmount, QueryKnows, AmountSteps, ExclusiveRefund,
      SuccessMeansPaidBack, RefundedMeansPaidBack, QuerySteps, RefundSteps, Settled

\* The gateway opens no second refund of the amount it knows, and does not
\* change its mind about a refused one.
LEMMA GatewayStep ==
    ASSUME \A a, b \in Amounts : a = b, TypeOK, OneRefund, OneAmount, [Next]_vars
    PROVE  OneRefund' /\ (Refused => Refused')
<1>0. refunds \in Seq(Refunds) /\ DOMAIN refunds = 1..Len(refunds) /\ Len(refunds) \in Nat
  BY DEF TypeOK, GatewayTypeOK
<1>1. CASE UNCHANGED <<provider, refunds>>
  BY <1>1 DEF OneRefund, Refused
<1>2. CASE RefundSettles
  <2>1. PICK j \in DOMAIN refunds, state \in {"success", "failed"} :
          refunds[j].state = "pending" /\ refunds' = [refunds EXCEPT ![j].state = state]
    BY <1>2 DEF RefundSettles
  <2>2. \A i \in DOMAIN refunds : refunds[i] \in Refunds
    BY <1>0, ElementOfSeq
  <2>3. DOMAIN refunds' = DOMAIN refunds /\ UNCHANGED provider
    BY <1>2, <2>1 DEF RefundSettles
  <2>4. \A i \in DOMAIN refunds : /\ refunds'[i].amt = refunds[i].amt
                                  /\ refunds[i].state = "failed" => refunds'[i].state = "failed"
    BY <2>1, <2>2 DEF Refunds
  <2>5. [refunds[j] EXCEPT !.state = state] \in Refunds
    BY <2>1, <2>2 DEF Refunds
  <2>6. Len(refunds') = Len(refunds)
    <3>1. refunds' = [refunds EXCEPT ![j] = [refunds[j] EXCEPT !.state = state]]
      BY <2>1
    <3> QED
      BY <1>0, <2>1, <2>5, <3>1, ExceptSeq
  <2> QED
    BY <2>3, <2>4, <2>6 DEF OneRefund, Refused
<1>3. ASSUME NEW w \in Workers, GwRefundOpens(w) PROVE OneRefund' /\ (Refused => Refused')
  <2>1. PICK state \in {"pending", "success"} :
          refunds' = Append(refunds, [amt |-> plan[w].amt, state |-> state])
    BY <1>3 DEF GwRefundOpens
  <2> DEFINE r == [amt |-> plan[w].amt, state |-> state]
  <2>2. plan[w].amt \in Amounts /\ r \in Refunds
    BY <1>3
    DEF GwRefundOpens, OneAmount, AmountSteps, RefundSteps, TypeOK, CallTypeOK, Plans, Refunds
  <2>3. /\ Len(refunds') = Len(refunds) + 1 /\ DOMAIN refunds' = 1..(Len(refunds) + 1)
        /\ \A i \in 1..Len(refunds) : refunds'[i] = refunds[i]
        /\ refunds'[Len(refunds) + 1] = r
    BY <1>0, <2>1, <2>2, AppendProperties
  <2>4. \A i \in DOMAIN refunds' : refunds'[i].amt \in Amounts
    BY <1>0, <2>2, <2>3 DEF OneRefund
  <2>5. UNCHANGED provider /\ Repeats(plan[w].amt) = {}
    BY <1>3 DEF GwRefundOpens
  <2>6. provider = "keyed" => DOMAIN refunds = {}
    BY <2>2, <2>5 DEF Repeats, OneRefund
  <2>7. provider = "keyed" => Len(refunds) = 0
    BY <1>0, <2>6
  <2> QED
    BY <1>0, <2>3, <2>4, <2>5, <2>6, <2>7 DEF OneRefund, Refused
<1> QED
  BY <1>1, <1>2, <1>3
  DEF Next, CallStep, Spend, BeginRequest, PrepareRefund, BeginQuery, RequestRefund,
      PrepDeduct, ClaimRefund, CheckRollbackFailed, Deduct, GwRefundFails, GwRefundRepeats,
      GwRefundSkipped, RollbackRefund, RecordRollbackFailure, RestoreStatus, MarkRefundFailed,
      MarkRefundOk, AuditRefundOk, MarkRefundPending, AuditRefundPending,
      LatestRefundPendingDetail, QueryRefund, QueryRefundFails, FinalizePendingRefundSuccess,
      FinalizeRefundFailed, StatementFails, Crash, gatewayVars, vars

\* One refund is not both paid back and refused.
LEMMA RefusedNotPaidBack ==
    ASSUME TypeOK, OneRefund, Refused, NEW a
    PROVE  ~PaidBack(a)
  BY DEF TypeOK, GatewayTypeOK, OneRefund, Refused, PaidBack

LEMMA QueryStep ==
    ASSUME \A a, b \in Amounts : a = b, TypeOK, QueryInv, [Next]_vars
    PROVE  QueryInv'
<1>0. pc \in [Workers -> Steps] /\ plan \in [Workers -> Plans]
  BY DEF TypeOK, CallTypeOK
<1>p. \A x : PaidBack(x) => PaidBack(x)'
  BY PaidBackStays
<1>g. OneRefund' /\ (Refused => Refused')
  BY GatewayStep DEF QueryInv
<1>q. QueryInv
  OBVIOUS
<1> USE DEF vars, rowVars, userVars, history, auditVars, gatewayVars, callVars, budgetVars, Goto, Return, SetPlan
<1>1. CASE Spend \/ RefundSettles \/ UNCHANGED vars
  <2>1. UNCHANGED <<rowVars, callVars, provider>>
    BY <1>1 DEF Spend, RefundSettles
  <2> QED
    BY <1>p, <1>g, <1>q, <2>1
    DEF QueryInv, OneAmount, QueryKnows, ExclusiveRefund, SuccessMeansPaidBack,
        RefundedMeansPaidBack
<1>2. ASSUME NEW w \in Workers, BeginRequest(w) PROVE QueryInv'
  <2>1. OneAmount'
    BY <1>2, <1>0, <1>q
    DEF BeginRequest, QueryInv, OneAmount, AmountSteps, QuerySteps,
        RefundSteps, Plans, NoPlan
  <2>2. QueryKnows'
    BY <1>2, <1>0, <1>q, <1>p, <1>g
    DEF BeginRequest, QueryInv, QueryKnows, QuerySteps, Plans
  <2>3. (Refused \/ ExclusiveRefund)'
    BY <1>2, <1>0, <1>q, <1>g
    DEF BeginRequest, QueryInv, ExclusiveRefund, RefundSteps, Refundable
  <2>4. SuccessMeansPaidBack'
    BY <1>2, <1>0, <1>q, <1>p
    DEF BeginRequest, QueryInv, SuccessMeansPaidBack, Plans
  <2>5. RefundedMeansPaidBack'
    BY <1>2, <1>0, <1>q, <1>p
    DEF BeginRequest, QueryInv, QueryKnows, SuccessMeansPaidBack,
        RefundedMeansPaidBack, Settled
  <2> QED
    BY <1>g, <2>1, <2>2, <2>3, <2>4, <2>5 DEF QueryInv
<1>3. ASSUME NEW w \in Workers, PrepareRefund(w) PROVE QueryInv'
  <2>1. OneAmount'
    BY <1>3, <1>0, <1>q
    DEF PrepareRefund, QueryInv, OneAmount, AmountSteps, QuerySteps,
        RefundSteps, Plans, NoPlan
  <2>2. QueryKnows'
    BY <1>3, <1>0, <1>q, <1>p, <1>g
    DEF PrepareRefund, QueryInv, QueryKnows, QuerySteps, Plans
  <2>3. (Refused \/ ExclusiveRefund)'
    BY <1>3, <1>0, <1>q, <1>g
    DEF PrepareRefund, QueryInv, ExclusiveRefund, RefundSteps, Refundable
  <2>4. SuccessMeansPaidBack'
    BY <1>3, <1>0, <1>q, <1>p
    DEF PrepareRefund, QueryInv, SuccessMeansPaidBack, Plans
  <2>5. RefundedMeansPaidBack'
    BY <1>3, <1>0, <1>q, <1>p
    DEF PrepareRefund, QueryInv, QueryKnows, SuccessMeansPaidBack,
        RefundedMeansPaidBack, Settled
  <2> QED
    BY <1>g, <2>1, <2>2, <2>3, <2>4, <2>5 DEF QueryInv
<1>4. ASSUME NEW w \in Workers, BeginQuery(w) PROVE QueryInv'
  <2>1. OneAmount'
    BY <1>4, <1>0, <1>q
    DEF BeginQuery, QueryInv, OneAmount, AmountSteps, QuerySteps, RefundSteps,
        Plans, NoPlan
  <2>2. QueryKnows'
    BY <1>4, <1>0, <1>q, <1>p, <1>g
    DEF BeginQuery, QueryInv, QueryKnows, QuerySteps, Plans, NoPlan
  <2>3. (Refused \/ ExclusiveRefund)'
    BY <1>4, <1>0, <1>q, <1>g
    DEF BeginQuery, QueryInv, ExclusiveRefund, RefundSteps, Refundable
  <2>4. SuccessMeansPaidBack'
    BY <1>4, <1>0, <1>q, <1>p
    DEF BeginQuery, QueryInv, SuccessMeansPaidBack, Plans
  <2>5. RefundedMeansPaidBack'
    BY <1>4, <1>0, <1>q, <1>p
    DEF BeginQuery, QueryInv, QueryKnows, SuccessMeansPaidBack,
        RefundedMeansPaidBack, Settled
  <2> QED
    BY <1>g, <2>1, <2>2, <2>3, <2>4, <2>5 DEF QueryInv
<1>5. ASSUME NEW w \in Workers, RequestRefund(w) PROVE QueryInv'
  <2>1. OneAmount'
    BY <1>5, <1>0, <1>q
    DEF RequestRefund, QueryInv, OneAmount, AmountSteps, QuerySteps,
        RefundSteps, Plans, NoPlan
  <2>2. QueryKnows'
    BY <1>5, <1>0, <1>q, <1>p, <1>g
    DEF RequestRefund, QueryInv, QueryKnows, QuerySteps, Plans
  <2>3. (Refused \/ ExclusiveRefund)'
    BY <1>5, <1>0, <1>q, <1>g
    DEF RequestRefund, QueryInv, ExclusiveRefund, RefundSteps, Refundable
  <2>4. SuccessMeansPaidBack'
    BY <1>5, <1>0, <1>q, <1>p
    DEF RequestRefund, QueryInv, SuccessMeansPaidBack, Plans
  <2>5. RefundedMeansPaidBack'
    BY <1>5, <1>0, <1>q, <1>p
    DEF RequestRefund, QueryInv, QueryKnows, SuccessMeansPaidBack,
        RefundedMeansPaidBack, Settled
  <2> QED
    BY <1>g, <2>1, <2>2, <2>3, <2>4, <2>5 DEF QueryInv
<1>6. ASSUME NEW w \in Workers, PrepDeduct(w) PROVE QueryInv'
  <2>1. OneAmount'
    <3>1. \/ Return(w)
          \/ \E d : /\ SetPlan(w, [plan[w] EXCEPT !.force = FALSE, !.deduct = d])
                   /\ Goto(w, "execute")
      BY <1>6 DEF PrepDeduct
    <3>2. pc[w] = "prepDeduct" /\ UNCHANGED <<status, refundAmount>>
      BY <1>6 DEF PrepDeduct
    <3>3. /\ \/ pc'[w] = "idle"
             \/ pc'[w] = "execute" /\ plan'[w].amt = plan[w].amt
          /\ \A u \in Workers : u # w => pc'[u] = pc[u] /\ plan'[u] = plan[u]
      <4>1. CASE Return(w)
        BY <1>0, <4>1
      <4>2. ASSUME NEW d, SetPlan(w, [plan[w] EXCEPT !.force = FALSE, !.deduct = d]),
                   Goto(w, "execute")
            PROVE  /\ pc'[w] = "execute" /\ plan'[w].amt = plan[w].amt
                   /\ \A u \in Workers : u # w => pc'[u] = pc[u] /\ plan'[u] = plan[u]
        <5>1. plan[w] \in Plans
          BY <1>0
        <5>2. [plan[w] EXCEPT !.force = FALSE, !.deduct = d].amt = plan[w].amt
          BY <5>1 DEF Plans
        <5> QED
          BY <1>0, <4>2, <5>2
      <4> QED
        BY <3>1, <4>1, <4>2
    <3> QED
      BY <1>q, <3>2, <3>3 DEF QueryInv, OneAmount, AmountSteps, QuerySteps, RefundSteps
  <2>2. QueryKnows'
    BY <1>6, <1>0, <1>q, <1>p, <1>g
    DEF PrepDeduct, QueryInv, QueryKnows, QuerySteps, Plans
  <2>3. (Refused \/ ExclusiveRefund)'
    BY <1>6, <1>0, <1>q, <1>g
    DEF PrepDeduct, QueryInv, ExclusiveRefund, RefundSteps, Refundable
  <2>4. SuccessMeansPaidBack'
    BY <1>6, <1>0, <1>q, <1>p
    DEF PrepDeduct, QueryInv, SuccessMeansPaidBack, Plans
  <2>5. RefundedMeansPaidBack'
    BY <1>6, <1>0, <1>q, <1>p
    DEF PrepDeduct, QueryInv, QueryKnows, SuccessMeansPaidBack,
        RefundedMeansPaidBack, Settled
  <2> QED
    BY <1>g, <2>1, <2>2, <2>3, <2>4, <2>5 DEF QueryInv
<1>7. ASSUME NEW w \in Workers, ClaimRefund(w) PROVE QueryInv'
  <2>1. OneAmount'
    BY <1>7, <1>0, <1>q
    DEF ClaimRefund, QueryInv, OneAmount, AmountSteps, QuerySteps, RefundSteps,
        Plans, NoPlan
  <2>2. QueryKnows'
    BY <1>7, <1>0, <1>q, <1>p, <1>g
    DEF ClaimRefund, QueryInv, QueryKnows, QuerySteps, Plans
  <2>3. (Refused \/ ExclusiveRefund)'
    BY <1>7, <1>0, <1>q, <1>g
    DEF ClaimRefund, QueryInv, ExclusiveRefund, RefundSteps, Refundable
  <2>4. SuccessMeansPaidBack'
    BY <1>7, <1>0, <1>q, <1>p
    DEF ClaimRefund, QueryInv, SuccessMeansPaidBack, Plans
  <2>5. RefundedMeansPaidBack'
    BY <1>7, <1>0, <1>q, <1>p
    DEF ClaimRefund, QueryInv, QueryKnows, SuccessMeansPaidBack,
        RefundedMeansPaidBack, Settled
  <2> QED
    BY <1>g, <2>1, <2>2, <2>3, <2>4, <2>5 DEF QueryInv
<1>8. ASSUME NEW w \in Workers, CheckRollbackFailed(w) PROVE QueryInv'
  <2>1. OneAmount'
    BY <1>8, <1>0, <1>q
    DEF CheckRollbackFailed, QueryInv, OneAmount, AmountSteps, QuerySteps,
        RefundSteps, Plans, NoPlan
  <2>2. QueryKnows'
    BY <1>8, <1>0, <1>q, <1>p, <1>g
    DEF CheckRollbackFailed, QueryInv, QueryKnows, QuerySteps, Plans
  <2>3. (Refused \/ ExclusiveRefund)'
    BY <1>8, <1>0, <1>q, <1>g
    DEF CheckRollbackFailed, QueryInv, ExclusiveRefund, RefundSteps, Refundable
  <2>4. SuccessMeansPaidBack'
    BY <1>8, <1>0, <1>q, <1>p
    DEF CheckRollbackFailed, QueryInv, SuccessMeansPaidBack, Plans
  <2>5. RefundedMeansPaidBack'
    BY <1>8, <1>0, <1>q, <1>p
    DEF CheckRollbackFailed, QueryInv, QueryKnows, SuccessMeansPaidBack,
        RefundedMeansPaidBack, Settled
  <2> QED
    BY <1>g, <2>1, <2>2, <2>3, <2>4, <2>5 DEF QueryInv
<1>9. ASSUME NEW w \in Workers, Deduct(w) PROVE QueryInv'
  <2>1. OneAmount'
    BY <1>9, <1>0, <1>q
    DEF Deduct, QueryInv, OneAmount, AmountSteps, QuerySteps, RefundSteps,
        Plans, NoPlan
  <2>2. QueryKnows'
    BY <1>9, <1>0, <1>q, <1>p, <1>g
    DEF Deduct, QueryInv, QueryKnows, QuerySteps, Plans
  <2>3. (Refused \/ ExclusiveRefund)'
    BY <1>9, <1>0, <1>q, <1>g
    DEF Deduct, QueryInv, ExclusiveRefund, RefundSteps, Refundable
  <2>4. SuccessMeansPaidBack'
    BY <1>9, <1>0, <1>q, <1>p DEF Deduct, QueryInv, SuccessMeansPaidBack, Plans
  <2>5. RefundedMeansPaidBack'
    BY <1>9, <1>0, <1>q, <1>p
    DEF Deduct, QueryInv, QueryKnows, SuccessMeansPaidBack,
        RefundedMeansPaidBack, Settled
  <2> QED
    BY <1>g, <2>1, <2>2, <2>3, <2>4, <2>5 DEF QueryInv
<1>10. ASSUME NEW w \in Workers, GwRefundFails(w) PROVE QueryInv'
  <2>1. OneAmount'
    BY <1>10, <1>0, <1>q
    DEF GwRefundFails, Answer, AfterAnswer, QueryInv, OneAmount, AmountSteps,
        QuerySteps, RefundSteps, Plans, NoPlan
  <2>2. QueryKnows'
    BY <1>10, <1>0, <1>q, <1>p, <1>g
    DEF GwRefundFails, Answer, AfterAnswer, QueryInv, QueryKnows, QuerySteps,
        Plans
  <2>3. (Refused \/ ExclusiveRefund)'
    BY <1>10, <1>0, <1>q, <1>g
    DEF GwRefundFails, Answer, AfterAnswer, QueryInv, ExclusiveRefund,
        RefundSteps, Refundable
  <2>4. SuccessMeansPaidBack'
    BY <1>10, <1>0, <1>q, <1>p
    DEF GwRefundFails, Answer, AfterAnswer, QueryInv, SuccessMeansPaidBack,
        Plans
  <2>5. RefundedMeansPaidBack'
    BY <1>10, <1>0, <1>q, <1>p
    DEF GwRefundFails, QueryInv, QueryKnows, SuccessMeansPaidBack,
        RefundedMeansPaidBack, Settled
  <2> QED
    BY <1>g, <2>1, <2>2, <2>3, <2>4, <2>5 DEF QueryInv
<1>11. ASSUME NEW w \in Workers, GwRefundOpens(w) PROVE QueryInv'
  <2>1. OneAmount'
    BY <1>11, <1>0, <1>q
    DEF GwRefundOpens, Answer, AfterAnswer, QueryInv, OneAmount, AmountSteps,
        QuerySteps, RefundSteps, Plans, NoPlan
  <2>2. QueryKnows'
    BY <1>11, <1>0, <1>q, <1>p, <1>g
    DEF GwRefundOpens, Answer, AfterAnswer, QueryInv, QueryKnows, QuerySteps,
        Plans
  <2>3. (Refused \/ ExclusiveRefund)'
    BY <1>11, <1>0, <1>q, <1>g
    DEF GwRefundOpens, Answer, AfterAnswer, QueryInv, ExclusiveRefund,
        RefundSteps, Refundable
  <2>4. SuccessMeansPaidBack'
    <3>1. PICK state \in {"pending", "success"} :
            /\ refunds' = Append(refunds, [amt |-> plan[w].amt, state |-> state])
            /\ \E resp \in {state, "failed"} : Answer(w, resp, Len(refunds) + 1)
      BY <1>11 DEF GwRefundOpens
    <3>2. PICK resp \in {state, "failed"} : Answer(w, resp, Len(refunds) + 1)
      BY <3>1
    <3> DEFINE r == [amt |-> plan[w].amt, state |-> state]
    <3>3. refunds \in Seq(Refunds) /\ r \in Refunds
      BY <1>0 DEF TypeOK, GatewayTypeOK, Plans, Refunds
    <3>4. Len(refunds) + 1 \in DOMAIN refunds' /\ refunds'[Len(refunds) + 1] = r
      BY <3>1, <3>3, AppendProperties
    <3>5. plan'[w].amt = plan[w].amt /\ (pc'[w] = "markOk" => state = "success")
      BY <1>0, <3>2 DEF Answer, AfterAnswer, Plans
    <3>6. pc'[w] = "markOk" => PaidBack(plan[w].amt)'
      BY <3>4, <3>5 DEF PaidBack
    <3>7. \A u \in Workers : u # w => pc'[u] = pc[u] /\ plan'[u] = plan[u]
      BY <3>2 DEF Answer
    <3> QED
      BY <1>11, <1>p, <1>q, <3>6, <3>7 DEF GwRefundOpens, QueryInv, SuccessMeansPaidBack
  <2>5. RefundedMeansPaidBack'
    BY <1>11, <1>0, <1>q, <1>p
    DEF GwRefundOpens, QueryInv, QueryKnows, SuccessMeansPaidBack,
        RefundedMeansPaidBack, Settled
  <2> QED
    BY <1>g, <2>1, <2>2, <2>3, <2>4, <2>5 DEF QueryInv
<1>12. ASSUME NEW w \in Workers, GwRefundRepeats(w) PROVE QueryInv'
  <2>1. OneAmount'
    BY <1>12, <1>0, <1>q
    DEF GwRefundRepeats, Answer, AfterAnswer, QueryInv, OneAmount, AmountSteps,
        QuerySteps, RefundSteps, Plans, NoPlan
  <2>2. QueryKnows'
    BY <1>12, <1>0, <1>q, <1>p, <1>g
    DEF GwRefundRepeats, Answer, AfterAnswer, QueryInv, QueryKnows, QuerySteps,
        Plans
  <2>3. (Refused \/ ExclusiveRefund)'
    BY <1>12, <1>0, <1>q, <1>g
    DEF GwRefundRepeats, Answer, AfterAnswer, QueryInv, ExclusiveRefund,
        RefundSteps, Refundable
  <2>4. SuccessMeansPaidBack'
    <3>1. PICK i \in Repeats(plan[w].amt), resp \in {"pending", "success"} :
            /\ resp = "success" => refunds[i].state = "success"
            /\ Answer(w, resp, i)
      BY <1>12 DEF GwRefundRepeats
    <3>2. i \in DOMAIN refunds /\ refunds[i].amt = plan[w].amt /\ UNCHANGED refunds
      BY <1>12, <3>1 DEF Repeats, GwRefundRepeats
    <3>3. /\ plan'[w].amt = plan[w].amt
          /\ pc'[w] = "markOk" => refunds[i].state = "success"
      BY <1>0, <3>1 DEF Answer, AfterAnswer, Plans
    <3>4. pc'[w] = "markOk" => PaidBack(plan[w].amt)'
      BY <3>2, <3>3 DEF PaidBack
    <3>5. \A u \in Workers : u # w => pc'[u] = pc[u] /\ plan'[u] = plan[u]
      BY <3>1 DEF Answer
    <3> QED
      BY <1>12, <1>p, <1>q, <3>4, <3>5 DEF GwRefundRepeats, QueryInv, SuccessMeansPaidBack
  <2>5. RefundedMeansPaidBack'
    BY <1>12, <1>0, <1>q, <1>p
    DEF GwRefundRepeats, QueryInv, QueryKnows, SuccessMeansPaidBack,
        RefundedMeansPaidBack, Settled
  <2> QED
    BY <1>g, <2>1, <2>2, <2>3, <2>4, <2>5 DEF QueryInv
<1>13. ASSUME NEW w \in Workers, GwRefundSkipped(w) PROVE QueryInv'
  <2>1. OneAmount'
    BY <1>13, <1>0, <1>q
    DEF GwRefundSkipped, Answer, AfterAnswer, QueryInv, OneAmount, AmountSteps,
        QuerySteps, RefundSteps, Plans, NoPlan
  <2>2. QueryKnows'
    BY <1>13, <1>0, <1>q, <1>p, <1>g
    DEF GwRefundSkipped, Answer, AfterAnswer, QueryInv, QueryKnows, QuerySteps,
        Plans
  <2>3. (Refused \/ ExclusiveRefund)'
    BY <1>13, <1>0, <1>q, <1>g
    DEF GwRefundSkipped, Answer, AfterAnswer, QueryInv, ExclusiveRefund,
        RefundSteps, Refundable
  <2>4. SuccessMeansPaidBack'
    BY <1>13, <1>0, <1>q, <1>p
    DEF GwRefundSkipped, Answer, AfterAnswer, QueryInv, SuccessMeansPaidBack,
        Plans
  <2>5. RefundedMeansPaidBack'
    BY <1>13, <1>0, <1>q, <1>p
    DEF GwRefundSkipped, QueryInv, QueryKnows, SuccessMeansPaidBack,
        RefundedMeansPaidBack, Settled
  <2> QED
    BY <1>g, <2>1, <2>2, <2>3, <2>4, <2>5 DEF QueryInv
<1>14. ASSUME NEW w \in Workers, RollbackRefund(w) PROVE QueryInv'
  <2>1. OneAmount'
    BY <1>14, <1>0, <1>q
    DEF RollbackRefund, AfterRollback, QueryInv, OneAmount, AmountSteps,
        QuerySteps, RefundSteps, Plans, NoPlan
  <2>2. QueryKnows'
    BY <1>14, <1>0, <1>q, <1>p, <1>g
    DEF RollbackRefund, AfterRollback, QueryInv, QueryKnows, QuerySteps, Plans
  <2>3. (Refused \/ ExclusiveRefund)'
    BY <1>14, <1>0, <1>q, <1>g
    DEF RollbackRefund, AfterRollback, QueryInv, ExclusiveRefund, RefundSteps,
        Refundable
  <2>4. SuccessMeansPaidBack'
    BY <1>14, <1>0, <1>q, <1>p
    DEF RollbackRefund, AfterRollback, QueryInv, SuccessMeansPaidBack, Plans
  <2>5. RefundedMeansPaidBack'
    BY <1>14, <1>0, <1>q, <1>p
    DEF RollbackRefund, QueryInv, QueryKnows, SuccessMeansPaidBack,
        RefundedMeansPaidBack, Settled
  <2> QED
    BY <1>g, <2>1, <2>2, <2>3, <2>4, <2>5 DEF QueryInv
<1>15. ASSUME NEW w \in Workers, RecordRollbackFailure(w) PROVE QueryInv'
  <2>1. OneAmount'
    BY <1>15, <1>0, <1>q
    DEF RecordRollbackFailure, AfterRollback, QueryInv, OneAmount, AmountSteps,
        QuerySteps, RefundSteps, Plans, NoPlan
  <2>2. QueryKnows'
    BY <1>15, <1>0, <1>q, <1>p, <1>g
    DEF RecordRollbackFailure, AfterRollback, QueryInv, QueryKnows, QuerySteps,
        Plans
  <2>3. (Refused \/ ExclusiveRefund)'
    BY <1>15, <1>0, <1>q, <1>g
    DEF RecordRollbackFailure, AfterRollback, QueryInv, ExclusiveRefund,
        RefundSteps, Refundable
  <2>4. SuccessMeansPaidBack'
    BY <1>15, <1>0, <1>q, <1>p
    DEF RecordRollbackFailure, AfterRollback, QueryInv, SuccessMeansPaidBack,
        Plans
  <2>5. RefundedMeansPaidBack'
    BY <1>15, <1>0, <1>q, <1>p
    DEF RecordRollbackFailure, QueryInv, QueryKnows, SuccessMeansPaidBack,
        RefundedMeansPaidBack, Settled
  <2> QED
    BY <1>g, <2>1, <2>2, <2>3, <2>4, <2>5 DEF QueryInv
<1>16. ASSUME NEW w \in Workers, RestoreStatus(w) PROVE QueryInv'
  <2>1. OneAmount'
    BY <1>16, <1>0, <1>q
    DEF RestoreStatus, QueryInv, OneAmount, AmountSteps, QuerySteps,
        RefundSteps, Plans, NoPlan
  <2>2. QueryKnows'
    BY <1>16, <1>0, <1>q, <1>p, <1>g
    DEF RestoreStatus, QueryInv, QueryKnows, QuerySteps, Plans
  <2>3. (Refused \/ ExclusiveRefund)'
    BY <1>16, <1>0, <1>q, <1>g
    DEF RestoreStatus, QueryInv, ExclusiveRefund, RefundSteps, Refundable
  <2>4. SuccessMeansPaidBack'
    BY <1>16, <1>0, <1>q, <1>p
    DEF RestoreStatus, QueryInv, SuccessMeansPaidBack, Plans
  <2>5. RefundedMeansPaidBack'
    BY <1>16, <1>0, <1>q, <1>p
    DEF RestoreStatus, QueryInv, QueryKnows, SuccessMeansPaidBack,
        RefundedMeansPaidBack, Settled
  <2> QED
    BY <1>g, <2>1, <2>2, <2>3, <2>4, <2>5 DEF QueryInv
<1>17. ASSUME NEW w \in Workers, MarkRefundFailed(w) PROVE QueryInv'
  <2>1. OneAmount'
    BY <1>17, <1>0, <1>q
    DEF MarkRefundFailed, QueryInv, OneAmount, AmountSteps, QuerySteps,
        RefundSteps, Plans, NoPlan
  <2>2. QueryKnows'
    BY <1>17, <1>0, <1>q, <1>p, <1>g
    DEF MarkRefundFailed, QueryInv, QueryKnows, QuerySteps, Plans
  <2>3. (Refused \/ ExclusiveRefund)'
    BY <1>17, <1>0, <1>q, <1>g
    DEF MarkRefundFailed, QueryInv, ExclusiveRefund, RefundSteps, Refundable
  <2>4. SuccessMeansPaidBack'
    BY <1>17, <1>0, <1>q, <1>p
    DEF MarkRefundFailed, QueryInv, SuccessMeansPaidBack, Plans
  <2>5. RefundedMeansPaidBack'
    BY <1>17, <1>0, <1>q, <1>p
    DEF MarkRefundFailed, QueryInv, QueryKnows, SuccessMeansPaidBack,
        RefundedMeansPaidBack, Settled
  <2> QED
    BY <1>g, <2>1, <2>2, <2>3, <2>4, <2>5 DEF QueryInv
<1>18. ASSUME NEW w \in Workers, MarkRefundOk(w) PROVE QueryInv'
  <2>1. OneAmount'
    BY <1>18, <1>0, <1>q
    DEF MarkRefundOk, SettledStatus, QueryInv, OneAmount, AmountSteps,
        QuerySteps, RefundSteps, Plans, NoPlan, Settled
  <2>2. QueryKnows'
    BY <1>18, <1>0, <1>q, <1>p, <1>g
    DEF MarkRefundOk, SettledStatus, QueryInv, QueryKnows, QuerySteps, Plans
  <2>3. (Refused \/ ExclusiveRefund)'
    BY <1>18, <1>0, <1>q, <1>g
    DEF MarkRefundOk, SettledStatus, QueryInv, ExclusiveRefund, RefundSteps,
        Refundable
  <2>4. SuccessMeansPaidBack'
    BY <1>18, <1>0, <1>q, <1>p
    DEF MarkRefundOk, SettledStatus, QueryInv, SuccessMeansPaidBack, Plans
  <2>5. RefundedMeansPaidBack'
    BY <1>18, <1>0, <1>q, <1>p
    DEF MarkRefundOk, SettledStatus, QueryInv, QueryKnows,
        SuccessMeansPaidBack, RefundedMeansPaidBack, Settled
  <2> QED
    BY <1>g, <2>1, <2>2, <2>3, <2>4, <2>5 DEF QueryInv
<1>19. ASSUME NEW w \in Workers, AuditRefundOk(w) PROVE QueryInv'
  <2>1. OneAmount'
    BY <1>19, <1>0, <1>q
    DEF AuditRefundOk, QueryInv, OneAmount, AmountSteps, QuerySteps,
        RefundSteps, Plans, NoPlan
  <2>2. QueryKnows'
    BY <1>19, <1>0, <1>q, <1>p, <1>g
    DEF AuditRefundOk, QueryInv, QueryKnows, QuerySteps, Plans
  <2>3. (Refused \/ ExclusiveRefund)'
    BY <1>19, <1>0, <1>q, <1>g
    DEF AuditRefundOk, QueryInv, ExclusiveRefund, RefundSteps, Refundable
  <2>4. SuccessMeansPaidBack'
    BY <1>19, <1>0, <1>q, <1>p
    DEF AuditRefundOk, QueryInv, SuccessMeansPaidBack, Plans
  <2>5. RefundedMeansPaidBack'
    BY <1>19, <1>0, <1>q, <1>p
    DEF AuditRefundOk, QueryInv, QueryKnows, SuccessMeansPaidBack,
        RefundedMeansPaidBack, Settled
  <2> QED
    BY <1>g, <2>1, <2>2, <2>3, <2>4, <2>5 DEF QueryInv
<1>20. ASSUME NEW w \in Workers, MarkRefundPending(w) PROVE QueryInv'
  <2>1. OneAmount'
    BY <1>20, <1>0, <1>q
    DEF MarkRefundPending, QueryInv, OneAmount, AmountSteps, QuerySteps,
        RefundSteps, Plans, NoPlan
  <2>2. QueryKnows'
    BY <1>20, <1>0, <1>q, <1>p, <1>g
    DEF MarkRefundPending, QueryInv, QueryKnows, QuerySteps, Plans
  <2>3. (Refused \/ ExclusiveRefund)'
    BY <1>20, <1>0, <1>q, <1>g
    DEF MarkRefundPending, QueryInv, ExclusiveRefund, RefundSteps, Refundable
  <2>4. SuccessMeansPaidBack'
    BY <1>20, <1>0, <1>q, <1>p
    DEF MarkRefundPending, QueryInv, SuccessMeansPaidBack, Plans
  <2>5. RefundedMeansPaidBack'
    BY <1>20, <1>0, <1>q, <1>p
    DEF MarkRefundPending, QueryInv, QueryKnows, SuccessMeansPaidBack,
        RefundedMeansPaidBack, Settled
  <2> QED
    BY <1>g, <2>1, <2>2, <2>3, <2>4, <2>5 DEF QueryInv
<1>21. ASSUME NEW w \in Workers, AuditRefundPending(w) PROVE QueryInv'
  <2>1. OneAmount'
    BY <1>21, <1>0, <1>q
    DEF AuditRefundPending, QueryInv, OneAmount, AmountSteps, QuerySteps,
        RefundSteps, Plans, NoPlan
  <2>2. QueryKnows'
    BY <1>21, <1>0, <1>q, <1>p, <1>g
    DEF AuditRefundPending, QueryInv, QueryKnows, QuerySteps, Plans
  <2>3. (Refused \/ ExclusiveRefund)'
    BY <1>21, <1>0, <1>q, <1>g
    DEF AuditRefundPending, QueryInv, ExclusiveRefund, RefundSteps, Refundable
  <2>4. SuccessMeansPaidBack'
    BY <1>21, <1>0, <1>q, <1>p
    DEF AuditRefundPending, QueryInv, SuccessMeansPaidBack, Plans
  <2>5. RefundedMeansPaidBack'
    BY <1>21, <1>0, <1>q, <1>p
    DEF AuditRefundPending, QueryInv, QueryKnows, SuccessMeansPaidBack,
        RefundedMeansPaidBack, Settled
  <2> QED
    BY <1>g, <2>1, <2>2, <2>3, <2>4, <2>5 DEF QueryInv
<1>22. ASSUME NEW w \in Workers, LatestRefundPendingDetail(w) PROVE QueryInv'
  <2>1. OneAmount'
    BY <1>22, <1>0, <1>q
    DEF LatestRefundPendingDetail, QueryInv, OneAmount, AmountSteps,
        QuerySteps, RefundSteps, Plans, NoPlan
  <2>2. QueryKnows'
    BY <1>22, <1>0, <1>q, <1>p, <1>g
    DEF LatestRefundPendingDetail, QueryInv, QueryKnows, QuerySteps, Plans
  <2>3. (Refused \/ ExclusiveRefund)'
    BY <1>22, <1>0, <1>q, <1>g
    DEF LatestRefundPendingDetail, QueryInv, ExclusiveRefund, RefundSteps,
        Refundable
  <2>4. SuccessMeansPaidBack'
    BY <1>22, <1>0, <1>q, <1>p
    DEF LatestRefundPendingDetail, QueryInv, SuccessMeansPaidBack, Plans
  <2>5. RefundedMeansPaidBack'
    BY <1>22, <1>0, <1>q, <1>p
    DEF LatestRefundPendingDetail, QueryInv, QueryKnows, SuccessMeansPaidBack,
        RefundedMeansPaidBack, Settled
  <2> QED
    BY <1>g, <2>1, <2>2, <2>3, <2>4, <2>5 DEF QueryInv
<1>23. ASSUME NEW w \in Workers, QueryRefund(w) PROVE QueryInv'
  <2>a. PICK i \in Queried(w) :
          LET step == AfterQuery(refunds[i].state)
          IN IF step = "idle" THEN Return(w) ELSE Goto(w, step) /\ UNCHANGED plan
    BY <1>23 DEF QueryRefund
  <2>b. /\ pc[w] = "ask" /\ provider = "keyed" /\ plan[w].amt \in Amounts
        /\ UNCHANGED <<status, refundAmount, provider, refunds>>
    BY <1>23, <1>q
    DEF QueryRefund, QueryInv, QueryKnows, QuerySteps, OneAmount, AmountSteps
  <2>c. i \in DOMAIN refunds /\ refunds[i].amt = plan[w].amt
    BY <1>q, <2>a, <2>b DEF Queried, QueryInv, OneRefund
  <2>d. refunds[i].state \in {"pending", "success", "failed"}
    <3>1. refunds \in Seq(Refunds) /\ i \in 1..Len(refunds)
      BY <2>c DEF TypeOK, GatewayTypeOK
    <3>2. refunds[i] \in Refunds
      BY <3>1, ElementOfSeq
    <3> QED
      BY <3>2 DEF Refunds
  <2>e. \/ Return(w)
        \/ refunds[i].state = "success" /\ Goto(w, "finalize") /\ UNCHANGED plan
        \/ refunds[i].state = "failed" /\ Goto(w, "finalizeFailed") /\ UNCHANGED plan
    <3>1. CASE refunds[i].state = "pending"
      BY <2>a, <3>1 DEF AfterQuery
    <3>2. CASE refunds[i].state = "success"
      BY <2>a, <3>2 DEF AfterQuery
    <3>3. CASE refunds[i].state = "failed"
      BY <2>a, <3>3 DEF AfterQuery
    <3> QED
      BY <2>d, <3>1, <3>2, <3>3
  <2>1. OneAmount'
    BY <1>0, <1>q, <2>b, <2>e
    DEF QueryInv, OneAmount, AmountSteps, QuerySteps, RefundSteps
  <2>2. QueryKnows'
    <3>1. \A u \in Workers : u # w => pc'[u] = pc[u] /\ plan'[u] = plan[u]
      BY <1>0, <2>e
    <3>2. pc'[w] = "finalize" => PaidBack(plan[w].amt)'
      BY <1>0, <2>b, <2>c, <2>e DEF PaidBack
    <3>3. pc'[w] = "finalizeFailed" => Refused'
      BY <1>0, <2>b, <2>c, <2>e DEF Refused
    <3> QED
      BY <1>p, <1>g, <1>q, <2>b, <3>1, <3>2, <3>3 DEF QueryInv, QueryKnows
  <2>3. (Refused \/ ExclusiveRefund)'
    BY <1>0, <1>q, <1>g, <2>b, <2>e DEF QueryInv, ExclusiveRefund, RefundSteps
  <2>4. SuccessMeansPaidBack'
    BY <1>0, <1>q, <1>p, <2>b, <2>e DEF QueryInv, SuccessMeansPaidBack
  <2>5. RefundedMeansPaidBack'
    BY <1>23, <1>0, <1>q, <1>p
    DEF QueryRefund, QueryInv, QueryKnows, SuccessMeansPaidBack,
        RefundedMeansPaidBack, Settled
  <2> QED
    BY <1>g, <2>1, <2>2, <2>3, <2>4, <2>5 DEF QueryInv
<1>24. ASSUME NEW w \in Workers, QueryRefundFails(w) PROVE QueryInv'
  <2>1. OneAmount'
    BY <1>24, <1>0, <1>q
    DEF QueryRefundFails, QueryInv, OneAmount, AmountSteps, QuerySteps,
        RefundSteps, Plans, NoPlan
  <2>2. QueryKnows'
    BY <1>24, <1>0, <1>q, <1>p, <1>g
    DEF QueryRefundFails, QueryInv, QueryKnows, QuerySteps, Plans
  <2>3. (Refused \/ ExclusiveRefund)'
    BY <1>24, <1>0, <1>q, <1>g
    DEF QueryRefundFails, QueryInv, ExclusiveRefund, RefundSteps, Refundable
  <2>4. SuccessMeansPaidBack'
    BY <1>24, <1>0, <1>q, <1>p
    DEF QueryRefundFails, QueryInv, SuccessMeansPaidBack, Plans
  <2>5. RefundedMeansPaidBack'
    BY <1>24, <1>0, <1>q, <1>p
    DEF QueryRefundFails, QueryInv, QueryKnows, SuccessMeansPaidBack,
        RefundedMeansPaidBack, Settled
  <2> QED
    BY <1>g, <2>1, <2>2, <2>3, <2>4, <2>5 DEF QueryInv
<1>25. ASSUME NEW w \in Workers, FinalizePendingRefundSuccess(w) PROVE QueryInv'
  <2>1. OneAmount'
    BY <1>25, <1>0, <1>q
    DEF FinalizePendingRefundSuccess, SettledStatus, QueryInv, OneAmount,
        AmountSteps, QuerySteps, RefundSteps, Plans, NoPlan, Settled
  <2>2. QueryKnows'
    BY <1>25, <1>0, <1>q, <1>p, <1>g
    DEF FinalizePendingRefundSuccess, SettledStatus, QueryInv, QueryKnows,
        QuerySteps, Plans
  <2>3. (Refused \/ ExclusiveRefund)'
    BY <1>25, <1>0, <1>q, <1>g
    DEF FinalizePendingRefundSuccess, SettledStatus, QueryInv, ExclusiveRefund,
        RefundSteps, Refundable
  <2>4. SuccessMeansPaidBack'
    BY <1>25, <1>0, <1>q, <1>p
    DEF FinalizePendingRefundSuccess, SettledStatus, QueryInv,
        SuccessMeansPaidBack, Plans
  <2>5. RefundedMeansPaidBack'
    BY <1>25, <1>0, <1>q, <1>p
    DEF FinalizePendingRefundSuccess, SettledStatus, QueryInv, QueryKnows,
        SuccessMeansPaidBack, RefundedMeansPaidBack, Settled
  <2> QED
    BY <1>g, <2>1, <2>2, <2>3, <2>4, <2>5 DEF QueryInv
<1>26. ASSUME NEW w \in Workers, FinalizeRefundFailed(w) PROVE QueryInv'
  <2>1. OneAmount'
    BY <1>26, <1>0, <1>q
    DEF FinalizeRefundFailed, QueryInv, OneAmount, AmountSteps, QuerySteps,
        RefundSteps, Plans, NoPlan
  <2>2. QueryKnows'
    BY <1>26, <1>0, <1>q, <1>p, <1>g
    DEF FinalizeRefundFailed, QueryInv, QueryKnows, QuerySteps, Plans
  <2>3. (Refused \/ ExclusiveRefund)'
    BY <1>26, <1>0, <1>q, <1>g
    DEF FinalizeRefundFailed, QueryInv, QueryKnows, ExclusiveRefund,
        RefundSteps, Refundable
  <2>4. SuccessMeansPaidBack'
    BY <1>26, <1>0, <1>q, <1>p
    DEF FinalizeRefundFailed, QueryInv, SuccessMeansPaidBack, Plans
  <2>5. RefundedMeansPaidBack'
    BY <1>26, <1>0, <1>q, <1>p
    DEF FinalizeRefundFailed, QueryInv, QueryKnows, SuccessMeansPaidBack,
        RefundedMeansPaidBack, Settled
  <2> QED
    BY <1>g, <2>1, <2>2, <2>3, <2>4, <2>5 DEF QueryInv
<1>27. ASSUME NEW w \in Workers, StatementFails(w) PROVE QueryInv'
  <2>1. OneAmount'
    BY <1>27, <1>0, <1>q
    DEF StatementFails, AfterError, AfterRollback, QueryInv, OneAmount,
        AmountSteps, QuerySteps, RefundSteps, Plans, NoPlan
  <2>2. QueryKnows'
    BY <1>27, <1>0, <1>q, <1>p, <1>g
    DEF StatementFails, AfterError, AfterRollback, QueryInv, QueryKnows,
        QuerySteps, Plans
  <2>3. (Refused \/ ExclusiveRefund)'
    BY <1>27, <1>0, <1>q, <1>g
    DEF StatementFails, AfterError, AfterRollback, QueryInv, ExclusiveRefund,
        RefundSteps, Refundable
  <2>4. SuccessMeansPaidBack'
    BY <1>27, <1>0, <1>q, <1>p
    DEF StatementFails, AfterError, AfterRollback, QueryInv,
        SuccessMeansPaidBack, Plans
  <2>5. RefundedMeansPaidBack'
    BY <1>27, <1>0, <1>q, <1>p
    DEF StatementFails, QueryInv, QueryKnows, SuccessMeansPaidBack,
        RefundedMeansPaidBack, Settled
  <2> QED
    BY <1>g, <2>1, <2>2, <2>3, <2>4, <2>5 DEF QueryInv
<1>28. ASSUME NEW w \in Workers, Crash(w) PROVE QueryInv'
  <2>1. OneAmount'
    BY <1>28, <1>0, <1>q
    DEF Crash, QueryInv, OneAmount, AmountSteps, QuerySteps, RefundSteps,
        Plans, NoPlan
  <2>2. QueryKnows'
    BY <1>28, <1>0, <1>q, <1>p, <1>g
    DEF Crash, QueryInv, QueryKnows, QuerySteps, Plans
  <2>3. (Refused \/ ExclusiveRefund)'
    BY <1>28, <1>0, <1>q, <1>g
    DEF Crash, QueryInv, ExclusiveRefund, RefundSteps, Refundable
  <2>4. SuccessMeansPaidBack'
    BY <1>28, <1>0, <1>q, <1>p DEF Crash, QueryInv, SuccessMeansPaidBack, Plans
  <2>5. RefundedMeansPaidBack'
    BY <1>28, <1>0, <1>q, <1>p
    DEF Crash, QueryInv, QueryKnows, SuccessMeansPaidBack,
        RefundedMeansPaidBack, Settled
  <2> QED
    BY <1>g, <2>1, <2>2, <2>3, <2>4, <2>5 DEF QueryInv
<1> QED
  BY <1>1, <1>2, <1>3, <1>4, <1>5, <1>6, <1>7, <1>8, <1>9, <1>10, <1>11, <1>12,
     <1>13, <1>14, <1>15, <1>16, <1>17, <1>18, <1>19, <1>20, <1>21, <1>22,
     <1>23, <1>24, <1>25, <1>26, <1>27, <1>28
  DEF Next, CallStep

LEMMA QueryInvariant ==
    ASSUME \A a, b \in Amounts : a = b
    PROVE  Spec => [](TypeOK /\ QueryInv)
<1>1. Init => TypeOK /\ QueryInv
  BY InitType, InitQueryInv
<1>2. TypeOK /\ QueryInv /\ [Next]_vars => (TypeOK /\ QueryInv)'
  BY TypeStep, QueryStep
<1> QED
  BY <1>1, <1>2, PTL DEF Spec

\* When every refund of the order is of one amount, an order that ExecuteRefund
\* or QueryAndFinalizeRefund marks refunded was paid back in that amount,
\* whatever queries and retries overlap.
THEOREM QueriedPaidBack ==
    ASSUME \A a, b \in Amounts : a = b
    PROVE  Spec => []RefundedMeansPaidBack
<1>1. QueryInv => RefundedMeansPaidBack
  BY DEF QueryInv
<1> QED
  BY <1>1, QueryInvariant, PTL

\* Under the same assumption no late write of a refund or a query reopens a
\* refunded order: finalizeRefundFailed, which writes the row unconditionally,
\* has seen the gateway refuse the only refund there is.
THEOREM QueriedStays ==
    ASSUME \A a, b \in Amounts : a = b
    PROVE  Spec => RefundedIsFinal
<1>1. ASSUME TypeOK, QueryInv, [Next]_vars
      PROVE  [(status \in Settled) => UNCHANGED rowVars]_vars
  <2> SUFFICES ASSUME status \in Settled, Next PROVE UNCHANGED rowVars
    BY <1>1
  <2>0. Refused => PaidBack(refundAmount)
    BY <1>1 DEF QueryInv, RefundedMeansPaidBack, Refused
  <2>1. ~Refused
    BY <1>1, <2>0, RefusedNotPaidBack DEF QueryInv
  <2>2. \A w \in Workers : pc[w] \notin RefundSteps /\ pc[w] # "finalizeFailed"
    BY <1>1, <2>1 DEF QueryInv, QueryKnows, ExclusiveRefund, Settled
  <2> QED
    BY <2>2
    DEF Next, CallStep, Spend, RefundSettles, BeginRequest, PrepareRefund, BeginQuery,
        RequestRefund, PrepDeduct, ClaimRefund, CheckRollbackFailed, Deduct, GwRefundFails,
        GwRefundOpens, GwRefundRepeats, GwRefundSkipped, RollbackRefund, RecordRollbackFailure,
        RestoreStatus, MarkRefundFailed, MarkRefundOk, AuditRefundOk, MarkRefundPending,
        AuditRefundPending, LatestRefundPendingDetail, QueryRefund, QueryRefundFails,
        FinalizePendingRefundSuccess, FinalizeRefundFailed, StatementFails, Crash, rowVars,
        Settled, Refundable, RefundSteps
<1> QED
  BY <1>1, QueryInvariant, PTL DEF Spec, RefundedIsFinal

-----------------------------------------------------------------------------
(* Deductions *)

\* Whatever is charged between the read of the balance and the deduction,
\* taking a refund back leaves no deficit (DeductAvailableBalance).
THEOREM NeverOverdraws == Spec => RefundNeverOverdraws
<1>1. ASSUME TypeOK, [Next]_vars
      PROVE  [taken' > taken => balance' >= 0]_vars
  <2> SUFFICES ASSUME Next, taken' > taken PROVE balance' >= 0
    BY <1>1
  <2>0. balance \in Int /\ taken \in Int
    BY <1>1 DEF TypeOK, UserTypeOK
  <2>1. ASSUME NEW a \in 0..Amount, TakeBalance(a) PROVE balance' >= 0
    BY <2>0, <2>1, AvailableBounds DEF TakeBalance
  <2>2. ASSUME NEW w \in Workers PROVE plan[w].deduct \in 0..Amount
    BY <1>1 DEF TypeOK, CallTypeOK, Plans
  <2>3. ASSUME NEW w \in Workers, RollbackRefund(w) PROVE FALSE
    BY <2>0, <2>2, <2>3, ConstantsAssumption DEF RollbackRefund, GiveBack
  <2>4. ASSUME UNCHANGED taken PROVE FALSE
    BY <2>0, <2>4
  <2>5. ASSUME NEW w \in Workers, Deduct(w) PROVE balance' >= 0
    BY <2>1, <2>2, <2>5 DEF Deduct
  <2>6. ASSUME NEW w \in Workers, FinalizePendingRefundSuccess(w) PROVE balance' >= 0
    BY <2>1, <2>2, <2>4, <2>6 DEF FinalizePendingRefundSuccess, userVars
  <2> QED
    BY <2>3, <2>4, <2>5, <2>6
    DEF Next, CallStep, Spend, RefundSettles, BeginRequest, PrepareRefund, BeginQuery,
        RequestRefund, PrepDeduct, ClaimRefund, CheckRollbackFailed, GwRefundFails,
        GwRefundOpens, GwRefundRepeats, GwRefundSkipped, RecordRollbackFailure, RestoreStatus,
        MarkRefundFailed, MarkRefundOk, AuditRefundOk, MarkRefundPending, AuditRefundPending,
        LatestRefundPendingDetail, QueryRefund, QueryRefundFails, FinalizeRefundFailed,
        StatementFails, Crash, userVars
<1> QED
  BY <1>1, TypeCorrect, PTL DEF Spec, RefundNeverOverdraws

\* A query that has disturbed a refund is not forgotten.
LEMMA DisturbedStays == ASSUME disturbed, [Next]_vars PROVE disturbed'
  BY
  DEF Next, CallStep, vars, userVars, history, Spend, RefundSettles, BeginRequest,
      PrepareRefund, BeginQuery, RequestRefund, PrepDeduct, ClaimRefund,
      CheckRollbackFailed, Deduct, GwRefundFails, GwRefundOpens, GwRefundRepeats,
      GwRefundSkipped, RollbackRefund, RecordRollbackFailure, RestoreStatus,
      MarkRefundFailed, MarkRefundOk, AuditRefundOk, MarkRefundPending,
      AuditRefundPending, LatestRefundPendingDetail, QueryRefund, QueryRefundFails,
      FinalizePendingRefundSuccess, FinalizeRefundFailed, StatementFails, Crash,
      TakeBalance, GiveBack

\* A query ends, or goes on to finalize or to fail.
LEMMA QueryGoes ==
    ASSUME TypeOK, NEW w \in Workers, QueryRefund(w)
    PROVE  /\ pc'[w] \in {"idle", "finalize", "finalizeFailed"}
           /\ \A u \in Workers \ {w} : pc'[u] = pc[u] /\ plan'[u] = plan[u]
<1>0. pc \in [Workers -> Steps] /\ plan \in [Workers -> Plans]
  BY DEF TypeOK, CallTypeOK
<1>1. PICK i \in Queried(w) :
        LET step == AfterQuery(refunds[i].state)
        IN IF step = "idle" THEN Return(w) ELSE Goto(w, step) /\ UNCHANGED plan
  BY DEF QueryRefund
<1>2. refunds[i] \in Refunds
  BY ElementOfSeq DEF TypeOK, GatewayTypeOK, Queried
<1>3. AfterQuery(refunds[i].state) \in {"idle", "finalize", "finalizeFailed"}
  BY <1>2 DEF Refunds, AfterQuery
<1> QED
  BY <1>0, <1>1, <1>3 DEF Goto, Return, SetPlan

\* The conditional update of ExecuteRefund keeps refunds apart, queries
\* included, as long as no late query disturbs one.
LEMMA ExclusiveStep ==
    ASSUME TypeOK, ExclusiveRefund, ~disturbed', [Next]_vars
    PROVE  ExclusiveRefund'
<1>0. pc \in [Workers -> Steps] /\ plan \in [Workers -> Plans]
  BY DEF TypeOK, CallTypeOK
<1> USE DEF vars, rowVars, callVars, Goto, Return, SetPlan
<1>1. CASE Spend \/ RefundSettles \/ UNCHANGED vars
  BY <1>1 DEF Spend, RefundSettles, ExclusiveRefund
<1>2. ASSUME NEW w \in Workers, BeginRequest(w) PROVE ExclusiveRefund'
  BY <1>2, <1>0 DEF BeginRequest, ExclusiveRefund, RefundSteps, Refundable
<1>3. ASSUME NEW w \in Workers, PrepareRefund(w) PROVE ExclusiveRefund'
  BY <1>3, <1>0 DEF PrepareRefund, ExclusiveRefund, RefundSteps, Refundable
<1>4. ASSUME NEW w \in Workers, BeginQuery(w) PROVE ExclusiveRefund'
  BY <1>4, <1>0 DEF BeginQuery, ExclusiveRefund, RefundSteps, Refundable
<1>5. ASSUME NEW w \in Workers, RequestRefund(w) PROVE ExclusiveRefund'
  BY <1>5, <1>0 DEF RequestRefund, ExclusiveRefund, RefundSteps, Refundable
<1>6. ASSUME NEW w \in Workers, PrepDeduct(w) PROVE ExclusiveRefund'
  BY <1>6, <1>0 DEF PrepDeduct, ExclusiveRefund, RefundSteps, Refundable
<1>7. ASSUME NEW w \in Workers, ClaimRefund(w) PROVE ExclusiveRefund'
  BY <1>7, <1>0 DEF ClaimRefund, ExclusiveRefund, RefundSteps, Refundable
<1>8. ASSUME NEW w \in Workers, CheckRollbackFailed(w) PROVE ExclusiveRefund'
  BY <1>8, <1>0 DEF CheckRollbackFailed, ExclusiveRefund, RefundSteps, Refundable
<1>9. ASSUME NEW w \in Workers, Deduct(w) PROVE ExclusiveRefund'
  BY <1>9, <1>0 DEF Deduct, ExclusiveRefund, RefundSteps, Refundable
<1>10. ASSUME NEW w \in Workers, GwRefundFails(w) PROVE ExclusiveRefund'
  BY <1>10, <1>0
  DEF GwRefundFails, Answer, AfterAnswer, ExclusiveRefund, RefundSteps, Refundable
<1>11. ASSUME NEW w \in Workers, GwRefundOpens(w) PROVE ExclusiveRefund'
  BY <1>11, <1>0
  DEF GwRefundOpens, Answer, AfterAnswer, ExclusiveRefund, RefundSteps, Refundable
<1>12. ASSUME NEW w \in Workers, GwRefundRepeats(w) PROVE ExclusiveRefund'
  BY <1>12, <1>0
  DEF GwRefundRepeats, Answer, AfterAnswer, ExclusiveRefund, RefundSteps, Refundable
<1>13. ASSUME NEW w \in Workers, GwRefundSkipped(w) PROVE ExclusiveRefund'
  BY <1>13, <1>0
  DEF GwRefundSkipped, Answer, AfterAnswer, ExclusiveRefund, RefundSteps, Refundable
<1>14. ASSUME NEW w \in Workers, RollbackRefund(w) PROVE ExclusiveRefund'
  BY <1>14, <1>0
  DEF RollbackRefund, AfterRollback, ExclusiveRefund, RefundSteps, Refundable
<1>15. ASSUME NEW w \in Workers, RecordRollbackFailure(w) PROVE ExclusiveRefund'
  BY <1>15, <1>0
  DEF RecordRollbackFailure, AfterRollback, ExclusiveRefund, RefundSteps, Refundable
<1>16. ASSUME NEW w \in Workers, RestoreStatus(w) PROVE ExclusiveRefund'
  BY <1>16, <1>0 DEF RestoreStatus, ExclusiveRefund, RefundSteps, Refundable
<1>17. ASSUME NEW w \in Workers, MarkRefundFailed(w) PROVE ExclusiveRefund'
  BY <1>17, <1>0 DEF MarkRefundFailed, ExclusiveRefund, RefundSteps, Refundable
<1>18. ASSUME NEW w \in Workers, MarkRefundOk(w) PROVE ExclusiveRefund'
  BY <1>18, <1>0
  DEF MarkRefundOk, SettledStatus, ExclusiveRefund, RefundSteps, Refundable
<1>19. ASSUME NEW w \in Workers, AuditRefundOk(w) PROVE ExclusiveRefund'
  BY <1>19, <1>0 DEF AuditRefundOk, ExclusiveRefund, RefundSteps, Refundable
<1>20. ASSUME NEW w \in Workers, MarkRefundPending(w) PROVE ExclusiveRefund'
  BY <1>20, <1>0 DEF MarkRefundPending, ExclusiveRefund, RefundSteps, Refundable
<1>21. ASSUME NEW w \in Workers, AuditRefundPending(w) PROVE ExclusiveRefund'
  BY <1>21, <1>0 DEF AuditRefundPending, ExclusiveRefund, RefundSteps, Refundable
<1>22. ASSUME NEW w \in Workers, LatestRefundPendingDetail(w) PROVE ExclusiveRefund'
  BY <1>22, <1>0 DEF LatestRefundPendingDetail, ExclusiveRefund, RefundSteps, Refundable
<1>23. ASSUME NEW w \in Workers, QueryRefund(w) PROVE ExclusiveRefund'
  <2>1. UNCHANGED status /\ pc[w] = "ask"
    BY <1>23 DEF QueryRefund
  <2> QED
    BY <1>23, <1>0, <2>1, QueryGoes DEF ExclusiveRefund, RefundSteps
<1>24. ASSUME NEW w \in Workers, QueryRefundFails(w) PROVE ExclusiveRefund'
  BY <1>24, <1>0 DEF QueryRefundFails, ExclusiveRefund, RefundSteps, Refundable
<1>25. ASSUME NEW w \in Workers, FinalizePendingRefundSuccess(w) PROVE ExclusiveRefund'
  BY <1>25, <1>0
  DEF FinalizePendingRefundSuccess, SettledStatus, ExclusiveRefund, RefundSteps,
      Refundable
<1>26. ASSUME NEW w \in Workers, FinalizeRefundFailed(w) PROVE ExclusiveRefund'
  BY <1>26, <1>0 DEF FinalizeRefundFailed, ExclusiveRefund, RefundSteps, Refundable
<1>27. ASSUME NEW w \in Workers, StatementFails(w) PROVE ExclusiveRefund'
  BY <1>27, <1>0
  DEF StatementFails, AfterError, AfterRollback, ExclusiveRefund, RefundSteps,
      Refundable
<1>28. ASSUME NEW w \in Workers, Crash(w) PROVE ExclusiveRefund'
  BY <1>28, <1>0 DEF Crash, ExclusiveRefund, RefundSteps, Refundable
<1> QED
  BY <1>1, <1>2, <1>3, <1>4, <1>5, <1>6, <1>7, <1>8, <1>9, <1>10, <1>11, <1>12,
     <1>13, <1>14, <1>15, <1>16, <1>17, <1>18, <1>19, <1>20, <1>21, <1>22,
     <1>23, <1>24, <1>25, <1>26, <1>27, <1>28
  DEF Next, CallStep

LEMMA InitHeld == Init => HeldInv
  BY ConstantsAssumption
  DEF Init, HeldInv, HeldBy, ExclusiveRefund, RefundSteps, OutOfSight, Known

\* Each time the code loses sight of what is held, as much as the order's amount
\* may be held beside what the next refund takes.
LEMMA OutOfSightGrows ==
    ASSUME TypeOK
    PROVE  /\ Amount \in Nat /\ OutOfSight \in Int
           /\ forgotten' = forgotten => OutOfSight' = OutOfSight
           /\ forgotten' = forgotten + 1 => OutOfSight' = OutOfSight + Amount
<1>1. Amount \in Nat /\ forgotten \in Nat
  BY ConstantsAssumption DEF TypeOK, UserTypeOK
<1>2. \A n \in Nat : Amount * n \in Int /\ Amount * (n + 1) = Amount * n + Amount
  BY <1>1, SMT
<1> QED
  BY <1>1, <1>2 DEF OutOfSight

LEMMA HeldStep ==
    ASSUME TypeOK, HeldInv, [Next]_vars
    PROVE  HeldInv'
<1> SUFFICES ASSUME ~disturbed' PROVE HeldInv'
  BY DEF HeldInv
<1>d. ~disturbed
  BY DisturbedStays
<1>e. /\ ExclusiveRefund
      /\ taken <= OutOfSight + Amount
      /\ status \in Refundable => taken <= OutOfSight + Known
      /\ \A w \in Workers : HeldBy(w)
  BY <1>d DEF HeldInv
<1>f. ExclusiveRefund'
  BY <1>e, ExclusiveStep
<1>0. pc \in [Workers -> Steps] /\ plan \in [Workers -> Plans]
  BY DEF TypeOK, CallTypeOK
<1>a. /\ taken \in Int /\ Amount \in Nat /\ OutOfSight \in Int
      /\ \A w \in Workers : plan[w].deduct \in 0..Amount
  BY <1>0, OutOfSightGrows DEF Plans, TypeOK, UserTypeOK
<1>k. Known = (IF rollbackFailed THEN Amount ELSE 0)
      /\ Known' = (IF rollbackFailed' THEN Amount ELSE 0)
  BY DEF Known
<1>o. /\ forgotten' = forgotten => OutOfSight' = OutOfSight
      /\ forgotten' = forgotten + 1 => OutOfSight' = OutOfSight + Amount
  BY OutOfSightGrows
<1>s. ASSUME /\ taken' <= OutOfSight' + Amount
             /\ status' \in Refundable => taken' <= OutOfSight' + Known'
             /\ \A u \in Workers : HeldBy(u)'
      PROVE  HeldInv'
  BY <1>f, <1>s DEF HeldInv
\* A step of one call that moves no money and writes no entry.
<1>c. ASSUME NEW w \in Workers,
             UNCHANGED <<taken, forgotten, rollbackFailed>>,
             \A u \in Workers \ {w} : pc'[u] = pc[u] /\ plan'[u] = plan[u],
             HeldBy(w)', status' \in Refundable => taken <= OutOfSight + Known
      PROVE  HeldInv'
  <2>1. UNCHANGED <<OutOfSight, Known>>
    BY <1>c, <1>o DEF Known
  <2>2. ASSUME NEW u \in Workers PROVE HeldBy(u)'
    BY <1>c, <1>e, <2>1 DEF HeldBy
  <2> QED
    BY <1>c, <1>e, <1>s, <2>1, <2>2
\* A step of the refund that has the order to itself.
<1>x. ASSUME NEW w \in Workers, pc[w] \in RefundSteps, NEW u \in Workers \ {w},
             pc'[u] = pc[u]
      PROVE  HeldBy(u)'
  BY <1>x, <1>e DEF ExclusiveRefund, HeldBy, RefundSteps
<1> USE DEF vars, rowVars, userVars, history, auditVars, gatewayVars, callVars, Goto, Return, SetPlan
<1>1. CASE Spend \/ RefundSettles \/ UNCHANGED vars
  <2>1. UNCHANGED <<status, taken, forgotten, rollbackFailed, pc, plan>>
    BY <1>1 DEF Spend, RefundSettles
  <2>2. UNCHANGED <<OutOfSight, Known>>
    BY <2>1, <1>o DEF Known
  <2>3. ASSUME NEW u \in Workers PROVE HeldBy(u)'
    BY <1>e, <2>1, <2>2 DEF HeldBy
  <2> QED
    BY <1>e, <1>s, <2>1, <2>2, <2>3
<1>2. ASSUME NEW w \in Workers, BeginRequest(w) PROVE HeldInv'
  <2>1. /\ UNCHANGED <<taken, forgotten, rollbackFailed>>
        /\ \A u \in Workers \ {w} : pc'[u] = pc[u] /\ plan'[u] = plan[u]
    BY <1>2, <1>0 DEF BeginRequest
  <2>2. HeldBy(w)'
    BY <1>2, <1>0 DEF BeginRequest, HeldBy
  <2>3. status' \in Refundable => taken <= OutOfSight + Known
    BY <1>2, <1>0, <1>e
    DEF BeginRequest, HeldBy, ExclusiveRefund, RefundSteps, Refundable
  <2> QED
    BY <1>c, <2>1, <2>2, <2>3
<1>3. ASSUME NEW w \in Workers, PrepareRefund(w) PROVE HeldInv'
  <2>1. /\ UNCHANGED <<taken, forgotten, rollbackFailed>>
        /\ \A u \in Workers \ {w} : pc'[u] = pc[u] /\ plan'[u] = plan[u]
    BY <1>3, <1>0 DEF PrepareRefund
  <2>2. HeldBy(w)'
    BY <1>3, <1>0 DEF PrepareRefund, HeldBy
  <2>3. status' \in Refundable => taken <= OutOfSight + Known
    BY <1>3, <1>0, <1>e
    DEF PrepareRefund, HeldBy, ExclusiveRefund, RefundSteps, Refundable
  <2> QED
    BY <1>c, <2>1, <2>2, <2>3
<1>4. ASSUME NEW w \in Workers, BeginQuery(w) PROVE HeldInv'
  <2>1. /\ UNCHANGED <<taken, forgotten, rollbackFailed>>
        /\ \A u \in Workers \ {w} : pc'[u] = pc[u] /\ plan'[u] = plan[u]
    BY <1>4, <1>0 DEF BeginQuery
  <2>2. HeldBy(w)'
    BY <1>4, <1>0 DEF BeginQuery, HeldBy
  <2>3. status' \in Refundable => taken <= OutOfSight + Known
    BY <1>4, <1>0, <1>e DEF BeginQuery, HeldBy, ExclusiveRefund, RefundSteps, Refundable
  <2> QED
    BY <1>c, <2>1, <2>2, <2>3
<1>5. ASSUME NEW w \in Workers, RequestRefund(w) PROVE HeldInv'
  <2>1. /\ UNCHANGED <<taken, forgotten, rollbackFailed>>
        /\ \A u \in Workers \ {w} : pc'[u] = pc[u] /\ plan'[u] = plan[u]
    BY <1>5, <1>0 DEF RequestRefund
  <2>2. HeldBy(w)'
    BY <1>5, <1>0 DEF RequestRefund, HeldBy
  <2>3. status' \in Refundable => taken <= OutOfSight + Known
    BY <1>5, <1>0, <1>e
    DEF RequestRefund, HeldBy, ExclusiveRefund, RefundSteps, Refundable
  <2> QED
    BY <1>c, <2>1, <2>2, <2>3
<1>6. ASSUME NEW w \in Workers, PrepDeduct(w) PROVE HeldInv'
  <2>1. /\ UNCHANGED <<taken, forgotten, rollbackFailed>>
        /\ \A u \in Workers \ {w} : pc'[u] = pc[u] /\ plan'[u] = plan[u]
    BY <1>6, <1>0 DEF PrepDeduct
  <2>2. HeldBy(w)'
    BY <1>6, <1>0 DEF PrepDeduct, HeldBy
  <2>3. status' \in Refundable => taken <= OutOfSight + Known
    BY <1>6, <1>0, <1>e DEF PrepDeduct, HeldBy, ExclusiveRefund, RefundSteps, Refundable
  <2> QED
    BY <1>c, <2>1, <2>2, <2>3
<1>7. ASSUME NEW w \in Workers, ClaimRefund(w) PROVE HeldInv'
  <2>1. /\ UNCHANGED <<taken, forgotten, rollbackFailed>>
        /\ \A u \in Workers \ {w} : pc'[u] = pc[u] /\ plan'[u] = plan[u]
    BY <1>7, <1>0 DEF ClaimRefund
  <2>2. HeldBy(w)'
    <3>1. UNCHANGED <<OutOfSight, Known>>
      BY <2>1, <1>o DEF Known
    <3> QED
      BY <1>7, <1>0, <1>a, <1>e, <1>k, <2>1, <3>1
      DEF ClaimRefund, HeldBy, ExclusiveRefund, RefundSteps, Refundable, Plans
  <2>3. status' \in Refundable => taken <= OutOfSight + Known
    BY <1>7, <1>0, <1>e
    DEF ClaimRefund, HeldBy, ExclusiveRefund, RefundSteps, Refundable
  <2> QED
    BY <1>c, <2>1, <2>2, <2>3
<1>8. ASSUME NEW w \in Workers, CheckRollbackFailed(w) PROVE HeldInv'
  <2>1. /\ UNCHANGED <<taken, forgotten, rollbackFailed>>
        /\ \A u \in Workers \ {w} : pc'[u] = pc[u] /\ plan'[u] = plan[u]
    BY <1>8, <1>0 DEF CheckRollbackFailed
  <2>2. HeldBy(w)'
    <3>1. UNCHANGED <<OutOfSight, Known>>
      BY <2>1, <1>o DEF Known
    <3> QED
      BY <1>8, <1>0, <1>a, <1>e, <1>k, <2>1, <3>1
      DEF CheckRollbackFailed, HeldBy, ExclusiveRefund, RefundSteps, Refundable, Plans
  <2>3. status' \in Refundable => taken <= OutOfSight + Known
    BY <1>8, <1>0, <1>e
    DEF CheckRollbackFailed, HeldBy, ExclusiveRefund, RefundSteps, Refundable
  <2> QED
    BY <1>c, <2>1, <2>2, <2>3
<1>9. ASSUME NEW w \in Workers, Deduct(w) PROVE HeldInv'
  <2> DEFINE d == Available(plan[w].deduct)
  <2>0. d \in 0..Amount
    BY <1>a, AvailableBounds DEF TypeOK, UserTypeOK
  <2>1. /\ pc[w] = "deduct" /\ pc'[w] = "gateway" /\ plan'[w].deduct = d
        /\ taken' = taken + d
        /\ UNCHANGED <<status, forgotten, rollbackFailed>>
        /\ \A u \in Workers \ {w} : pc'[u] = pc[u]
    BY <1>9, <1>0 DEF Deduct, TakeBalance, Plans
  <2> HIDE DEF d
  <2>2. taken <= OutOfSight /\ OutOfSight' = OutOfSight
    BY <1>e, <1>o, <2>1 DEF HeldBy
  <2>3. status' \notin Refundable
    BY <1>e, <2>1 DEF ExclusiveRefund, RefundSteps, Refundable
  <2>4. HeldBy(w)'
    BY <1>a, <2>0, <2>1, <2>2 DEF HeldBy
  <2>5. taken' <= OutOfSight' + Amount
    BY <1>a, <2>0, <2>1, <2>2
  <2>6. \A u \in Workers \ {w} : HeldBy(u)'
    BY <1>x, <2>1 DEF RefundSteps
  <2> QED
    BY <1>s, <2>3, <2>4, <2>5, <2>6
<1>10. ASSUME NEW w \in Workers, GwRefundFails(w) PROVE HeldInv'
  <2>1. /\ UNCHANGED <<taken, forgotten, rollbackFailed>>
        /\ \A u \in Workers \ {w} : pc'[u] = pc[u] /\ plan'[u] = plan[u]
    BY <1>10, <1>0 DEF GwRefundFails, Answer
  <2>2. HeldBy(w)'
    <3>1. UNCHANGED <<OutOfSight, Known>>
      BY <2>1, <1>o DEF Known
    <3> QED
      BY <1>10, <1>0, <1>a, <1>e, <1>k, <2>1, <3>1
      DEF GwRefundFails, Answer, AfterAnswer, HeldBy, ExclusiveRefund, RefundSteps,
          Refundable, Plans
  <2>3. status' \in Refundable => taken <= OutOfSight + Known
    BY <1>10, <1>0, <1>e
    DEF GwRefundFails, HeldBy, ExclusiveRefund, RefundSteps, Refundable
  <2> QED
    BY <1>c, <2>1, <2>2, <2>3
<1>11. ASSUME NEW w \in Workers, GwRefundOpens(w) PROVE HeldInv'
  <2>1. /\ UNCHANGED <<taken, forgotten, rollbackFailed>>
        /\ \A u \in Workers \ {w} : pc'[u] = pc[u] /\ plan'[u] = plan[u]
    BY <1>11, <1>0 DEF GwRefundOpens, Answer
  <2>2. HeldBy(w)'
    <3>1. UNCHANGED <<OutOfSight, Known>>
      BY <2>1, <1>o DEF Known
    <3> QED
      BY <1>11, <1>0, <1>a, <1>e, <1>k, <2>1, <3>1
      DEF GwRefundOpens, Answer, AfterAnswer, HeldBy, ExclusiveRefund, RefundSteps,
          Refundable, Plans
  <2>3. status' \in Refundable => taken <= OutOfSight + Known
    BY <1>11, <1>0, <1>e
    DEF GwRefundOpens, HeldBy, ExclusiveRefund, RefundSteps, Refundable
  <2> QED
    BY <1>c, <2>1, <2>2, <2>3
<1>12. ASSUME NEW w \in Workers, GwRefundRepeats(w) PROVE HeldInv'
  <2>1. /\ UNCHANGED <<taken, forgotten, rollbackFailed>>
        /\ \A u \in Workers \ {w} : pc'[u] = pc[u] /\ plan'[u] = plan[u]
    BY <1>12, <1>0 DEF GwRefundRepeats, Answer
  <2>2. HeldBy(w)'
    <3>1. UNCHANGED <<OutOfSight, Known>>
      BY <2>1, <1>o DEF Known
    <3> QED
      BY <1>12, <1>0, <1>a, <1>e, <1>k, <2>1, <3>1
      DEF GwRefundRepeats, Answer, AfterAnswer, HeldBy, ExclusiveRefund, RefundSteps,
          Refundable, Plans
  <2>3. status' \in Refundable => taken <= OutOfSight + Known
    BY <1>12, <1>0, <1>e
    DEF GwRefundRepeats, HeldBy, ExclusiveRefund, RefundSteps, Refundable
  <2> QED
    BY <1>c, <2>1, <2>2, <2>3
<1>13. ASSUME NEW w \in Workers, GwRefundSkipped(w) PROVE HeldInv'
  <2>1. /\ UNCHANGED <<taken, forgotten, rollbackFailed>>
        /\ \A u \in Workers \ {w} : pc'[u] = pc[u] /\ plan'[u] = plan[u]
    BY <1>13, <1>0 DEF GwRefundSkipped, Answer
  <2>2. HeldBy(w)'
    <3>1. UNCHANGED <<OutOfSight, Known>>
      BY <2>1, <1>o DEF Known
    <3> QED
      BY <1>13, <1>0, <1>a, <1>e, <1>k, <2>1, <3>1
      DEF GwRefundSkipped, Answer, AfterAnswer, HeldBy, ExclusiveRefund, RefundSteps,
          Refundable, Plans
  <2>3. status' \in Refundable => taken <= OutOfSight + Known
    BY <1>13, <1>0, <1>e
    DEF GwRefundSkipped, HeldBy, ExclusiveRefund, RefundSteps, Refundable
  <2> QED
    BY <1>c, <2>1, <2>2, <2>3
<1>14. ASSUME NEW w \in Workers, RollbackRefund(w) PROVE HeldInv'
  <2> DEFINE d == plan[w].deduct
  <2>1. /\ pc[w] = "rollback" /\ pc'[w] \in {"markPending", "restore"}
        /\ taken' = taken - d
        /\ UNCHANGED <<status, forgotten, rollbackFailed>>
        /\ \A u \in Workers \ {w} : pc'[u] = pc[u]
    BY <1>14, <1>0 DEF RollbackRefund, GiveBack, AfterRollback
  <2>2. taken - d <= OutOfSight \/ (rollbackFailed /\ d = 0)
    BY <1>e, <2>1 DEF HeldBy
  <2>3. OutOfSight' = OutOfSight /\ Known' = Known /\ d \in 0..Amount
    BY <1>a, <1>o, <2>1 DEF Known
  <2> HIDE DEF d
  <2>4. taken' <= OutOfSight' + Known'
    BY <1>a, <1>e, <1>k, <2>1, <2>2, <2>3
  <2>5. taken' <= OutOfSight' + Amount
    BY <1>a, <1>e, <2>1, <2>3
  <2>6. HeldBy(w)'
    BY <2>1, <2>4 DEF HeldBy
  <2>7. \A u \in Workers \ {w} : HeldBy(u)'
    BY <1>x, <2>1 DEF RefundSteps
  <2> QED
    BY <1>s, <2>4, <2>5, <2>6, <2>7
<1>15. ASSUME NEW w \in Workers, RecordRollbackFailure(w) PROVE HeldInv'
  <2>1. /\ pc[w] = "recordFailure" /\ pc'[w] \in {"markPending", "markFailed"}
        /\ rollbackFailed'
        /\ UNCHANGED <<taken, forgotten>>
        /\ \A u \in Workers \ {w} : pc'[u] = pc[u]
    BY <1>15, <1>0 DEF RecordRollbackFailure, AfterRollback
  <2>2. taken' <= OutOfSight' + Amount /\ Known' = Amount
    BY <1>e, <1>k, <1>o, <2>1
  <2>3. HeldBy(w)'
    BY <2>1, <2>2 DEF HeldBy
  <2>4. \A u \in Workers \ {w} : HeldBy(u)'
    BY <1>x, <2>1 DEF RefundSteps
  <2> QED
    BY <1>s, <2>2, <2>3, <2>4
<1>16. ASSUME NEW w \in Workers, RestoreStatus(w) PROVE HeldInv'
  <2>1. /\ UNCHANGED <<taken, forgotten, rollbackFailed>>
        /\ \A u \in Workers \ {w} : pc'[u] = pc[u] /\ plan'[u] = plan[u]
    BY <1>16, <1>0 DEF RestoreStatus
  <2>2. HeldBy(w)'
    BY <1>16, <1>0 DEF RestoreStatus, HeldBy
  <2>3. status' \in Refundable => taken <= OutOfSight + Known
    BY <1>16, <1>0, <1>e
    DEF RestoreStatus, HeldBy, ExclusiveRefund, RefundSteps, Refundable
  <2> QED
    BY <1>c, <2>1, <2>2, <2>3
<1>17. ASSUME NEW w \in Workers, MarkRefundFailed(w) PROVE HeldInv'
  <2>1. /\ UNCHANGED <<taken, forgotten, rollbackFailed>>
        /\ \A u \in Workers \ {w} : pc'[u] = pc[u] /\ plan'[u] = plan[u]
    BY <1>17, <1>0 DEF MarkRefundFailed
  <2>2. HeldBy(w)'
    BY <1>17, <1>0 DEF MarkRefundFailed, HeldBy
  <2>3. status' \in Refundable => taken <= OutOfSight + Known
    BY <1>17, <1>0, <1>e
    DEF MarkRefundFailed, HeldBy, ExclusiveRefund, RefundSteps, Refundable
  <2> QED
    BY <1>c, <2>1, <2>2, <2>3
<1>18. ASSUME NEW w \in Workers, MarkRefundOk(w) PROVE HeldInv'
  <2>1. /\ UNCHANGED <<taken, forgotten, rollbackFailed>>
        /\ \A u \in Workers \ {w} : pc'[u] = pc[u] /\ plan'[u] = plan[u]
    BY <1>18, <1>0 DEF MarkRefundOk
  <2>2. HeldBy(w)'
    BY <1>18, <1>0 DEF MarkRefundOk, SettledStatus, HeldBy
  <2>3. status' \in Refundable => taken <= OutOfSight + Known
    BY <1>18, <1>0, <1>e
    DEF MarkRefundOk, SettledStatus, HeldBy, ExclusiveRefund, RefundSteps, Refundable
  <2> QED
    BY <1>c, <2>1, <2>2, <2>3
<1>19. ASSUME NEW w \in Workers, AuditRefundOk(w) PROVE HeldInv'
  <2>1. /\ UNCHANGED <<taken, forgotten, rollbackFailed>>
        /\ \A u \in Workers \ {w} : pc'[u] = pc[u] /\ plan'[u] = plan[u]
    BY <1>19, <1>0 DEF AuditRefundOk
  <2>2. HeldBy(w)'
    BY <1>19, <1>0 DEF AuditRefundOk, HeldBy
  <2>3. status' \in Refundable => taken <= OutOfSight + Known
    BY <1>19, <1>0, <1>e
    DEF AuditRefundOk, HeldBy, ExclusiveRefund, RefundSteps, Refundable
  <2> QED
    BY <1>c, <2>1, <2>2, <2>3
<1>20. ASSUME NEW w \in Workers, MarkRefundPending(w) PROVE HeldInv'
  <2>1. /\ UNCHANGED <<taken, forgotten, rollbackFailed>>
        /\ \A u \in Workers \ {w} : pc'[u] = pc[u] /\ plan'[u] = plan[u]
    BY <1>20, <1>0 DEF MarkRefundPending
  <2>2. HeldBy(w)'
    BY <1>20, <1>0 DEF MarkRefundPending, HeldBy
  <2>3. status' \in Refundable => taken <= OutOfSight + Known
    BY <1>20, <1>0, <1>e
    DEF MarkRefundPending, HeldBy, ExclusiveRefund, RefundSteps, Refundable
  <2> QED
    BY <1>c, <2>1, <2>2, <2>3
<1>21. ASSUME NEW w \in Workers, AuditRefundPending(w) PROVE HeldInv'
  <2>1. /\ UNCHANGED <<taken, forgotten, rollbackFailed>>
        /\ \A u \in Workers \ {w} : pc'[u] = pc[u] /\ plan'[u] = plan[u]
    BY <1>21, <1>0 DEF AuditRefundPending
  <2>2. HeldBy(w)'
    BY <1>21, <1>0 DEF AuditRefundPending, HeldBy
  <2>3. status' \in Refundable => taken <= OutOfSight + Known
    BY <1>21, <1>0, <1>e
    DEF AuditRefundPending, HeldBy, ExclusiveRefund, RefundSteps, Refundable
  <2> QED
    BY <1>c, <2>1, <2>2, <2>3
<1>22. ASSUME NEW w \in Workers, LatestRefundPendingDetail(w) PROVE HeldInv'
  <2>1. /\ UNCHANGED <<taken, forgotten, rollbackFailed>>
        /\ \A u \in Workers \ {w} : pc'[u] = pc[u] /\ plan'[u] = plan[u]
    BY <1>22, <1>0 DEF LatestRefundPendingDetail
  <2>2. HeldBy(w)'
    BY <1>22, <1>0 DEF LatestRefundPendingDetail, HeldBy
  <2>3. status' \in Refundable => taken <= OutOfSight + Known
    BY <1>22, <1>0, <1>e
    DEF LatestRefundPendingDetail, HeldBy, ExclusiveRefund, RefundSteps, Refundable
  <2> QED
    BY <1>c, <2>1, <2>2, <2>3
<1>23. ASSUME NEW w \in Workers, QueryRefund(w) PROVE HeldInv'
  <2>1. UNCHANGED <<status, taken, forgotten, rollbackFailed>>
    BY <1>23 DEF QueryRefund
  <2>2. HeldBy(w)'
    BY <1>23, QueryGoes DEF HeldBy
  <2> QED
    BY <1>23, <1>c, <1>e, <2>1, <2>2, QueryGoes
<1>24. ASSUME NEW w \in Workers, QueryRefundFails(w) PROVE HeldInv'
  <2>1. /\ UNCHANGED <<taken, forgotten, rollbackFailed>>
        /\ \A u \in Workers \ {w} : pc'[u] = pc[u] /\ plan'[u] = plan[u]
    BY <1>24, <1>0 DEF QueryRefundFails
  <2>2. HeldBy(w)'
    BY <1>24, <1>0 DEF QueryRefundFails, HeldBy
  <2>3. status' \in Refundable => taken <= OutOfSight + Known
    BY <1>24, <1>0, <1>e
    DEF QueryRefundFails, HeldBy, ExclusiveRefund, RefundSteps, Refundable
  <2> QED
    BY <1>c, <2>1, <2>2, <2>3
<1>25. ASSUME NEW w \in Workers, FinalizePendingRefundSuccess(w) PROVE HeldInv'
  <2>1. CASE status = "REFUND_PENDING" /\ ~successAudit
    <3> DEFINE d == Available(plan[w].deduct)
    <3>0. d \in 0..Amount /\ (plan[w].deduct = 0 => d = 0)
      BY <1>a, AvailableBounds DEF TypeOK, UserTypeOK, Available, Min2, Max2
    <3>1. /\ taken' = taken + d
          /\ forgotten' = IF Overlooked(w) THEN forgotten + 1 ELSE forgotten
          /\ status' \notin Refundable
          /\ \A u \in Workers \ {w} : pc'[u] = pc[u]
      BY <1>25, <1>0, <2>1
      DEF FinalizePendingRefundSuccess, TakeBalance, Forget, SettledStatus, Refundable
    <3>i. taken \in Int /\ taken' \in Int /\ Amount \in Nat /\ OutOfSight \in Int /\ d \in Int
      BY <1>a, <3>0, <3>1
    <3> HIDE DEF d
    <3>2. taken <= OutOfSight + Known
      BY <1>e, <2>1 DEF Refundable
    <3>k. Known \in {0, Amount}
      BY <1>k
    <3>3. ASSUME Overlooked(w) PROVE taken' <= OutOfSight' + Amount
      <4>1. OutOfSight' = OutOfSight + Amount
        BY <1>o, <3>1, <3>3
      <4>2. d <= Amount
        BY <3>0, <3>i
      <4> QED
        BY <3>1, <3>2, <3>i, <3>k, <4>1, <4>2
    <3>4. ASSUME ~Overlooked(w) PROVE taken' <= OutOfSight' + Amount
      <4>1. Known = 0 \/ d = 0
        BY <1>a, <1>k, <3>0, <3>4 DEF Overlooked
      <4>2. OutOfSight' = OutOfSight
        BY <1>o, <3>1, <3>4
      <4>3. d <= Amount
        BY <3>0, <3>i
      <4> QED
        BY <3>1, <3>2, <3>i, <3>k, <4>1, <4>2, <4>3
    <3>5. taken' <= OutOfSight' + Amount
      BY <3>3, <3>4
    <3>6. \A u \in Workers : pc[u] \notin RefundSteps
      BY <1>e, <2>1 DEF ExclusiveRefund
    <3>7. \A u \in Workers : HeldBy(u)'
      <4>1. \A u \in Workers : pc'[u] \notin RefundSteps
        BY <1>25, <1>0, <3>6 DEF FinalizePendingRefundSuccess, RefundSteps
      <4> QED
        BY <4>1 DEF HeldBy, RefundSteps
    <3> QED
      BY <1>s, <3>1, <3>5, <3>7
  <2>2. CASE ~(status = "REFUND_PENDING" /\ ~successAudit)
    <3>1. /\ UNCHANGED <<status, taken, forgotten, rollbackFailed>>
          /\ pc'[w] = "idle"
          /\ \A u \in Workers \ {w} : pc'[u] = pc[u] /\ plan'[u] = plan[u]
      BY <1>25, <1>0, <2>2 DEF FinalizePendingRefundSuccess
    <3>2. HeldBy(w)'
      BY <3>1 DEF HeldBy
    <3> QED
      BY <1>c, <1>e, <3>1, <3>2
  <2> QED
    BY <2>1, <2>2
<1>26. ASSUME NEW w \in Workers, FinalizeRefundFailed(w) PROVE HeldInv'
  <2>1. /\ UNCHANGED <<taken, forgotten, rollbackFailed>>
        /\ \A u \in Workers \ {w} : pc'[u] = pc[u] /\ plan'[u] = plan[u]
    BY <1>26, <1>0 DEF FinalizeRefundFailed
  <2>2. HeldBy(w)'
    BY <1>26, <1>0 DEF FinalizeRefundFailed, HeldBy
  <2>3. status' \in Refundable => taken <= OutOfSight + Known
    BY <1>26, <1>0, <1>e
    DEF FinalizeRefundFailed, Statuses, Settled, Refundable, TypeOK, RowTypeOK
  <2> QED
    BY <1>c, <2>1, <2>2, <2>3
<1>27. ASSUME NEW w \in Workers, StatementFails(w) PROVE HeldInv'
  <2>0. /\ UNCHANGED <<status, taken, rollbackFailed>>
        /\ forgotten' = IF EntryLost(w) THEN forgotten + 1 ELSE forgotten
        /\ pc'[w] = AfterError(w)
        /\ \A u \in Workers \ {w} : pc'[u] = pc[u] /\ plan'[u] = plan[u]
    BY <1>27, <1>0 DEF StatementFails, Forget
  <2>k. Known' = Known
    BY <2>0 DEF Known
  <2>1. CASE pc[w] \notin RefundSteps
    <3>1. ~EntryLost(w)
      BY <2>1 DEF EntryLost, RefundSteps
    <3>2. HeldBy(w)'
      BY <2>0, <2>1 DEF AfterError, HeldBy, RefundSteps
    <3> QED
      BY <1>c, <1>e, <2>0, <3>1, <3>2
  <2>2. CASE pc[w] \in RefundSteps
    <3>1. status' \notin Refundable
      BY <1>e, <2>0, <2>2 DEF ExclusiveRefund, Refundable
    <3>2. \A u \in Workers \ {w} : HeldBy(u)'
      BY <1>x, <2>0, <2>2
    <3>3. taken' <= OutOfSight' + Amount
      BY <1>a, <1>e, <1>o, <2>0
    <3>4. CASE pc[w] = "check"
      <4>1. taken' <= OutOfSight'
        BY <1>a, <1>e, <1>k, <1>o, <2>0, <3>4 DEF EntryLost, HeldBy
      <4> QED
        BY <2>0, <3>4, <4>1, <1>s, <3>1, <3>2, <3>3 DEF AfterError, HeldBy
    <3>5. CASE pc[w] = "deduct"
      <4>1. taken' <= OutOfSight' + Known'
        BY <1>a, <1>e, <1>k, <1>o, <2>0, <3>5 DEF EntryLost, HeldBy
      <4> QED
        BY <2>0, <3>5, <4>1, <1>s, <3>1, <3>2, <3>3 DEF AfterError, HeldBy
    <3>6. CASE pc[w] = "recordFailure"
      <4>1. taken' <= OutOfSight' + Known'
        BY <1>a, <1>e, <1>k, <1>o, <2>0, <3>6 DEF EntryLost
      <4>2. pc'[w] \in {"markPending", "markFailed"}
        BY <2>0, <3>6 DEF AfterError, AfterRollback
      <4> QED
        BY <4>1, <4>2, <1>s, <3>1, <3>2, <3>3 DEF HeldBy
    <3>7. CASE pc[w] \notin {"check", "deduct", "recordFailure"}
      <4>1. pc'[w] \in {"idle", "recordFailure"}
        BY <1>27, <2>0, <2>2, <3>7 DEF StatementFails, AfterError, RefundSteps
      <4> QED
        BY <4>1, <1>s, <3>1, <3>2, <3>3 DEF HeldBy
    <3> QED
      BY <3>4, <3>5, <3>6, <3>7
  <2> QED
    BY <2>1, <2>2
<1>28. ASSUME NEW w \in Workers, Crash(w) PROVE HeldInv'
  <2>1. /\ UNCHANGED <<taken, forgotten, rollbackFailed>>
        /\ \A u \in Workers \ {w} : pc'[u] = pc[u] /\ plan'[u] = plan[u]
    BY <1>28, <1>0 DEF Crash
  <2>2. HeldBy(w)'
    BY <1>28, <1>0 DEF Crash, HeldBy
  <2>3. status' \in Refundable => taken <= OutOfSight + Known
    BY <1>28, <1>0, <1>e DEF Crash, HeldBy, ExclusiveRefund, RefundSteps, Refundable
  <2> QED
    BY <1>c, <2>1, <2>2, <2>3
<1> QED
  BY <1>1, <1>2, <1>3, <1>4, <1>5, <1>6, <1>7, <1>8, <1>9, <1>10, <1>11, <1>12,
     <1>13, <1>14, <1>15, <1>16, <1>17, <1>18, <1>19, <1>20, <1>21, <1>22,
     <1>23, <1>24, <1>25, <1>26, <1>27, <1>28
  DEF Next, CallStep

\* The refunds of an order hold no more of the balance than it credited, and as
\* much again for each time the code loses sight of what is held: whatever
\* queries run, and however many statements fail, audit entries included
\* (REFUND_ROLLBACK_FAILED in ExecuteRefund).
THEOREM TakenOnce == Spec => []DeductedAtMostOnce
<1>1. Init => HeldInv
  BY InitHeld
<1>2. TypeOK /\ HeldInv /\ [Next]_vars => HeldInv'
  BY HeldStep
<1>3. HeldInv => DeductedAtMostOnce
  BY DEF HeldInv, DeductedAtMostOnce
<1> QED
  BY <1>1, <1>2, <1>3, TypeCorrect, PTL DEF Spec
=============================================================================
