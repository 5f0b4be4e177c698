------------------------- MODULE IdempotencyProofs -------------------------
(***************************************************************************)
(* Theorems about Idempotency, for every value of its constants: any       *)
(* number of concurrent requests, any TTL, lock time and backoff; and, in  *)
(* the last section, about SystemOperationLock.                            *)
(***************************************************************************)
EXTENDS Idempotency, TLAPS

Steps == {"idle"} \cup Before \cup Owning

-----------------------------------------------------------------------------
(* Type correctness *)

LEMMA NoRowType == NoRow \in Rows
  BY StoreAssumption DEF NoRow, Rows, Statuses, Times, Past

\* Every statement's row is a row.
LEMMA RowTypes ==
    ASSUME row \in Rows
    PROVE  /\ RowLater \in Rows
           /\ \A i \in Ids, p \in Prints \cup {None}, a \in 0..MaxAge :
                Created(i, p, a) \in Rows
           /\ \A a \in 0..MaxAge : Reclaimed(a) \in Rows
           /\ \A i \in Ids \cup {None}, p \in Prints \cup {None}, a \in 0..MaxAge :
                Succeeded(i, p, TTL - a) \in Rows
           /\ \A i \in Ids \cup {None}, a \in 0..MaxAge :
                FailedRetryable(i, Backoff, TTL - a) \in Rows
<1>1. Past \in Times /\ \A a \in 0..MaxAge : TTL - a \in Times /\ LockTime - a \in Times
  BY StoreAssumption DEF Past, Times
<1>2. Backoff \in Times
  BY StoreAssumption, CallsAssumption DEF Past, Times
<1>3. \A t \in Times : Later(t) \in Times
  BY StoreAssumption DEF Past, Times, Later
<1>5. RowLater \in Rows
  BY <1>3 DEF RowLater, Rows
<1>6. \A i \in Ids, p \in Prints \cup {None}, a \in 0..MaxAge : Created(i, p, a) \in Rows
  BY <1>1 DEF Created, Rows, Statuses
<1>7. \A a \in 0..MaxAge : Reclaimed(a) \in Rows
  BY <1>1 DEF Reclaimed, Rows, Statuses
<1>8. \A i \in Ids \cup {None}, p \in Prints \cup {None}, a \in 0..MaxAge :
        Succeeded(i, p, TTL - a) \in Rows
  BY <1>1 DEF Succeeded, Rows, Statuses
<1>9. \A i \in Ids \cup {None}, a \in 0..MaxAge :
        FailedRetryable(i, Backoff, TTL - a) \in Rows
  BY <1>1, <1>2 DEF FailedRetryable, Rows, Statuses
<1> QED
  BY <1>5, <1>6, <1>7, <1>8, <1>9

CallTypeOK ==
    /\ pc \in [Calls -> Steps]
    /\ age \in [Calls -> 0..MaxAge]
    /\ print \in [Calls -> Prints \cup {None}]
    /\ held \in [Calls -> Ids \cup {None}]
    /\ from \in [Calls -> Statuses]

\* A call that ends, and what it leaves of the other calls.
LEMMA CallReturns ==
    ASSUME CallTypeOK, NEW w \in Calls, Return(w)
    PROVE  /\ CallTypeOK'
           /\ pc'[w] = "idle" /\ age'[w] = 0
           /\ \A v \in Calls : v # w =>
                /\ pc'[v] = pc[v]
                /\ age'[v] = age[v]
                /\ print'[v] = print[v]
                /\ held'[v] = held[v]
                /\ from'[v] = from[v]
  BY StoreAssumption DEF CallTypeOK, Return, Goto, Steps, Statuses

\* A call that goes on.
LEMMA CallMoves ==
    ASSUME CallTypeOK, NEW w \in Calls, NEW s \in Steps, Goto(w, s)
    PROVE  /\ pc' \in [Calls -> Steps]
           /\ pc'[w] = s
           /\ \A v \in Calls : v # w => pc'[v] = pc[v]
  BY DEF CallTypeOK, Goto

LEMMA CallRemembers ==
    ASSUME CallTypeOK, row \in Rows, NEW w \in Calls, NEW s \in Steps, Remember(w, s)
    PROVE  /\ CallTypeOK'
           /\ pc'[w] = s /\ held'[w] = row.id /\ from'[w] = row.status
           /\ \A v \in Calls : v # w =>
                pc'[v] = pc[v] /\ held'[v] = held[v] /\ from'[v] = from[v]
  BY DEF CallTypeOK, Remember, Goto, Rows

LEMMA TypeSplit == TypeOK <=>
    /\ row \in Rows /\ CallTypeOK
    /\ effects \in Nat /\ lapsed \in BOOLEAN
  BY DEF TypeOK, CallTypeOK, Steps

\* Whether a record has expired is a Boolean, whatever the row becomes.
LEMMA SetRowLapsed ==
    ASSUME NEW r, SetRow(r)
    PROVE  lapsed' \in BOOLEAN /\ row' = r
  BY DEF SetRow

LEMMA InitType == Init => TypeOK
<1> SUFFICES ASSUME Init PROVE TypeOK
  OBVIOUS
<1>1. CallTypeOK
  BY StoreAssumption DEF Init, CallTypeOK, Steps, Statuses
<1>2. row \in Rows /\ effects \in Nat
  BY NoRowType DEF Init
<1>3. lapsed \in BOOLEAN
  BY DEF Init
<1> QED
  BY <1>1, <1>2, <1>3, TypeSplit

LEMMA TypeStep == TypeOK /\ [Next]_vars => TypeOK'
<1> SUFFICES ASSUME TypeOK, [Next]_vars PROVE TypeOK'
  OBVIOUS
<1> USE DEF Steps, Before, Owning
<1>0. row \in Rows /\ CallTypeOK /\ effects \in Nat /\ lapsed \in BOOLEAN
  BY TypeSplit
<1>g. SUFFICES /\ row' \in Rows /\ CallTypeOK'
               /\ effects' \in Nat /\ lapsed' \in BOOLEAN
  BY DEF TypeOK, CallTypeOK
<1>1. ASSUME NEW w \in Calls, BeginExecute(w)
      PROVE  /\ row' \in Rows /\ CallTypeOK'
             /\ effects' \in Nat /\ lapsed' \in BOOLEAN
  BY <1>0, <1>1 DEF BeginExecute, KeepRow, Goto, CallTypeOK
<1>2. ASSUME NEW w \in Calls, CreateProcessing(w)
      PROVE  /\ row' \in Rows /\ CallTypeOK'
             /\ effects' \in Nat /\ lapsed' \in BOOLEAN
  <2>1. CASE RowExists
    BY <1>0, <1>2, <2>1 DEF CreateProcessing, KeepRow, Goto, CallTypeOK
  <2>2. CASE ~RowExists
    <3>1. PICK i \in Ids : /\ SetRow(Created(i, print[w], age[w]))
                           /\ held' = [held EXCEPT ![w] = i]
      BY <1>2, <2>2 DEF CreateProcessing
    <3>2. row' \in Rows /\ lapsed' \in BOOLEAN
      <4>1. print[w] \in Prints \cup {None} /\ age[w] \in 0..MaxAge
        BY <1>0 DEF CallTypeOK
      <4>2. Created(i, print[w], age[w]) \in Rows
        BY <1>0, <4>1, RowTypes
      <4> QED
        BY <3>1, <4>2, SetRowLapsed
    <3>3. CallTypeOK'
      BY <1>0, <1>2, <2>2, <3>1 DEF CreateProcessing, Goto, CallTypeOK
    <3> QED
      BY <1>0, <1>2, <3>2, <3>3 DEF CreateProcessing
  <2> QED
    BY <2>1, <2>2
<1>3. ASSUME NEW w \in Calls, GetExisting(w)
      PROVE  /\ row' \in Rows /\ CallTypeOK'
             /\ effects' \in Nat /\ lapsed' \in BOOLEAN
  <2>1. Remember(w, "reclaim") \/ Remember(w, "retry") \/ Return(w)
    BY <1>3 DEF GetExisting
  <2>2. CallTypeOK'
    BY <1>0, <2>1, CallReturns, CallRemembers
  <2> QED
    BY <1>0, <1>3, <2>2 DEF GetExisting, KeepRow
<1>4. ASSUME NEW w \in Calls, TryReclaim(w)
      PROVE  /\ row' \in Rows /\ CallTypeOK'
             /\ effects' \in Nat /\ lapsed' \in BOOLEAN
  <2>1. CASE Reclaimable(held[w], from[w], age[w])
    <3>1. SetRow(Reclaimed(age[w]))
      BY <1>4, <2>1 DEF TryReclaim
    <3>2. row' \in Rows /\ lapsed' \in BOOLEAN
      BY <1>0, <3>1, SetRowLapsed, RowTypes DEF CallTypeOK
    <3> QED
      BY <1>0, <1>4, <2>1, <3>2 DEF TryReclaim, Goto, CallTypeOK
  <2>2. CASE ~Reclaimable(held[w], from[w], age[w])
    <3>1. CallTypeOK'
      <4>1. CASE pc[w] = "reclaim"
        BY <1>0, <1>4, <2>2, <4>1 DEF TryReclaim, Goto, CallTypeOK, Statuses
      <4>2. CASE pc[w] = "retry"
        BY <1>0, <1>4, <2>2, <4>2, CallReturns DEF TryReclaim
      <4> QED
        BY <1>4, <4>1, <4>2 DEF TryReclaim
    <3> QED
      BY <1>0, <1>4, <2>2, <3>1 DEF TryReclaim, KeepRow
  <2> QED
    BY <2>1, <2>2
<1>5. ASSUME NEW w \in Calls, Execute(w)
      PROVE  /\ row' \in Rows /\ CallTypeOK'
             /\ effects' \in Nat /\ lapsed' \in BOOLEAN
  <2>1. CallTypeOK'
    BY <1>0, <1>5 DEF Execute, Goto, CallTypeOK
  <2>2. effects' \in Nat
    BY <1>0, <1>5 DEF Execute
  <2> QED
    BY <1>0, <1>5, <2>1, <2>2 DEF Execute, KeepRow
<1>6. ASSUME NEW w \in Calls, MarkSucceeded(w)
      PROVE  /\ row' \in Rows /\ CallTypeOK'
             /\ effects' \in Nat /\ lapsed' \in BOOLEAN
  <2>1. row' \in Rows /\ lapsed' \in BOOLEAN
    <3>1. /\ held[w] \in Ids \cup {None} /\ print[w] \in Prints \cup {None}
          /\ age[w] \in 0..MaxAge
      BY <1>0 DEF CallTypeOK
    <3>2. Succeeded(held[w], print[w], TTL - age[w]) \in Rows
      BY <1>0, <3>1, RowTypes
    <3> QED
      BY <1>6, <3>2, SetRowLapsed DEF MarkSucceeded
  <2> QED
    BY <1>0, <1>6, <2>1, CallReturns DEF MarkSucceeded
<1>7. ASSUME NEW w \in Calls, MarkFailedRetryable(w)
      PROVE  /\ row' \in Rows /\ CallTypeOK'
             /\ effects' \in Nat /\ lapsed' \in BOOLEAN
  <2>1. row' \in Rows /\ lapsed' \in BOOLEAN
    <3>1. held[w] \in Ids \cup {None} /\ age[w] \in 0..MaxAge
      BY <1>0 DEF CallTypeOK
    <3>2. FailedRetryable(held[w], Backoff, TTL - age[w]) \in Rows
      BY <1>0, <3>1, RowTypes
    <3> QED
      BY <1>7, <3>2, SetRowLapsed DEF MarkFailedRetryable
  <2> QED
    BY <1>0, <1>7, <2>1, CallReturns DEF MarkFailedRetryable
<1>8. ASSUME NEW w \in Calls, Abandon(w)
      PROVE  /\ row' \in Rows /\ CallTypeOK'
             /\ effects' \in Nat /\ lapsed' \in BOOLEAN
  BY <1>0, <1>8, CallReturns DEF Abandon, KeepRow
<1>9. CASE DeleteExpired
  <2>1. row' \in Rows /\ lapsed' \in BOOLEAN
    BY <1>0, <1>9, SetRowLapsed, NoRowType DEF DeleteExpired
  <2> QED
    BY <1>0, <1>9, <2>1 DEF DeleteExpired, callVars, CallTypeOK
<1>10. CASE Tick
  <2>1. row' \in Rows /\ lapsed' \in BOOLEAN
    BY <1>0, <1>10, SetRowLapsed, RowTypes DEF Tick
  <2>2. age' \in [Calls -> 0..MaxAge]
    BY <1>0, <1>10, StoreAssumption, CallsAssumption DEF Tick, CallTypeOK
  <2> QED
    BY <1>0, <1>10, <2>1, <2>2 DEF Tick, CallTypeOK
<1>11. CASE UNCHANGED vars
  BY <1>0, <1>11 DEF vars, callVars, CallTypeOK
<1> QED
  BY <1>1, <1>2, <1>3, <1>4, <1>5, <1>6, <1>7, <1>8, <1>9, <1>10, <1>11
  DEF Next, CallStep

\* Rows, calls and histories keep their types.
THEOREM TypeCorrect == Spec => []TypeOK
  BY InitType, TypeStep, PTL DEF Spec

-----------------------------------------------------------------------------
(* One effect until expiry *)

\* A call retries only a row that it read as failed.
RetryInv == \A w \in Calls : pc[w] = "retry" => from[w] = "failed_retryable"

\* As long as no record has expired: the row's TTL is not over, so no call
\* takes the expired path; the row belongs to the one call that executes; and
\* a row that can be claimed, and a call that may still execute, mean that
\* nothing has succeeded yet.
EffectInv ==
    ~lapsed =>
        /\ RowExists => row.expires > 0
        /\ \A w \in Calls : pc[w] \notin {"reclaim", "latest"}
        /\ \A w \in Calls : pc[w] \in Owning => row.status = "processing" /\ row.id = held[w]
        /\ \A v, w \in Calls : pc[v] \in Owning /\ pc[w] \in Owning => v = w
        /\ row.status \in {"none", "failed_retryable"} => effects = 0
        /\ \A w \in Calls : pc[w] \in {"execute", "markFailed"} => effects = 0
        /\ effects <= 1

LEMMA RetryStep == TypeOK /\ RetryInv /\ [Next]_vars => RetryInv'
<1> SUFFICES ASSUME TypeOK, RetryInv, [Next]_vars PROVE RetryInv'
  OBVIOUS
<1> USE DEF Before, Owning, Steps
<1>0. row \in Rows /\ CallTypeOK
  BY TypeSplit
<1>1. ASSUME NEW w \in Calls, BeginExecute(w) \/ CreateProcessing(w) \/ Execute(w)
      PROVE  RetryInv'
  BY <1>0, <1>1 DEF RetryInv, BeginExecute, CreateProcessing, Execute, Goto, CallTypeOK
<1>2. ASSUME NEW w \in Calls, Return(w) PROVE RetryInv'
  BY <1>0, <1>2, CallReturns DEF RetryInv
<1>3. ASSUME NEW w \in Calls, GetExisting(w) PROVE RetryInv'
  <2>1. CASE Return(w)
    BY <1>2, <2>1
  <2>2. CASE Remember(w, "reclaim")
    BY <1>0, <2>2, CallRemembers DEF RetryInv
  <2>3. CASE Remember(w, "retry") /\ row.status = "failed_retryable"
    BY <1>0, <2>3, CallRemembers DEF RetryInv
  <2> QED
    BY <1>3, <2>1, <2>2, <2>3 DEF GetExisting
<1>4. ASSUME NEW w \in Calls, TryReclaim(w) PROVE RetryInv'
  <2>1. CASE Return(w)
    BY <1>2, <2>1
  <2>2. CASE Goto(w, "execute") /\ UNCHANGED from
    BY <1>0, <2>2, CallMoves DEF RetryInv
  <2>3. CASE Goto(w, "latest") /\ from' = [from EXCEPT ![w] = "none"]
    BY <1>0, <2>3, CallMoves DEF RetryInv, CallTypeOK
  <2> QED
    BY <1>4, <2>1, <2>2, <2>3 DEF TryReclaim
<1>5. ASSUME NEW w \in Calls, MarkSucceeded(w) \/ MarkFailedRetryable(w) \/ Abandon(w)
      PROVE  RetryInv'
  BY <1>2, <1>5 DEF MarkSucceeded, MarkFailedRetryable, Abandon
<1>6. CASE DeleteExpired \/ Tick \/ UNCHANGED vars
  BY <1>6 DEF RetryInv, DeleteExpired, Tick, vars, callVars
<1> QED
  BY <1>1, <1>3, <1>4, <1>5, <1>6 DEF Next, CallStep

\* Lapsing is not undone, and a row that replaces another is what lapses.
LEMMA SetRowKeeps ==
    ASSUME NEW r, SetRow(r), ~lapsed'
    PROVE  ~lapsed /\ row' = r /\ ~(r.status # "none" /\ r.expires <= 0)
  BY DEF SetRow

LEMMA EffectStep == TypeOK /\ RetryInv /\ EffectInv /\ [Next]_vars => EffectInv'
<1> SUFFICES ASSUME TypeOK, RetryInv, EffectInv, [Next]_vars, ~lapsed'
             PROVE  EffectInv'
  BY DEF EffectInv
<1> USE DEF Before, Owning, Steps, RowExists
<1>0. row \in Rows /\ CallTypeOK /\ effects \in Nat /\ lapsed \in BOOLEAN
  BY TypeSplit
<1>1. ASSUME NEW w \in Calls, BeginExecute(w) PROVE EffectInv'
  BY <1>0, <1>1 DEF EffectInv, BeginExecute, KeepRow, Goto, CallTypeOK
<1>2. ASSUME NEW w \in Calls, CreateProcessing(w) PROVE EffectInv'
  <2>1. CASE RowExists
    BY <1>0, <1>2, <2>1 DEF EffectInv, CreateProcessing, KeepRow, Goto, CallTypeOK
  <2>2. CASE ~RowExists
    <3>1. PICK i \in Ids : /\ SetRow(Created(i, print[w], age[w]))
                           /\ held' = [held EXCEPT ![w] = i]
      BY <1>2, <2>2 DEF CreateProcessing
    <3>2. ~lapsed /\ row' = Created(i, print[w], age[w]) /\ row'.expires > 0
      BY <3>1, SetRowKeeps, <1>0, StoreAssumption DEF Created, CallTypeOK
    <3>3. row'.status = "processing" /\ row'.id = i
      BY <3>2 DEF Created
    <3>4. effects' = 0 /\ \A v \in Calls : pc[v] \notin Owning
      BY <1>2, <2>2, <3>2 DEF EffectInv, CreateProcessing
    <3> QED
      BY <1>0, <1>2, <2>2, <3>1, <3>2, <3>3, <3>4
      DEF EffectInv, CreateProcessing, Goto, CallTypeOK
  <2> QED
    BY <2>1, <2>2
<1>3. ASSUME NEW w \in Calls, Return(w), KeepRow, UNCHANGED effects PROVE EffectInv'
  BY <1>0, <1>3, CallReturns DEF EffectInv, KeepRow
<1>4. ASSUME NEW w \in Calls, GetExisting(w) PROVE EffectInv'
  <2>1. CASE Return(w)
    BY <1>3, <1>4, <2>1 DEF GetExisting
  <2>2. CASE Remember(w, "retry")
    BY <1>0, <1>4, <2>2, CallRemembers DEF EffectInv, GetExisting, KeepRow
  <2>3. CASE Remember(w, "reclaim") /\ RowExists /\ ExpiredFor(w)
    BY <1>0, <1>4, <2>3 DEF EffectInv, GetExisting, KeepRow, ExpiredFor, Rows, Times, CallTypeOK
  <2> QED
    BY <1>4, <2>1, <2>2, <2>3 DEF GetExisting, SameRequest, ExpiredFor
<1>5. ASSUME NEW w \in Calls, TryReclaim(w) PROVE EffectInv'
  <2>1. CASE Reclaimable(held[w], from[w], age[w])
    <3>1. /\ SetRow(Reclaimed(age[w])) /\ Goto(w, "execute")
          /\ UNCHANGED <<held, effects>>
      BY <1>5, <2>1 DEF TryReclaim
    <3>2. ~lapsed /\ row' = Reclaimed(age[w]) /\ ~(row'.status # "none" /\ row'.expires <= 0)
      BY <3>1, SetRowKeeps
    <3>3. pc[w] = "retry" /\ row.id = held[w] /\ row.status = "failed_retryable"
      BY <1>5, <2>1, <3>2 DEF TryReclaim, EffectInv, RetryInv, Reclaimable
    <3>4. row'.status = "processing" /\ row'.id = held[w] /\ row'.expires = TTL - age[w]
      BY <1>0, <3>2, <3>3 DEF Reclaimed, Rows
    <3>5. row'.expires > 0
      BY <1>0, <3>2, <3>4, StoreAssumption DEF CallTypeOK
    <3>6. effects = 0 /\ \A v \in Calls : pc[v] \notin Owning
      BY <3>2, <3>3 DEF EffectInv
    <3> QED
      BY <1>0, <3>1, <3>3, <3>4, <3>5, <3>6, <3>2, CallMoves DEF EffectInv
  <2>2. CASE ~Reclaimable(held[w], from[w], age[w])
    <3>1. KeepRow /\ UNCHANGED effects /\ ~lapsed
      BY <1>5, <2>2 DEF TryReclaim, KeepRow
    <3>2. pc[w] = "retry" /\ Return(w)
      BY <1>5, <2>2, <3>1 DEF TryReclaim, EffectInv
    <3> QED
      BY <1>3, <3>1, <3>2
  <2> QED
    BY <2>1, <2>2
<1>6. ASSUME NEW w \in Calls, Execute(w) PROVE EffectInv'
  <2>1. ~lapsed /\ UNCHANGED <<row, held>> /\ pc[w] = "execute" /\ effects = 0
    BY <1>6 DEF Execute, KeepRow, EffectInv
  <2>2. /\ \A v \in Calls : v # w => pc'[v] = pc[v]
        /\ \/ pc'[w] = "markSucceeded" /\ effects' = 1
           \/ pc'[w] = "markFailed" /\ effects' = 0
    <3>1. \/ Goto(w, "markSucceeded") /\ effects' = effects + 1
          \/ Goto(w, "markFailed") /\ effects' = effects
      BY <1>6, <2>1 DEF Execute
    <3>2. CASE Goto(w, "markSucceeded") /\ effects' = effects + 1
      BY <1>0, <2>1, <3>2, CallMoves
    <3>3. CASE Goto(w, "markFailed") /\ effects' = effects
      BY <1>0, <2>1, <3>3, CallMoves
    <3> QED
      BY <3>1, <3>2, <3>3
  <2> QED
    BY <1>0, <2>1, <2>2 DEF EffectInv
<1>7. ASSUME NEW w \in Calls, MarkSucceeded(w) PROVE EffectInv'
  <2>1. ~lapsed /\ row.id = held[w] /\ row.status = "processing" /\ UNCHANGED effects
    BY <1>7, SetRowKeeps DEF MarkSucceeded, EffectInv
  <2>2. /\ row'.status = "succeeded" /\ row'.expires = TTL - age[w]
        /\ ~(row'.expires <= 0)
    <3>1. SetRow(Succeeded(held[w], print[w], TTL - age[w]))
      BY <1>7 DEF MarkSucceeded
    <3>2. row' = Succeeded(held[w], print[w], TTL - age[w]) /\ ~(row'.status # "none" /\ row'.expires <= 0)
      BY <3>1, SetRowKeeps
    <3>3. row'.status = "succeeded" /\ row'.expires = TTL - age[w]
      BY <1>0, <2>1, <3>2 DEF Succeeded, Rows
    <3> QED
      BY <3>2, <3>3
  <2>3. row'.expires > 0
    BY <1>0, <2>2, StoreAssumption DEF CallTypeOK
  <2>4. \A v \in Calls : pc'[v] \notin Owning
    BY <1>0, <1>7, <2>1, CallReturns DEF MarkSucceeded, EffectInv
  <2> QED
    BY <1>0, <1>7, <2>1, <2>2, <2>3, <2>4, CallReturns DEF EffectInv, MarkSucceeded
<1>8. ASSUME NEW w \in Calls, MarkFailedRetryable(w) PROVE EffectInv'
  <2>1. /\ ~lapsed /\ row.id = held[w] /\ row.status = "processing"
        /\ UNCHANGED effects /\ effects = 0
    BY <1>8, SetRowKeeps DEF MarkFailedRetryable, EffectInv
  <2>2. /\ row'.status = "failed_retryable" /\ row'.expires = TTL - age[w]
        /\ ~(row'.expires <= 0)
    <3>1. SetRow(FailedRetryable(held[w], Backoff, TTL - age[w]))
      BY <1>8 DEF MarkFailedRetryable
    <3>2. row' = FailedRetryable(held[w], Backoff, TTL - age[w]) /\ ~(row'.status # "none" /\ row'.expires <= 0)
      BY <3>1, SetRowKeeps
    <3>3. row'.status = "failed_retryable" /\ row'.expires = TTL - age[w]
      BY <1>0, <2>1, <3>2 DEF FailedRetryable, Rows
    <3> QED
      BY <3>2, <3>3
  <2>3. row'.expires > 0
    BY <1>0, <2>2, StoreAssumption DEF CallTypeOK
  <2>4. \A v \in Calls : pc'[v] \notin Owning
    BY <1>0, <1>8, <2>1, CallReturns DEF MarkFailedRetryable, EffectInv
  <2> QED
    BY <1>0, <1>8, <2>1, <2>2, <2>3, <2>4, CallReturns DEF EffectInv, MarkFailedRetryable
<1>9. ASSUME NEW w \in Calls, Abandon(w) PROVE EffectInv'
  BY <1>3, <1>9 DEF Abandon
<1>10. CASE DeleteExpired
  <2>1. ~lapsed /\ RowExists /\ row.expires <= 0
    BY <1>10, SetRowKeeps DEF DeleteExpired, Deletable
  <2>2. row.expires > 0 /\ row.expires \in Int
    BY <1>0, <2>1 DEF EffectInv, Rows, Times
  <2> QED
    BY <2>1, <2>2
<1>11. CASE Tick
  <2>1. ~lapsed /\ row' = RowLater /\ ~(row'.status # "none" /\ row'.expires <= 0)
    BY <1>11, SetRowKeeps DEF Tick
  <2>2. row'.status = row.status /\ row'.id = row.id /\ row'.expires \in Int
    BY <1>0, <2>1, TypeStep DEF RowLater, Rows, TypeOK, Times
  <2>3. RowExists' => row'.expires > 0
    BY <2>1, <2>2
  <2> QED
    BY <1>11, <2>1, <2>2, <2>3 DEF EffectInv, Tick
<1>12. CASE UNCHANGED vars
  BY <1>12 DEF EffectInv, vars, callVars
<1> QED
  BY <1>1, <1>2, <1>4, <1>5, <1>6, <1>7, <1>8, <1>9, <1>10, <1>11, <1>12
  DEF Next, CallStep

\* Until a record expires the protected operation succeeds at most once,
\* however many requests overlap, fail, retry or die: the claims of
\* CreateProcessing and TryReclaim and the tests between them see to it.
THEOREM OneEffect == Spec => []OneEffectUntilExpiry
<1>1. Init => RetryInv /\ EffectInv
  BY DEF Init, RetryInv, EffectInv, NoRow, RowExists, Owning
<1>2. EffectInv => OneEffectUntilExpiry
  BY DEF EffectInv, OneEffectUntilExpiry
<1> QED
  BY <1>1, <1>2, RetryStep, EffectStep, TypeStep, InitType, PTL DEF Spec

-----------------------------------------------------------------------------
(* Stored responses *)

Holding == Owning \cup {"reclaim", "retry"}

\* A call that has read or claimed a row and still finds that row finds it
\* with its own fingerprint; row ids are not used again while a call has them.
ResponseInv ==
    /\ row.status = "none" => row.id = None /\ row.response = None
    /\ RowExists => row.id # None
    /\ row.response # None => row.response = row.print
    /\ \A w \in Calls : pc[w] \in Holding =>
          held[w] # None /\ (row.id = held[w] => row.print = print[w])

\* It is preserved by a step that changes neither what the row is for nor
\* its response, if no other call comes to hold a row.
LEMMA SameRecord ==
    ASSUME ResponseInv, NEW w \in Calls, Return(w), CallTypeOK,
           row'.id = row.id, row'.print = row.print,
           row'.status = "none" <=> row.status = "none",
           row'.response # None =>
              row'.response = row.response \/ row'.response = row.print,
           row'.status = "none" => row'.response = None
    PROVE  ResponseInv'
<1>1. \A v \in Calls : v # w => pc'[v] = pc[v] /\ held'[v] = held[v] /\ print'[v] = print[v]
  BY CallReturns
<1>2. pc'[w] = "idle"
  BY CallReturns
<1>3. \A v \in Calls : pc'[v] \in Holding =>
          held'[v] # None /\ (row'.id = held'[v] => row'.print = print'[v])
  BY <1>1, <1>2 DEF ResponseInv, Holding, Owning
<1>4. /\ row'.status = "none" => row'.id = None /\ row'.response = None
      /\ row'.response # None => row'.response = row'.print
      /\ RowExists' => row'.id # None
  BY DEF ResponseInv, RowExists
<1> QED
  BY <1>3, <1>4 DEF ResponseInv

LEMMA ResponseStep == TypeOK /\ ResponseInv /\ [Next]_vars => ResponseInv'
<1> SUFFICES ASSUME TypeOK, ResponseInv, [Next]_vars PROVE ResponseInv'
  OBVIOUS
<1> USE DEF Before, Owning, Steps, Holding, RowExists
<1>0. row \in Rows /\ CallTypeOK
  BY TypeSplit
<1>1. ASSUME NEW w \in Calls, BeginExecute(w) \/ Execute(w) PROVE ResponseInv'
  <2>1. /\ UNCHANGED <<row, held>>
        /\ \A v \in Calls : pc'[v] \in Holding => pc[v] \in Holding /\ print'[v] = print[v]
    BY <1>0, <1>1 DEF BeginExecute, Execute, KeepRow, Goto, CallTypeOK
  <2> QED
    BY <2>1 DEF ResponseInv
<1>2. ASSUME NEW w \in Calls, CreateProcessing(w) PROVE ResponseInv'
  <2>1. CASE RowExists
    BY <1>0, <1>2, <2>1 DEF ResponseInv, CreateProcessing, KeepRow, Goto, CallTypeOK
  <2>2. CASE ~RowExists
    <3>1. PICK i \in Ids : /\ \A v \in Calls : held[v] # i
                           /\ SetRow(Created(i, print[w], age[w]))
                           /\ held' = [held EXCEPT ![w] = i]
      BY <1>2, <2>2 DEF CreateProcessing
    <3>2. /\ row'.id = i /\ row'.print = print[w] /\ row'.response = None
          /\ row'.status = "processing" /\ i # None
      BY <3>1, StoreAssumption DEF SetRow, Created
    <3>3. /\ pc'[w] = "execute" /\ held'[w] = i /\ UNCHANGED print
          /\ \A v \in Calls : v # w => pc'[v] = pc[v] /\ held'[v] = held[v]
      BY <1>0, <1>2, <2>2, <3>1 DEF CreateProcessing, Goto, CallTypeOK
    <3> QED
      BY <3>1, <3>2, <3>3 DEF ResponseInv
  <2> QED
    BY <2>1, <2>2
<1>3. ASSUME NEW w \in Calls, Return(w), KeepRow PROVE ResponseInv'
  BY <1>0, <1>3, CallReturns DEF ResponseInv, KeepRow
<1>4. ASSUME NEW w \in Calls, GetExisting(w) PROVE ResponseInv'
  <2>1. CASE Return(w)
    BY <1>3, <1>4, <2>1 DEF GetExisting
  <2>2. ASSUME NEW s \in {"reclaim", "retry"}, Remember(w, s), SameRequest(w)
        PROVE  ResponseInv'
    <3>1. UNCHANGED <<row, print>> /\ row.id # None /\ row.print = print[w]
      BY <1>4, <2>2 DEF GetExisting, KeepRow, Remember, SameRequest, ResponseInv
    <3> QED
      BY <1>0, <2>2, <3>1, CallRemembers DEF ResponseInv
  <2> QED
    BY <1>4, <2>1, <2>2 DEF GetExisting
<1>5. ASSUME NEW w \in Calls, TryReclaim(w) PROVE ResponseInv'
  <2>1. CASE Reclaimable(held[w], from[w], age[w])
    <3>1. row' = Reclaimed(age[w]) /\ Goto(w, "execute") /\ UNCHANGED <<held, print>>
      BY <1>5, <2>1 DEF TryReclaim, SetRow
    <3>2. /\ row'.id = row.id /\ row'.print = row.print /\ row'.response = row.response
          /\ row'.status = "processing"
      BY <1>0, <3>1 DEF Reclaimed, Rows
    <3>3. row.id = held[w] /\ held[w] # None
      BY <1>5, <2>1 DEF Reclaimable, TryReclaim, ResponseInv
    <3> QED
      BY <1>0, <1>5, <3>1, <3>2, <3>3, CallMoves DEF ResponseInv, TryReclaim
  <2>2. CASE ~Reclaimable(held[w], from[w], age[w]) /\ pc[w] = "retry"
    BY <1>3, <1>5, <2>2 DEF TryReclaim
  <2>3. CASE ~Reclaimable(held[w], from[w], age[w]) /\ pc[w] = "reclaim"
    <3>1. /\ UNCHANGED <<row, print>> /\ pc'[w] = "latest"
          /\ \A v \in Calls : v # w => pc'[v] = pc[v] /\ held'[v] = held[v]
      BY <1>0, <1>5, <2>3 DEF TryReclaim, KeepRow, Goto, CallTypeOK
    <3> QED
      BY <3>1 DEF ResponseInv
  <2> QED
    BY <1>5, <2>1, <2>2, <2>3 DEF TryReclaim
<1>6. ASSUME NEW w \in Calls, MarkSucceeded(w) PROVE ResponseInv'
  <2>1. row' = Succeeded(held[w], print[w], TTL - age[w]) /\ Return(w)
    BY <1>6 DEF MarkSucceeded, SetRow
  <2>2. held[w] # None /\ (row.id = held[w] => row.print = print[w])
    BY <1>6 DEF MarkSucceeded, ResponseInv
  <2>3. /\ row'.id = row.id /\ row'.print = row.print
        /\ row'.status = "none" <=> row.status = "none"
        /\ row'.response = row.response \/ row'.response = row.print
        /\ row'.status = "none" => row'.response = None
    BY <1>0, <2>1, <2>2 DEF Succeeded, Rows, ResponseInv
  <2> QED
    BY <1>0, <2>1, <2>3, SameRecord
<1>7. ASSUME NEW w \in Calls, MarkFailedRetryable(w) PROVE ResponseInv'
  <2>1. row' = FailedRetryable(held[w], Backoff, TTL - age[w]) /\ Return(w)
    BY <1>7 DEF MarkFailedRetryable, SetRow
  <2>2. held[w] # None
    BY <1>7 DEF MarkFailedRetryable, ResponseInv
  <2>3. /\ row'.id = row.id /\ row'.print = row.print /\ row'.response = row.response
        /\ row'.status = "none" <=> row.status = "none"
        /\ row'.status = "none" => row'.response = None
    BY <1>0, <2>1, <2>2 DEF FailedRetryable, Rows, ResponseInv
  <2> QED
    BY <1>0, <2>1, <2>3, SameRecord
<1>8. ASSUME NEW w \in Calls, Abandon(w) PROVE ResponseInv'
  BY <1>3, <1>8 DEF Abandon
<1>9. CASE DeleteExpired
  BY <1>9 DEF DeleteExpired, SetRow, NoRow, ResponseInv, callVars
<1>10. CASE Tick
  <2>1. /\ row'.id = row.id /\ row'.print = row.print /\ row'.response = row.response
        /\ row'.status = row.status
    BY <1>0, <1>10 DEF Tick, SetRow, RowLater, Rows
  <2> QED
    BY <1>10, <2>1 DEF Tick, ResponseInv
<1>11. CASE UNCHANGED vars
  BY <1>11 DEF vars, callVars, ResponseInv
<1> QED
  BY <1>1, <1>2, <1>4, <1>5, <1>6, <1>7, <1>8, <1>9, <1>10, <1>11 DEF Next, CallStep

\* However late a mark comes, a stored response answers the request that its
\* record was made for.
THEOREM ResponseOwn == Spec => []ResponseIsOwn
<1>1. Init => ResponseInv
  BY DEF Init, ResponseInv, NoRow, RowExists, Holding, Owning
<1>2. ResponseInv => ResponseIsOwn
  BY DEF ResponseInv, ResponseIsOwn
<1> QED
  BY <1>1, <1>2, ResponseStep, TypeStep, InitType, PTL DEF Spec

-----------------------------------------------------------------------------
(* Exclusive execution *)

\* The row is the one call w claimed, locked and kept from the start of w.
RowOf(w) ==
    /\ row.status = "processing"
    /\ row.id = held[w]
    /\ row.expires = TTL - age[w]
    /\ row.lock = LockTime - age[w]

\* An executing call has the row; a call about to reclaim started at most
\* MaxStall later than the executing one, so that the lock, which it compares
\* with its own start, is not over for it.
ExclusiveInv ==
    /\ \A w \in Calls : pc[w] \in Owning => RowOf(w)
    /\ \A v, w \in Calls : pc[v] \in Owning /\ pc[w] \in Owning => v = w
    /\ \A w \in Calls : pc[w] \notin Owning => age[w] <= MaxStall
    /\ \A v, w \in Calls : pc[v] \in Owning /\ pc[w] = "reclaim" =>
          age[v] - age[w] <= MaxStall

LEMMA ExclusiveStep ==
    ASSUME MaxStall < LockTime, MaxAge < TTL
    PROVE  TypeOK /\ RetryInv /\ ExclusiveInv /\ [Next]_vars => ExclusiveInv'
<1> SUFFICES ASSUME TypeOK, RetryInv, ExclusiveInv, [Next]_vars PROVE ExclusiveInv'
  OBVIOUS
<1> USE DEF Before, Owning, Steps, RowExists
<1>0. /\ row \in Rows /\ CallTypeOK
      /\ \A w \in Calls : age[w] \in Int /\ 0 <= age[w] /\ age[w] <= MaxAge
      /\ TTL \in Int /\ LockTime \in Int /\ MaxAge \in Int /\ MaxStall \in Int
      /\ 0 <= MaxStall /\ MaxStall <= MaxAge /\ 0 < LockTime
  BY TypeSplit, StoreAssumption, CallsAssumption DEF CallTypeOK
<1>1. ASSUME NEW w \in Calls, Return(w), KeepRow PROVE ExclusiveInv'
  BY <1>0, <1>1, CallReturns DEF ExclusiveInv, RowOf, KeepRow
<1>2. ASSUME NEW w \in Calls, BeginExecute(w) PROVE ExclusiveInv'
  <2>1. /\ UNCHANGED <<row, age, held>> /\ pc'[w] = "create" /\ age[w] <= MaxStall
        /\ \A v \in Calls : v # w => pc'[v] = pc[v]
    BY <1>0, <1>2, CallMoves DEF BeginExecute, KeepRow, ExclusiveInv
  <2> QED
    BY <2>1 DEF ExclusiveInv, RowOf
<1>3. ASSUME NEW w \in Calls, CreateProcessing(w) PROVE ExclusiveInv'
  <2>1. CASE RowExists
    <3>1. /\ UNCHANGED <<row, age, held>> /\ pc'[w] = "get" /\ pc[w] = "create"
          /\ \A v \in Calls : v # w => pc'[v] = pc[v]
      BY <1>0, <1>3, <2>1, CallMoves DEF CreateProcessing, KeepRow
    <3> QED
      BY <3>1 DEF ExclusiveInv, RowOf
  <2>2. CASE ~RowExists
    <3>1. PICK i \in Ids : /\ SetRow(Created(i, print[w], age[w]))
                           /\ held' = [held EXCEPT ![w] = i]
      BY <1>3, <2>2 DEF CreateProcessing
    <3>2. /\ row'.id = i /\ row'.status = "processing"
          /\ row'.expires = TTL - age[w] /\ row'.lock = LockTime - age[w]
      BY <3>1 DEF SetRow, Created
    <3>3. /\ pc[w] = "create" /\ pc'[w] = "execute" /\ held'[w] = i /\ UNCHANGED age
          /\ \A v \in Calls : v # w => pc'[v] = pc[v] /\ held'[v] = held[v]
      BY <1>0, <1>3, <2>2, <3>1 DEF CreateProcessing, Goto, CallTypeOK
    <3>4. \A v \in Calls : pc[v] \notin Owning
      BY <2>2 DEF ExclusiveInv, RowOf
    <3>5. \A v \in Calls : age[w] - age[v] <= MaxStall
      BY <1>0, <3>3 DEF ExclusiveInv
    <3> QED
      BY <3>2, <3>3, <3>4, <3>5 DEF ExclusiveInv, RowOf
  <2> QED
    BY <2>1, <2>2
<1>4. ASSUME NEW w \in Calls, GetExisting(w) PROVE ExclusiveInv'
  <2>1. CASE Return(w)
    BY <1>1, <1>4, <2>1 DEF GetExisting
  <2>2. /\ pc[w] \in {"get", "latest"} /\ KeepRow
    BY <1>4 DEF GetExisting
  <2>3. ASSUME NEW s \in {"reclaim", "retry"}, Remember(w, s)
        PROVE  /\ UNCHANGED <<row, age>> /\ pc'[w] = s
               /\ \A v \in Calls : v # w => pc'[v] = pc[v] /\ held'[v] = held[v]
    BY <1>0, <2>2, <2>3, CallRemembers DEF KeepRow, Remember
  <2>4. CASE Remember(w, "retry")
    BY <2>2, <2>3, <2>4 DEF ExclusiveInv, RowOf
  <2>5. CASE Remember(w, "reclaim") /\ ExpiredFor(w)
    <3>1. \A v \in Calls : pc[v] \notin Owning
      BY <1>0, <2>5 DEF ExclusiveInv, RowOf, ExpiredFor
    <3> QED
      BY <2>2, <2>3, <2>5, <3>1 DEF ExclusiveInv, RowOf
  <2> QED
    BY <1>4, <2>1, <2>4, <2>5 DEF GetExisting
<1>5. ASSUME NEW w \in Calls, TryReclaim(w) PROVE ExclusiveInv'
  <2>1. CASE Reclaimable(held[w], from[w], age[w])
    <3>1. /\ row' = Reclaimed(age[w]) /\ Goto(w, "execute") /\ UNCHANGED <<held, age>>
          /\ pc[w] \in {"reclaim", "retry"}
      BY <1>5, <2>1 DEF TryReclaim, SetRow
    <3>2. /\ row'.id = held[w] /\ row'.status = "processing"
          /\ row'.expires = TTL - age[w] /\ row'.lock = LockTime - age[w]
      BY <1>0, <2>1, <3>1 DEF Reclaimed, Reclaimable, Rows
    <3>3. ASSUME NEW v \in Calls, pc[v] \in Owning PROVE FALSE
      <4>1. row.status = "processing" /\ row.lock = LockTime - age[v]
        BY <3>3 DEF ExclusiveInv, RowOf
      <4>2. pc[w] = "reclaim" /\ row.lock <= -age[w]
        BY <2>1, <3>1, <4>1 DEF Reclaimable, RetryInv
      <4>3. age[v] - age[w] <= MaxStall
        BY <3>3, <4>2 DEF ExclusiveInv
      <4> QED
        BY <1>0, <4>1, <4>2, <4>3
    <3>4. \A v \in Calls : age[w] - age[v] <= MaxStall
      BY <1>0, <3>1 DEF ExclusiveInv
    <3>5. pc'[w] = "execute" /\ \A v \in Calls : v # w => pc'[v] = pc[v]
      BY <1>0, <3>1, CallMoves
    <3> QED
      BY <3>1, <3>2, <3>3, <3>4, <3>5 DEF ExclusiveInv, RowOf
  <2>2. CASE ~Reclaimable(held[w], from[w], age[w]) /\ pc[w] = "retry"
    BY <1>1, <1>5, <2>2 DEF TryReclaim
  <2>3. CASE ~Reclaimable(held[w], from[w], age[w]) /\ pc[w] = "reclaim"
    <3>1. /\ UNCHANGED <<row, age>> /\ pc'[w] = "latest"
          /\ \A v \in Calls : v # w => pc'[v] = pc[v] /\ held'[v] = held[v]
      BY <1>0, <1>5, <2>3 DEF TryReclaim, KeepRow, Goto, CallTypeOK
    <3> QED
      BY <2>3, <3>1 DEF ExclusiveInv, RowOf
  <2> QED
    BY <1>5, <2>1, <2>2, <2>3 DEF TryReclaim
<1>6. ASSUME NEW w \in Calls, Execute(w) PROVE ExclusiveInv'
  <2>1. /\ UNCHANGED <<row, age, held>> /\ pc[w] = "execute" /\ pc'[w] \in Owning
        /\ \A v \in Calls : v # w => pc'[v] = pc[v]
    BY <1>0, <1>6, CallMoves DEF Execute, KeepRow
  <2> QED
    BY <2>1 DEF ExclusiveInv, RowOf
<1>7. ASSUME NEW w \in Calls, Return(w), pc[w] \in Owning PROVE ExclusiveInv'
  <2>1. \A v \in Calls : pc'[v] \notin Owning
    BY <1>0, <1>7, CallReturns DEF ExclusiveInv
  <2>2. \A v \in Calls : pc'[v] \notin Owning => age'[v] <= MaxStall
    BY <1>0, <1>7, CallReturns DEF ExclusiveInv
  <2> QED
    BY <2>1, <2>2 DEF ExclusiveInv
<1>8. ASSUME NEW w \in Calls, MarkSucceeded(w) \/ MarkFailedRetryable(w)
      PROVE  ExclusiveInv'
  BY <1>7, <1>8 DEF MarkSucceeded, MarkFailedRetryable
<1>9. ASSUME NEW w \in Calls, Abandon(w) PROVE ExclusiveInv'
  BY <1>1, <1>9 DEF Abandon
<1>10. CASE DeleteExpired
  <2>1. \A w \in Calls : pc[w] \notin Owning
    BY <1>0, <1>10 DEF DeleteExpired, Deletable, ExclusiveInv, RowOf
  <2> QED
    BY <1>10, <2>1 DEF DeleteExpired, ExclusiveInv, callVars
<1>11. CASE Tick
  <2>1. /\ UNCHANGED <<pc, held>>
        /\ \A w \in Calls : age'[w] = IF pc[w] = "idle" THEN 0 ELSE age[w] + 1
        /\ \A w \in Calls : pc[w] \in Before => age[w] < MaxStall
        /\ row' = RowLater
    BY <1>11 DEF Tick, SetRow
  <2>2. ASSUME NEW w \in Calls, pc[w] \in Owning PROVE RowOf(w)'
    <3>1. RowOf(w) /\ row.status = "processing" /\ age'[w] = age[w] + 1
      BY <2>1, <2>2 DEF ExclusiveInv, RowOf
    <3>2. Later(row.lock) = LockTime - (age[w] + 1) /\ Later(row.expires) = TTL - (age[w] + 1)
      BY <1>0, <3>1 DEF RowOf, Later, Past
    <3>3. row' = [row EXCEPT !.lock = Later(row.lock), !.expires = Later(row.expires)]
      BY <2>1, <3>1 DEF RowLater
    <3>4. /\ row'.status = row.status /\ row'.id = row.id
          /\ row'.lock = Later(row.lock) /\ row'.expires = Later(row.expires)
      BY <1>0, <3>3 DEF Rows
    <3> QED
      BY <2>1, <3>1, <3>2, <3>4 DEF RowOf
  <2>3. \A w \in Calls : pc[w] \notin Owning => age'[w] <= MaxStall
    BY <1>0, <2>1 DEF CallTypeOK
  <2>4. \A v, w \in Calls : pc[v] \in Owning /\ pc[w] = "reclaim" =>
          age'[v] - age'[w] <= MaxStall
    BY <1>0, <2>1 DEF ExclusiveInv
  <2> QED
    BY <2>1, <2>2, <2>3, <2>4 DEF ExclusiveInv
<1>12. CASE UNCHANGED vars
  BY <1>12 DEF ExclusiveInv, RowOf, vars, callVars
<1> QED
  BY <1>2, <1>3, <1>4, <1>5, <1>6, <1>8, <1>9, <1>10, <1>11, <1>12 DEF Next, CallStep

\* If claims are made sooner after the request's start than the lock lasts,
\* and calls end sooner than the TTL, no two calls execute at once.
THEOREM Exclusive ==
    ASSUME MaxStall < LockTime, MaxAge < TTL
    PROVE  Spec => []ExclusiveExecution
<1>1. Init => RetryInv /\ ExclusiveInv
  BY CallsAssumption DEF Init, RetryInv, ExclusiveInv, Owning
<1>2. ExclusiveInv => ExclusiveExecution
  BY DEF ExclusiveInv, ExclusiveExecution
<1>3. TypeOK /\ RetryInv /\ ExclusiveInv /\ [Next]_vars => ExclusiveInv'
  BY ExclusiveStep
<1> QED
  BY <1>1, <1>2, <1>3, RetryStep, TypeStep, InitType, PTL DEF Spec
-----------------------------------------------------------------------------
(* The system operation lock                                               *)
(*                                                                         *)
(* SystemOperationLock keeps its lock in a row of the same table; its      *)
(* calls have the variables of a request and two of their own.             *)

CONSTANT MaxGap             \* bound: the time between two renewals
VARIABLES
    renewing,               \* per call: its renewal is alive
    gap,                    \* per call: time since the last renewal
    outrun                  \* a lock that was taken over has run out

Lock == INSTANCE SystemOperationLock

LockRuns(w) == pc[w] = "running"

\* The operation runs on the row that it created.
LockOwns(w) == LockRuns(w) /\ from[w] = "none"

\* Running operations know the row and it is kept for them; one that created the
\* row is alone, and its renewals keep the lock from running out; unless a lock
\* that was taken over has run out, any running operation is alone and has it.
LockInv ==
    /\ \A w \in Calls : LockRuns(w) =>
          /\ row.status # "none"
          /\ row.id = held[w]
          /\ row.expires >= TTL - MaxStall - age[w]
    /\ \A w \in Calls : LockOwns(w) =>
          /\ row.status = "processing"
          /\ row.print = print[w]
          /\ row.lock >= LockTime - MaxStall - gap[w]
          /\ renewing[w]
          /\ \A v \in Calls : LockRuns(v) => v = w
    /\ ~outrun => \A w \in Calls : LockRuns(w) =>
          /\ row.status = "processing"
          /\ row.lock > 0
          /\ \A v \in Calls : LockRuns(v) => v = w

\* What the bounds on stalls and on gaps give, and what a call that has not
\* claimed the row, or takes it over, has read.
LockTimesInv ==
    /\ \A w \in Calls : renewing[w] => LockRuns(w)
    /\ \A w \in Calls : ~renewing[w] => gap[w] = 0
    /\ \A w \in Calls : gap[w] <= age[w] /\ gap[w] <= MaxGap
    /\ \A w \in Calls : ~LockRuns(w) => age[w] <= MaxStall
    /\ \A w \in Calls : pc[w] = "idle" => age[w] = 0
    /\ \A w \in Calls : pc[w] = "reclaim" => from[w] # "none"

\* Every statement's row is a row.
LEMMA LockRowTypes ==
    ASSUME row \in Lock!Rows
    PROVE  /\ Lock!RowLater \in Lock!Rows
           /\ \A i \in Ids, p \in Prints \cup {None}, a \in 0..MaxAge :
                Lock!Created(i, p, a) \in Lock!Rows
           /\ \A a \in 0..MaxAge : Lock!Reclaimed(a) \in Lock!Rows
           /\ Lock!Extended \in Lock!Rows
           /\ \A i \in Ids \cup {None}, p \in Prints \cup {None} :
                Lock!Succeeded(i, p, TTL) \in Lock!Rows
           /\ \A i \in Ids \cup {None} : Lock!FailedRetryable(i, 0, TTL) \in Lock!Rows
<1> USE DEF Lock!Rows, Lock!Statuses
<1>1. /\ Lock!Past \in Lock!Times /\ TTL \in Lock!Times /\ LockTime \in Lock!Times
      /\ 0 \in Lock!Times
      /\ \A a \in 0..MaxAge : TTL - a \in Lock!Times /\ LockTime - a \in Lock!Times
  BY StoreAssumption DEF Lock!Past, Lock!Times
<1>3. \A t \in Lock!Times : Lock!Later(t) \in Lock!Times
  BY StoreAssumption DEF Lock!Past, Lock!Times, Lock!Later
<1>5. Lock!RowLater \in Lock!Rows
  BY <1>3 DEF Lock!RowLater
<1>6. \A i \in Ids, p \in Prints \cup {None}, a \in 0..MaxAge :
        Lock!Created(i, p, a) \in Lock!Rows
  BY <1>1 DEF Lock!Created
<1>7. \A a \in 0..MaxAge : Lock!Reclaimed(a) \in Lock!Rows
  BY <1>1 DEF Lock!Reclaimed
<1>8. Lock!Extended \in Lock!Rows
  BY <1>1 DEF Lock!Extended
<1>9. \A i \in Ids \cup {None}, p \in Prints \cup {None} :
        Lock!Succeeded(i, p, TTL) \in Lock!Rows
  BY <1>1 DEF Lock!Succeeded
<1>10. \A i \in Ids \cup {None} : Lock!FailedRetryable(i, 0, TTL) \in Lock!Rows
  BY <1>1 DEF Lock!FailedRetryable
<1> QED
  BY <1>5, <1>6, <1>7, <1>8, <1>9, <1>10

\* A call that ends, and what it leaves of the other calls.
LEMMA LockReturns ==
    ASSUME Lock!TypeOK, NEW w \in Calls, Lock!Return(w)
    PROVE  /\ pc' \in [Calls -> {"idle", "running"} \cup Lock!Before]
           /\ age' \in [Calls -> 0..MaxAge]
           /\ print' \in [Calls -> Prints \cup {None}]
           /\ held' \in [Calls -> Ids \cup {None}]
           /\ from' \in [Calls -> Lock!Statuses]
           /\ renewing' \in [Calls -> BOOLEAN]
           /\ gap' \in [Calls -> 0..MaxAge]
           /\ outrun' \in BOOLEAN
           /\ ~outrun' => ~outrun \/ \A v \in Calls : LockRuns(v) => v = w
           /\ pc'[w] = "idle" /\ age'[w] = 0 /\ gap'[w] = 0 /\ ~renewing'[w]
           /\ \A v \in Calls : v # w =>
                 /\ pc'[v] = pc[v] /\ age'[v] = age[v] /\ held'[v] = held[v]
                 /\ print'[v] = print[v] /\ from'[v] = from[v] /\ gap'[v] = gap[v]
                 /\ renewing'[v] = renewing[v]
<1> USE DEF Lock!TypeOK, Lock!Return, Lock!Goto
<1>1. /\ pc' \in [Calls -> {"idle", "running"} \cup Lock!Before]
      /\ from' \in [Calls -> Lock!Statuses]
      /\ print' \in [Calls -> Prints \cup {None}]
      /\ held' \in [Calls -> Ids \cup {None}]
      /\ pc'[w] = "idle"
      /\ \A v \in Calls : v # w => /\ pc'[v] = pc[v] /\ held'[v] = held[v]
                                 /\ print'[v] = print[v] /\ from'[v] = from[v]
  BY DEF Lock!Statuses
<1>2. /\ age' \in [Calls -> 0..MaxAge] /\ gap' \in [Calls -> 0..MaxAge]
      /\ age'[w] = 0 /\ gap'[w] = 0
      /\ \A v \in Calls : v # w => age'[v] = age[v] /\ gap'[v] = gap[v]
  BY StoreAssumption
<1>3. /\ renewing' \in [Calls -> BOOLEAN] /\ ~renewing'[w]
      /\ \A v \in Calls : v # w => renewing'[v] = renewing[v]
  BY Zenon
<1>4. /\ outrun' \in BOOLEAN
      /\ ~outrun' => ~outrun \/ \A v \in Calls : LockRuns(v) => v = w
  BY Zenon DEF Lock!Running, LockRuns
<1> QED
  BY <1>1, <1>2, <1>3, <1>4

\* A call that has claimed the row, and what it leaves of the other calls.
LEMMA LockStarts ==
    ASSUME Lock!TypeOK, NEW w \in Calls, NEW i \in Ids \cup {None}, Lock!StartOperation(w, i)
    PROVE  /\ pc' \in [Calls -> {"idle", "running"} \cup Lock!Before]
           /\ held' \in [Calls -> Ids \cup {None}]
           /\ renewing' \in [Calls -> BOOLEAN]
           /\ pc'[w] = "running" /\ held'[w] = i
           /\ UNCHANGED <<age, print, from, gap, outrun>>
           /\ \A v \in Calls : v # w =>
                 /\ pc'[v] = pc[v] /\ held'[v] = held[v]
                 /\ renewing'[v] = renewing[v]
<1> USE DEF Lock!TypeOK, Lock!StartOperation, Lock!Goto
<1>1. /\ pc' \in [Calls -> {"idle", "running"} \cup Lock!Before]
      /\ held' \in [Calls -> Ids \cup {None}]
      /\ pc'[w] = "running" /\ held'[w] = i
      /\ \A v \in Calls : v # w => pc'[v] = pc[v] /\ held'[v] = held[v]
  OBVIOUS
<1>2. /\ renewing' \in [Calls -> BOOLEAN]
      /\ \A v \in Calls : v # w => renewing'[v] = renewing[v]
  BY Zenon
<1>3. UNCHANGED <<age, print, from, gap, outrun>>
  OBVIOUS
<1> QED
  BY <1>1, <1>2, <1>3

LEMMA LockTypeStep ==
    Lock!TypeOK /\ LockTimesInv /\ [Lock!Next]_(Lock!vars) => Lock!TypeOK'
<1> SUFFICES ASSUME Lock!TypeOK, LockTimesInv, [Lock!Next]_(Lock!vars) PROVE Lock!TypeOK'
  OBVIOUS
<1>0. /\ row \in Lock!Rows
      /\ pc \in [Calls -> {"idle", "running"} \cup Lock!Before]
      /\ age \in [Calls -> 0..MaxAge]
      /\ print \in [Calls -> Prints \cup {None}]
      /\ held \in [Calls -> Ids \cup {None}]
      /\ from \in [Calls -> Lock!Statuses]
      /\ renewing \in [Calls -> BOOLEAN]
      /\ gap \in [Calls -> 0..MaxAge]
      /\ outrun \in BOOLEAN
  BY DEF Lock!TypeOK
<1>1. ASSUME NEW w \in Calls, Lock!Return(w), row' \in Lock!Rows PROVE Lock!TypeOK'
  BY <1>1, LockReturns DEF Lock!TypeOK
<1>2. ASSUME NEW w \in Calls, NEW i \in Ids \cup {None}, Lock!StartOperation(w, i),
             row' \in Lock!Rows
      PROVE  Lock!TypeOK'
  BY <1>0, <1>2, LockStarts DEF Lock!TypeOK
<1>3. ASSUME NEW w \in Calls, Lock!BeginAcquire(w) PROVE Lock!TypeOK'
  BY <1>0, <1>3 DEF Lock!BeginAcquire, Lock!Goto, Lock!Before, Lock!TypeOK
<1>4. ASSUME NEW w \in Calls, Lock!CreateProcessing(w) PROVE Lock!TypeOK'
  <2>1. CASE Lock!RowExists
    BY <1>0, <1>4, <2>1 DEF Lock!CreateProcessing, Lock!Goto, Lock!Before, Lock!TypeOK
  <2>2. CASE ~Lock!RowExists
    <3>1. PICK i \in Ids : row' = Lock!Created(i, print[w], age[w]) /\ Lock!StartOperation(w, i)
      BY <1>4, <2>2 DEF Lock!CreateProcessing
    <3>2. row' \in Lock!Rows
      BY <1>0, <3>1, LockRowTypes
    <3> QED
      BY <1>2, <3>1, <3>2
  <2> QED
    BY <2>1, <2>2
<1>5. ASSUME NEW w \in Calls, Lock!GetExisting(w) PROVE Lock!TypeOK'
  <2>1. CASE Lock!Return(w)
    BY <1>0, <1>1, <1>5, <2>1 DEF Lock!GetExisting
  <2>2. CASE ~Lock!Return(w)
    <3>1. /\ Lock!Goto(w, "reclaim")
          /\ held' = [held EXCEPT ![w] = row.id]
          /\ from' = [from EXCEPT ![w] = row.status]
          /\ UNCHANGED <<age, print, renewing, gap, row, outrun>>
      BY <1>5, <2>2 DEF Lock!GetExisting
    <3>2. row.id \in Ids \cup {None} /\ row.status \in Lock!Statuses
      BY <1>0 DEF Lock!Rows
    <3> QED
      BY <1>0, <3>1, <3>2 DEF Lock!Goto, Lock!Before, Lock!TypeOK
  <2> QED
    BY <2>1, <2>2
<1>6. ASSUME NEW w \in Calls, Lock!TryReclaim(w) PROVE Lock!TypeOK'
  <2>1. CASE Lock!Reclaimable(held[w], from[w], age[w])
    <3>1. row' = Lock!Reclaimed(age[w]) /\ Lock!StartOperation(w, held[w])
      BY <1>6, <2>1 DEF Lock!TryReclaim
    <3>2. row' \in Lock!Rows
      BY <1>0, <3>1, LockRowTypes
    <3> QED
      BY <1>0, <1>2, <3>1, <3>2
  <2>2. CASE ~Lock!Reclaimable(held[w], from[w], age[w])
    BY <1>0, <1>1, <1>6, <2>2 DEF Lock!TryReclaim
  <2> QED
    BY <2>1, <2>2
<1>7. ASSUME NEW w \in Calls, Lock!Renew(w) PROVE Lock!TypeOK'
  <2>1. row' \in Lock!Rows
    BY <1>0, <1>7, LockRowTypes DEF Lock!Renew
  <2>2. renewing' \in [Calls -> BOOLEAN]
    BY <1>0, <1>7, Zenon DEF Lock!Renew
  <2>3. gap' \in [Calls -> 0..MaxAge]
    <3>1. gap' = [gap EXCEPT ![w] = 0]
      BY <1>7 DEF Lock!Renew
    <3> QED
      BY <1>0, <3>1, StoreAssumption
  <2>4. UNCHANGED <<pc, age, print, held, from, outrun>>
    BY <1>7 DEF Lock!Renew
  <2> QED
    BY <1>0, <2>1, <2>2, <2>3, <2>4 DEF Lock!TypeOK
<1>8. ASSUME NEW w \in Calls, Lock!Release(w) PROVE Lock!TypeOK'
  <2>1. row' \in Lock!Rows
    BY <1>0, <1>8, LockRowTypes DEF Lock!Release
  <2> QED
    BY <1>1, <1>8, <2>1 DEF Lock!Release
<1>9. ASSUME NEW w \in Calls, Lock!Abandon(w) PROVE Lock!TypeOK'
  BY <1>0, <1>1, <1>9 DEF Lock!Abandon
<1>10. CASE Lock!DeleteExpired
  <2>1. Lock!NoRow \in Lock!Rows
    BY StoreAssumption DEF Lock!NoRow, Lock!Rows, Lock!Statuses, Lock!Times, Lock!Past
  <2> QED
    BY <1>0, <1>10, <2>1 DEF Lock!DeleteExpired, Lock!TypeOK
<1>11. CASE Lock!Tick
  <2>1. row' \in Lock!Rows
    BY <1>0, <1>11, LockRowTypes DEF Lock!Tick
  <2>2. \A w \in Calls : pc[w] # "idle" => age[w] < MaxAge
    BY <1>0, <1>11, StoreAssumption, CallsAssumption DEF Lock!Tick, Lock!Before
  <2>3. age' \in [Calls -> 0..MaxAge]
    BY <1>0, <1>11, <2>2, StoreAssumption DEF Lock!Tick
  <2>4. \A w \in Calls : renewing[w] => gap[w] < MaxAge
    <3>1. \A w \in Calls : renewing[w] => pc[w] # "idle"
      BY DEF LockTimesInv, LockRuns
    <3>2. \A w \in Calls : gap[w] <= age[w]
      BY DEF LockTimesInv
    <3>3. \A w \in Calls : pc[w] # "idle" => gap[w] < MaxAge
      BY <1>0, <2>2, <3>2, StoreAssumption
    <3> QED
      BY <3>1, <3>3
  <2>5. gap' \in [Calls -> 0..MaxAge]
    <3>1. gap' = [w \in Calls |-> IF renewing[w] THEN gap[w] + 1 ELSE 0]
      BY <1>11 DEF Lock!Tick
    <3> QED
      BY <1>0, <3>1, <2>4, StoreAssumption
  <2>6. UNCHANGED <<pc, print, held, from, renewing>>
    BY <1>11 DEF Lock!Tick
  <2>7. outrun' \in BOOLEAN
    BY <1>0, <1>11, Zenon DEF Lock!Tick
  <2> QED
    BY <1>0, <2>1, <2>3, <2>5, <2>6, <2>7 DEF Lock!TypeOK
<1>12. CASE UNCHANGED Lock!vars
  BY <1>12 DEF Lock!vars, Lock!TypeOK
<1> QED
  BY <1>3, <1>4, <1>5, <1>6, <1>7, <1>8, <1>9, <1>10, <1>11, <1>12 DEF Lock!Next

\* No step takes a bound on a stall or on a gap away.
LEMMA LockTimesStep ==
    ASSUME MaxGap \in Nat
    PROVE  Lock!TypeOK /\ LockTimesInv /\ [Lock!Next]_(Lock!vars) => LockTimesInv'
<1> SUFFICES ASSUME Lock!TypeOK, LockTimesInv, [Lock!Next]_(Lock!vars) PROVE LockTimesInv'
  OBVIOUS
<1> USE DEF LockRuns
<1>0. /\ pc \in [Calls -> {"idle", "running"} \cup Lock!Before]
      /\ from \in [Calls -> Lock!Statuses]
      /\ gap \in [Calls -> 0..MaxAge]
      /\ \A w \in Calls : age[w] \in Int /\ 0 <= age[w] /\ gap[w] \in Int
      /\ MaxStall \in Int /\ 0 <= MaxStall
  BY StoreAssumption, CallsAssumption DEF Lock!TypeOK
<1>1. ASSUME NEW w \in Calls, Lock!Return(w) PROVE LockTimesInv'
  BY <1>0, <1>1, LockReturns DEF LockTimesInv
<1>2. ASSUME NEW w \in Calls, NEW i \in Ids \cup {None}, Lock!StartOperation(w, i)
      PROVE  LockTimesInv'
  <2>1. pc'[w] = "running" /\ UNCHANGED <<age, from, gap>>
        /\ \A v \in Calls : v # w => pc'[v] = pc[v] /\ renewing'[v] = renewing[v]
    BY <1>2, LockStarts
  <2>2. renewing'[w]
    BY <1>2, Zenon DEF Lock!StartOperation, Lock!TypeOK
  <2> QED
    BY <1>0, <2>1, <2>2 DEF LockTimesInv
<1>3. ASSUME NEW w \in Calls, Lock!BeginAcquire(w) PROVE LockTimesInv'
  BY <1>0, <1>3 DEF Lock!BeginAcquire, Lock!Goto, LockTimesInv
<1>4. ASSUME NEW w \in Calls, Lock!CreateProcessing(w) PROVE LockTimesInv'
  <2>1. CASE Lock!RowExists
    BY <1>0, <1>4, <2>1 DEF Lock!CreateProcessing, Lock!Goto, LockTimesInv
  <2> QED
    BY <1>2, <1>4, <2>1 DEF Lock!CreateProcessing
<1>5. ASSUME NEW w \in Calls, Lock!GetExisting(w) PROVE LockTimesInv'
  <2>1. CASE ~Lock!Return(w)
    <3>1. /\ Lock!RowExists /\ Lock!Goto(w, "reclaim") /\ pc[w] = "get"
          /\ from' = [from EXCEPT ![w] = row.status]
          /\ UNCHANGED <<age, renewing, gap>>
      BY <1>5, <2>1 DEF Lock!GetExisting
    <3> QED
      BY <1>0, <3>1 DEF Lock!Goto, Lock!RowExists, LockTimesInv
  <2> QED
    BY <1>1, <2>1
<1>6. ASSUME NEW w \in Calls, Lock!TryReclaim(w) PROVE LockTimesInv'
  <2>1. held[w] \in Ids \cup {None}
    BY DEF Lock!TypeOK
  <2> QED
    BY <1>1, <1>2, <1>6, <2>1 DEF Lock!TryReclaim
<1>7. ASSUME NEW w \in Calls, Lock!Renew(w) PROVE LockTimesInv'
  <2>1. UNCHANGED <<pc, age, from>> /\ gap' = [gap EXCEPT ![w] = 0]
    BY <1>7 DEF Lock!Renew
  <2>2. \A v \in Calls : (v # w => renewing'[v] = renewing[v]) /\ (renewing'[v] => renewing[v])
    BY <1>7, Zenon DEF Lock!Renew, Lock!TypeOK
  <2>3. \A v \in Calls : gap'[v] = IF v = w THEN 0 ELSE gap[v]
    BY <1>0, <2>1
  <2> QED
    BY <1>0, <2>1, <2>2, <2>3 DEF LockTimesInv
<1>8. ASSUME NEW w \in Calls, Lock!Release(w) \/ Lock!Abandon(w) PROVE LockTimesInv'
  BY <1>1, <1>8 DEF Lock!Release, Lock!Abandon
<1>9. CASE Lock!DeleteExpired
  BY <1>9 DEF Lock!DeleteExpired, LockTimesInv
<1>10. CASE Lock!Tick
  <2>1. /\ UNCHANGED <<pc, from, renewing>>
        /\ \A w \in Calls : age'[w] = IF pc[w] = "idle" THEN 0 ELSE age[w] + 1
        /\ \A w \in Calls : gap'[w] = IF renewing[w] THEN gap[w] + 1 ELSE 0
        /\ \A w \in Calls : pc[w] \in Lock!Before => age[w] < MaxStall
        /\ \A w \in Calls : renewing[w] => gap[w] < MaxGap
    BY <1>10 DEF Lock!Tick
  <2>2. \A w \in Calls : (renewing'[w] => LockRuns(w)') /\ (~renewing'[w] => gap'[w] = 0)
    BY <2>1 DEF LockTimesInv
  <2>3. \A w \in Calls : gap'[w] <= age'[w] /\ gap'[w] <= MaxGap
    <3> SUFFICES ASSUME NEW w \in Calls PROVE gap'[w] <= age'[w] /\ gap'[w] <= MaxGap
      OBVIOUS
    <3>1. CASE renewing[w]
      <4>1. pc[w] # "idle" /\ gap'[w] = gap[w] + 1 /\ gap[w] < MaxGap /\ gap[w] <= age[w]
        BY <2>1, <3>1 DEF LockTimesInv
      <4> QED
        BY <1>0, <2>1, <4>1
    <3>2. CASE ~renewing[w]
      BY <1>0, <2>1, <3>2
    <3> QED
      BY <3>1, <3>2
  <2>4. \A w \in Calls : ~LockRuns(w)' => age'[w] <= MaxStall
    BY <1>0, <2>1
  <2> QED
    BY <2>1, <2>2, <2>3, <2>4 DEF LockTimesInv
<1>11. CASE UNCHANGED Lock!vars
  BY <1>11 DEF Lock!vars, LockTimesInv
<1> QED
  BY <1>3, <1>4, <1>5, <1>6, <1>7, <1>8, <1>9, <1>10, <1>11 DEF Lock!Next

\* No step gives the row away under a running operation, but that the lock of one
\* which took the row over runs out.
LEMMA LockStep ==
    ASSUME MaxGap \in Nat, MaxStall + MaxGap < LockTime, MaxAge + MaxStall < TTL
    PROVE  Lock!TypeOK /\ LockTimesInv /\ LockTimesInv' /\ LockInv /\ [Lock!Next]_(Lock!vars)
             => LockInv'
<1> SUFFICES ASSUME Lock!TypeOK, LockTimesInv, LockTimesInv', LockInv, [Lock!Next]_(Lock!vars)
             PROVE  LockInv'
  OBVIOUS
<1> USE DEF LockRuns, LockOwns
<1>0. /\ row \in Lock!Rows
      /\ pc \in [Calls -> {"idle", "running"} \cup Lock!Before]
      /\ held \in [Calls -> Ids \cup {None}]
      /\ from \in [Calls -> Lock!Statuses]
      /\ print \in [Calls -> Prints \cup {None}]
      /\ \A w \in Calls : age[w] \in Int /\ 0 <= age[w] /\ age[w] <= MaxAge
      /\ \A w \in Calls : gap[w] \in Int /\ 0 <= gap[w]
      /\ row.lock \in Int /\ row.expires \in Int
      /\ TTL \in Int /\ LockTime \in Int /\ MaxAge \in Int /\ MaxStall \in Int /\ MaxGap \in Int
      /\ 0 <= MaxStall
  BY StoreAssumption, CallsAssumption DEF Lock!TypeOK, Lock!Rows, Lock!Times
\* The lock of an operation that created its row has not run out.
<1>l. \A w \in Calls : LockOwns(w) => row.lock > 0
  <2> SUFFICES ASSUME NEW w \in Calls, LockOwns(w) PROVE row.lock > 0
    OBVIOUS
  <2>1. row.lock >= LockTime - MaxStall - gap[w] /\ gap[w] <= MaxGap
    BY DEF LockInv, LockTimesInv
  <2> QED
    BY <1>0, <2>1
\* A call ends that leaves the row, or marks it.
<1>1. ASSUME NEW w \in Calls, Lock!Return(w),
             \/ UNCHANGED row
             \/ /\ LockRuns(w)
                /\ row'.id = row.id /\ row'.status # "none" /\ row'.expires = TTL
      PROVE  LockInv'
  <2>1. /\ ~LockRuns(w)'
        /\ \A v \in Calls : v # w =>
              /\ pc'[v] = pc[v] /\ age'[v] = age[v] /\ held'[v] = held[v]
              /\ print'[v] = print[v] /\ from'[v] = from[v] /\ gap'[v] = gap[v]
              /\ renewing'[v] = renewing[v]
        /\ ~outrun' => ~outrun \/ \A v \in Calls : LockRuns(v) => v = w
    BY <1>1, LockReturns
  <2>2. CASE UNCHANGED row
    BY <2>1, <2>2 DEF LockInv
  <2>3. CASE ~UNCHANGED row
    <3>1. \A v \in Calls : LockRuns(v)' =>
             /\ v # w /\ LockRuns(v) /\ LockRuns(w) /\ ~LockOwns(v) /\ outrun
             /\ row'.status # "none" /\ row'.id = held'[v] /\ row'.expires = TTL
      BY <1>1, <2>1, <2>3 DEF LockInv
    <3>2. \A v \in Calls : LockRuns(v)' => outrun'
      BY <2>1, <3>1
    <3>3. \A v \in Calls : TTL >= TTL - MaxStall - age[v]
      BY <1>0
    <3>4. \A v \in Calls : LockRuns(v)' => row'.expires >= TTL - MaxStall - age'[v]
      BY <2>1, <3>1, <3>3
    <3>5. \A v \in Calls : ~LockOwns(v)'
      BY <2>1, <3>1
    <3> QED
      BY <3>1, <3>2, <3>4, <3>5 DEF LockInv
  <2> QED
    BY <2>2, <2>3
\* A call goes on that does not run.
<1>2. ASSUME NEW w \in Calls, UNCHANGED <<row, age, renewing, gap, print, outrun>>, ~LockRuns(w),
             pc'[w] # "running",
             \A v \in Calls : v # w => /\ pc'[v] = pc[v] /\ held'[v] = held[v]
                                       /\ from'[v] = from[v]
      PROVE  LockInv'
  BY <1>2 DEF LockInv
<1>4. ASSUME NEW w \in Calls, Lock!BeginAcquire(w) PROVE LockInv'
  <2>1. /\ UNCHANGED <<row, age, renewing, gap, held, from, outrun>>
        /\ pc[w] = "idle" /\ pc'[w] = "create"
        /\ \A v \in Calls : v # w => pc'[v] = pc[v] /\ print'[v] = print[v]
    BY <1>0, <1>4 DEF Lock!BeginAcquire, Lock!Goto
  <2> QED
    BY <2>1 DEF LockInv
<1>5. ASSUME NEW w \in Calls, Lock!CreateProcessing(w) PROVE LockInv'
  <2>1. CASE Lock!RowExists
    <3>1. /\ UNCHANGED <<row, age, print, renewing, gap, held, from, outrun>>
          /\ pc[w] = "create" /\ pc'[w] = "get"
          /\ \A v \in Calls : v # w => pc'[v] = pc[v]
      BY <1>0, <1>5, <2>1 DEF Lock!CreateProcessing, Lock!Goto
    <3> QED
      BY <1>2, <3>1
  <2>2. CASE ~Lock!RowExists
    <3>1. PICK i \in Ids : row' = Lock!Created(i, print[w], age[w]) /\ Lock!StartOperation(w, i)
      BY <1>5, <2>2 DEF Lock!CreateProcessing
    <3>2. /\ pc'[w] = "running" /\ held'[w] = i
          /\ UNCHANGED <<age, print, from, gap, outrun>>
          /\ \A v \in Calls : v # w => pc'[v] = pc[v]
      BY <3>1, LockStarts
    <3>3. \A v \in Calls : LockRuns(v)' => v = w
      BY <2>2, <3>2 DEF LockInv, Lock!RowExists
    <3>4. /\ row'.id = i /\ row'.status = "processing" /\ row'.print = print[w]
          /\ row'.lock = LockTime - age[w] /\ row'.expires = TTL - age[w]
      BY <3>1 DEF Lock!Created
    <3>5. age[w] <= MaxStall
      BY <1>5 DEF Lock!CreateProcessing, LockTimesInv
    <3>6. renewing'[w]
      BY <3>1, Zenon DEF Lock!StartOperation, Lock!TypeOK
    <3>7. /\ row'.lock >= LockTime - MaxStall - gap'[w] /\ row'.lock > 0
          /\ row'.expires >= TTL - MaxStall - age'[w]
      BY <1>0, <3>2, <3>4, <3>5
    <3> QED
      BY <3>2, <3>3, <3>4, <3>6, <3>7 DEF LockInv
  <2> QED
    BY <2>1, <2>2
<1>6. ASSUME NEW w \in Calls, Lock!GetExisting(w) PROVE LockInv'
  <2>1. CASE Lock!Return(w)
    BY <1>1, <1>6, <2>1 DEF Lock!GetExisting
  <2>2. CASE ~Lock!Return(w)
    <3>1. /\ Lock!Goto(w, "reclaim") /\ pc[w] = "get"
          /\ held' = [held EXCEPT ![w] = row.id]
          /\ from' = [from EXCEPT ![w] = row.status]
          /\ UNCHANGED <<age, print, renewing, gap, row, outrun>>
      BY <1>6, <2>2 DEF Lock!GetExisting
    <3>2. /\ pc'[w] = "reclaim"
          /\ \A v \in Calls : v # w => /\ pc'[v] = pc[v] /\ held'[v] = held[v]
                                       /\ from'[v] = from[v]
      BY <1>0, <3>1 DEF Lock!Goto
    <3> QED
      BY <1>2, <3>1, <3>2
  <2> QED
    BY <2>1, <2>2
<1>7. ASSUME NEW w \in Calls, Lock!TryReclaim(w) PROVE LockInv'
  <2>1. CASE Lock!Reclaimable(held[w], from[w], age[w])
    <3>1. row' = Lock!Reclaimed(age[w]) /\ Lock!StartOperation(w, held[w])
      BY <1>7, <2>1 DEF Lock!TryReclaim
    <3>2. row.id = held[w] /\ row.lock <= -age[w]
      BY <2>1 DEF Lock!Reclaimable
    <3>3. /\ pc'[w] = "running" /\ held'[w] = held[w]
          /\ UNCHANGED <<age, print, from, gap, outrun>>
          /\ \A v \in Calls : v # w => pc'[v] = pc[v] /\ held'[v] = held[v]
      BY <1>0, <3>1, LockStarts
    <3>4. ~(row.lock > 0)
      BY <1>0, <3>2
    <3>5. /\ \A v \in Calls : ~LockOwns(v)
          /\ ~outrun => \A v \in Calls : ~LockRuns(v)
      BY <1>l, <3>4 DEF LockInv
    <3>6. from[w] # "none" /\ age[w] <= MaxStall
      BY <1>7 DEF Lock!TryReclaim, LockTimesInv
    <3>7. /\ row'.id = row.id /\ row'.status = "processing"
          /\ row'.lock = LockTime - age[w] /\ row'.expires = TTL - age[w]
      BY <1>0, <3>1 DEF Lock!Reclaimed, Lock!Rows
    <3>8. row'.lock > 0 /\ \A v \in Calls : row'.expires >= TTL - MaxStall - age[v]
      BY <1>0, <3>6, <3>7
    <3>9. \A v \in Calls : ~LockOwns(v)'
      BY <3>3, <3>5, <3>6
    <3>10. \A v \in Calls : LockRuns(v)' => row'.id = held'[v]
      BY <3>2, <3>3, <3>7 DEF LockInv
    <3> QED
      BY <3>3, <3>5, <3>7, <3>8, <3>9, <3>10 DEF LockInv
  <2>2. CASE ~Lock!Reclaimable(held[w], from[w], age[w])
    BY <1>1, <1>7, <2>2 DEF Lock!TryReclaim
  <2> QED
    BY <2>1, <2>2
<1>8. ASSUME NEW w \in Calls, Lock!Renew(w) PROVE LockInv'
  <2>1. /\ LockRuns(w) /\ UNCHANGED <<pc, age, print, held, from, outrun>>
        /\ gap' = [gap EXCEPT ![w] = 0] /\ row.id = held[w]
    BY <1>8 DEF Lock!Renew, LockInv, LockTimesInv
  <2>2. \A v \in Calls : gap'[v] = IF v = w THEN 0 ELSE gap[v]
    BY <2>1 DEF Lock!TypeOK
  <2>3. CASE ~Lock!Extendable(held[w], print[w])
    <3>1. UNCHANGED row
      BY <1>8, <2>3 DEF Lock!Renew
    <3>2. \A v \in Calls : ~LockOwns(v)
      BY <2>1, <2>3 DEF LockInv, Lock!Extendable
    <3> QED
      BY <2>1, <3>1, <3>2 DEF LockInv
  <2>4. CASE Lock!Extendable(held[w], print[w])
    <3>1. row' = Lock!Extended /\ UNCHANGED renewing
      BY <1>8, <2>4 DEF Lock!Renew
    <3>2. /\ row'.id = row.id /\ row'.status = row.status /\ row'.print = row.print
          /\ row'.lock = LockTime /\ row'.expires = TTL
      BY <1>0, <3>1 DEF Lock!Extended, Lock!Rows
    <3>3. \A v \in Calls : gap'[v] \in Int /\ 0 <= gap'[v]
      BY <1>0, <2>2
    <3>4. /\ \A v \in Calls : LockTime >= LockTime - MaxStall - gap'[v]
          /\ \A v \in Calls : TTL >= TTL - MaxStall - age[v]
          /\ LockTime > 0
      BY <1>0, <3>3, StoreAssumption
    <3> QED
      BY <2>1, <3>1, <3>2, <3>4 DEF LockInv
  <2> QED
    BY <2>3, <2>4
<1>9. ASSUME NEW w \in Calls, Lock!Release(w) PROVE LockInv'
  <2>1. LockRuns(w) /\ row.id = held[w] /\ row.status # "none"
    BY <1>9 DEF Lock!Release, LockInv
  <2>2. row'.id = row.id /\ row'.status # "none" /\ row'.expires = TTL
    BY <1>0, <1>9, <2>1 DEF Lock!Release, Lock!Succeeded, Lock!FailedRetryable, Lock!Rows
  <2> QED
    BY <1>1, <1>9, <2>1, <2>2 DEF Lock!Release
<1>10. ASSUME NEW w \in Calls, Lock!Abandon(w) PROVE LockInv'
  BY <1>1, <1>10 DEF Lock!Abandon
<1>11. CASE Lock!DeleteExpired
  <2>1. \A w \in Calls : TTL - MaxStall - age[w] > 0
    BY <1>0
  <2>2. \A w \in Calls : ~LockRuns(w)
    BY <1>0, <1>11, <2>1 DEF Lock!DeleteExpired, Lock!Deletable, LockInv
  <2> QED
    BY <1>11, <2>2 DEF Lock!DeleteExpired, LockInv
<1>12. CASE Lock!Tick
  <2>1. /\ UNCHANGED <<pc, print, held, from, renewing>> /\ row' = Lock!RowLater
        /\ \A w \in Calls : age'[w] = IF pc[w] = "idle" THEN 0 ELSE age[w] + 1
        /\ \A w \in Calls : gap'[w] = IF renewing[w] THEN gap[w] + 1 ELSE 0
    BY <1>12 DEF Lock!Tick
  <2>2. /\ outrun => outrun'
        /\ ~outrun' => \A w \in Calls : LockRuns(w) /\ ~LockOwns(w) => ~(row'.lock <= 0)
    BY <1>12, Zenon DEF Lock!Tick, Lock!Running, Lock!OwnsRow, Lock!TypeOK
  <2>3. ASSUME NEW w \in Calls, LockRuns(w)
        PROVE  /\ row'.status = row.status /\ row'.id = row.id /\ row'.print = row.print
               /\ row'.lock \in Int /\ row'.lock >= row.lock - 1
               /\ row'.expires >= TTL - MaxStall - age'[w]
    <3>1. /\ Lock!RowExists /\ age'[w] = age[w] + 1
          /\ row.expires >= TTL - MaxStall - age[w]
      BY <2>1, <2>3 DEF LockInv, Lock!RowExists
    <3>2. row' = [row EXCEPT !.lock = Lock!Later(row.lock),
                             !.expires = Lock!Later(row.expires)]
      BY <2>1, <3>1 DEF Lock!RowLater
    <3>3. /\ row'.status = row.status /\ row'.id = row.id /\ row'.print = row.print
          /\ row'.lock = Lock!Later(row.lock) /\ row'.expires = Lock!Later(row.expires)
      BY <1>0, <3>2 DEF Lock!Rows
    <3>4. /\ Lock!Later(row.lock) \in Int /\ Lock!Later(row.lock) >= row.lock - 1
          /\ Lock!Later(row.expires) >= row.expires - 1 /\ Lock!Later(row.expires) \in Int
      BY <1>0, StoreAssumption DEF Lock!Later, Lock!Past, Lock!Rows, Lock!Times
    <3>5. Lock!Later(row.expires) >= TTL - MaxStall - age'[w]
      BY <1>0, <3>1, <3>4
    <3> QED
      BY <3>3, <3>4, <3>5
  <2>4. \A w \in Calls : (LockRuns(w)' <=> LockRuns(w)) /\ (LockOwns(w)' <=> LockOwns(w))
    BY <2>1
  <2>5. ASSUME NEW w \in Calls, LockOwns(w)
        PROVE  row'.lock >= LockTime - MaxStall - gap'[w] /\ row'.lock > 0
    <3>1. /\ gap'[w] = gap[w] + 1 /\ row.lock >= LockTime - MaxStall - gap[w]
      BY <2>1, <2>5 DEF LockInv
    <3>2. gap'[w] <= MaxGap /\ row'.lock \in Int /\ row'.lock >= row.lock - 1
      BY <2>3, <2>5 DEF LockTimesInv
    <3> QED
      BY <1>0, <3>1, <3>2
  <2>6. ASSUME ~outrun', NEW w \in Calls, LockRuns(w)
        PROVE  row'.status = "processing" /\ row'.lock > 0 /\ \A v \in Calls : LockRuns(v) => v = w
    <3>1. row.status = "processing" /\ \A v \in Calls : LockRuns(v) => v = w
      BY <2>2, <2>6 DEF LockInv
    <3>2. row'.status = row.status /\ row'.lock \in Int
      BY <2>3, <2>6
    <3>3. row'.lock > 0
      BY <2>2, <2>5, <2>6, <3>2
    <3> QED
      BY <3>1, <3>2, <3>3
  <2>7. \A w \in Calls : LockRuns(w) =>
           /\ row'.status # "none" /\ row'.id = held'[w]
           /\ row'.expires >= TTL - MaxStall - age'[w]
    BY <2>1, <2>3 DEF LockInv
  <2>8. \A w \in Calls : LockOwns(w) =>
           /\ row'.status = "processing" /\ row'.print = print'[w] /\ renewing'[w]
           /\ \A v \in Calls : LockRuns(v) => v = w
    BY <2>1, <2>3 DEF LockInv
  <2> QED
    BY <2>4, <2>5, <2>6, <2>7, <2>8 DEF LockInv
<1>13. CASE UNCHANGED Lock!vars
  BY <1>13 DEF Lock!vars, LockInv
<1> QED
  BY <1>4, <1>5, <1>6, <1>7, <1>8, <1>9, <1>10, <1>11, <1>12, <1>13 DEF Lock!Next

LEMMA LockInit ==
    ASSUME Lock!Init, MaxGap \in Nat
    PROVE  Lock!TypeOK /\ LockTimesInv /\ LockInv
<1> USE DEF Lock!Init
<1>1. row \in Lock!Rows
  BY StoreAssumption DEF Lock!NoRow, Lock!Rows, Lock!Statuses, Lock!Times, Lock!Past
<1>2. outrun \in BOOLEAN /\ renewing \in [Calls -> BOOLEAN] /\ \A w \in Calls : ~renewing[w]
  BY Zenon
<1>3. Lock!TypeOK
  <2>1. /\ pc \in [Calls -> {"idle", "running"} \cup Lock!Before]
        /\ age \in [Calls -> 0..MaxAge] /\ gap \in [Calls -> 0..MaxAge]
        /\ print \in [Calls -> Prints \cup {None}] /\ held \in [Calls -> Ids \cup {None}]
        /\ from \in [Calls -> Lock!Statuses]
    BY StoreAssumption DEF Lock!Statuses
  <2> QED
    BY <1>1, <1>2, <2>1 DEF Lock!TypeOK
<1>4. LockTimesInv
  BY <1>2, CallsAssumption DEF LockTimesInv, LockRuns
<1>5. LockInv
  BY DEF LockInv, LockRuns, LockOwns
<1> QED
  BY <1>3, <1>4, <1>5

\* If claims and renewals come sooner than the lock runs out, and operations end
\* before the row expires, an operation that created the row is alone however
\* much longer than the lock time it runs, whichever call dies, whatever is
\* reclaimed or deleted; operations that took the row over are alone until the
\* lock of one of them runs out.
THEOREM LockExclusive ==
    ASSUME MaxGap \in Nat, MaxStall + MaxGap < LockTime, MaxAge + MaxStall < TTL
    PROVE  Lock!Spec => [](Lock!TypeOK /\ Lock!OneOperationAtATime)
<1>1. Lock!TypeOK /\ LockTimesInv /\ LockTimesInv' /\ LockInv /\ [Lock!Next]_(Lock!vars)
        => LockInv'
  BY LockStep
<1>2. LockInv => Lock!OneOperationAtATime
  BY Zenon DEF LockInv, LockRuns, LockOwns, Lock!OneOperationAtATime, Lock!Running, Lock!OwnsRow
<1>3. Lock!TypeOK /\ LockTimesInv /\ [Lock!Next]_(Lock!vars) => LockTimesInv'
  BY LockTimesStep
<1>4. Lock!Init => Lock!TypeOK /\ LockTimesInv /\ LockInv
  BY LockInit
<1> QED
  BY <1>1, <1>2, <1>3, <1>4, LockTypeStep, PTL DEF Lock!Spec
=============================================================================
