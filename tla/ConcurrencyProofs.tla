------------------------- MODULE ConcurrencyProofs -------------------------
(***************************************************************************)
(* Proofs about Concurrency, for any number of requests and instances, any *)
(* limits, and any number of crashes, failing calls and members that age   *)
(* under their owners.                                                     *)
(***************************************************************************)
EXTENDS Concurrency, FiniteSetTheorems, SequenceTheorems, TLAPS

-----------------------------------------------------------------------------
(* The calls that are left of a request                                    *)

CallNames == {"start", "touch", "running", "count", "waiting", "uncount", "readLoad",
              "writeIndex", "create", "live", "offline", "unlease", "upstream"}

Plans == {s \in Seq(CallNames) : Len(s) <= 3}

LEMMA NoCalls == <<>> \in Plans /\ ToSet(<<>>) = {}
BY DEF Plans, ToSet

LEMMA OneCall ==
    ASSUME NEW a \in CallNames
    PROVE  <<a>> \in Plans /\ ToSet(<<a>>) = {a}
<1>1. <<a>> \in Seq(CallNames) /\ Len(<<a>>) = 1 /\ DOMAIN <<a>> = {1} /\ <<a>>[1] = a
  OBVIOUS
<1> QED
  BY <1>1 DEF Plans, ToSet

LEMMA TwoCalls ==
    ASSUME NEW a \in CallNames, NEW b \in CallNames
    PROVE  <<a, b>> \in Plans /\ ToSet(<<a, b>>) = {a, b}
<1>1. /\ <<a, b>> \in Seq(CallNames) /\ Len(<<a, b>>) = 2
      /\ DOMAIN <<a, b>> = {1, 2} /\ <<a, b>>[1] = a /\ <<a, b>>[2] = b
  OBVIOUS
<1> QED
  BY <1>1 DEF Plans, ToSet

LEMMA JoinedCalls ==
    ASSUME NEW s \in Seq(CallNames), NEW t \in Seq(CallNames)
    PROVE  /\ s \o t \in Seq(CallNames)
           /\ Len(s \o t) = Len(s) + Len(t)
           /\ ToSet(s \o t) \subseteq ToSet(s) \cup ToSet(t)
<1>1. s \o t \in Seq(CallNames) /\ Len(s \o t) = Len(s) + Len(t)
  BY ConcatProperties
<1>2. Len(s) \in Nat /\ Len(t) \in Nat /\ DOMAIN s = 1 .. Len(s) /\ DOMAIN t = 1 .. Len(t)
  BY LenProperties
<1>3. DOMAIN (s \o t) = 1 .. Len(s) + Len(t)
  BY <1>1, LenProperties
<1>4. ASSUME NEW i \in 1 .. Len(s) + Len(t)
      PROVE  (s \o t)[i] \in ToSet(s) \cup ToSet(t)
  <2>1. (s \o t)[i] = IF i <= Len(s) THEN s[i] ELSE t[i - Len(s)]
    BY ConcatProperties
  <2>2. CASE i <= Len(s)
    BY <1>2, <2>1, <2>2 DEF ToSet
  <2>3. CASE ~(i <= Len(s))
    <3>1. i - Len(s) \in 1 .. Len(t)
      BY <1>2, <2>3
    <3> QED
      BY <1>2, <2>1, <2>3, <3>1 DEF ToSet
  <2> QED
    BY <2>2, <2>3
<1> QED
  BY <1>1, <1>3, <1>4 DEF ToSet

\* Refreshing the index comes first, and neither uses the account nor waits.
LEMMA RefreshedCalls ==
    ASSUME NEW t \in Plans, Len(t) <= 1
    PROVE  /\ RefreshIndex \o t \in Plans
           /\ ToSet(RefreshIndex \o t) \subseteq {"readLoad", "writeIndex"} \cup ToSet(t)
<1>1. RefreshIndex \in Plans /\ ToSet(RefreshIndex) = {"readLoad", "writeIndex"}
  BY TwoCalls DEF RefreshIndex, CallNames
<1>2. Len(RefreshIndex) = 2
  BY DEF RefreshIndex
<1>3. t \in Seq(CallNames) /\ Len(t) \in Nat
  BY LenProperties DEF Plans
<1> QED
  BY <1>1, <1>2, <1>3, JoinedCalls DEF Plans

LEMMA FewCalls == /\ Len(<<>>) = 0
                  /\ \A a : Len(<<a>>) = 1
OBVIOUS

LEMMA NextCall ==
    ASSUME NEW s \in Plans, s # <<>>
    PROVE  Head(s) \in ToSet(s) /\ Tail(s) \in Plans /\ ToSet(Tail(s)) \subseteq ToSet(s)
<1>1. s \in Seq(CallNames) /\ Len(s) \in Nat /\ Len(s) <= 3 /\ DOMAIN s = 1 .. Len(s)
  BY LenProperties DEF Plans
<1>2. Len(s) # 0
  BY <1>1, EmptySeq
<1>3. Head(s) = s[1] /\ Head(s) \in ToSet(s)
  BY <1>1, <1>2 DEF ToSet
<1>4. /\ Tail(s) \in Seq(CallNames) /\ Len(Tail(s)) = Len(s) - 1
      /\ \A i \in 1 .. Len(s) - 1 : Tail(s)[i] = s[i + 1]
  BY <1>1, <1>2, HeadTailProperties
<1>5. DOMAIN Tail(s) = 1 .. Len(s) - 1
  BY <1>4, LenProperties
<1>6. \A i \in 1 .. Len(s) - 1 : Tail(s)[i] \in ToSet(s)
  BY <1>1, <1>4 DEF ToSet
<1> QED
  BY <1>1, <1>2, <1>3, <1>4, <1>5, <1>6 DEF Plans, ToSet

-----------------------------------------------------------------------------
(* The inductive invariant                                                 *)

TypeInv ==
    /\ slots \in SUBSET Requests /\ live \in SUBSET Requests /\ lost \in SUBSET Requests
    /\ ghosts \in Nat /\ stale \in Nat /\ liveGhosts \in Nat
    /\ wait \in Nat /\ missed \in Nat /\ faults \in Nat
    /\ index \in BOOLEAN
    /\ load \in [Requests -> BOOLEAN]
    /\ server \in [Instances -> {"down", "up", "deleteWait", "dropIndex"}]
    /\ todo \in [Requests -> Plans]

Uses(r, calls) == ToSet(todo[r]) \cap calls # {}

\* A request that uses the account has the member it goes by, unless that was taken
\* from it; one that gives back its lease is not going to use it.
RequestInv(r) ==
    /\ Uses(r, {"running", "uncount", "create"}) /\ r \notin lost => r \in slots
    /\ Uses(r, {"create"} \cup Session) /\ r \notin lost => r \in live
    /\ Uses(r, {"unlease"}) => ~Uses(r, {"create"} \cup Session)

\* Those that have a member of either kind
Members == (slots \cup live) \ lost

MemberInv == Cardinality(Members) <= MaxConcurrency

\* Everybody in the queue is counted or known to be missed.
QueueInv ==
    /\ wait <= MaxWait
    /\ Cardinality(Queued) <= wait + missed

IInv ==
    /\ TypeInv
    /\ \A r \in Requests : RequestInv(r)
    /\ MemberInv
    /\ QueueInv

-----------------------------------------------------------------------------
(* Types                                                                   *)

LEMMA FiniteRequests ==
    ASSUME NEW S \in SUBSET Requests
    PROVE  IsFiniteSet(S) /\ Cardinality(S) \in Nat
BY ConcurrencyAssumption, FS_Subset, FS_CardinalityType DEF ConcurrencyAssumption

\* What a request may do next keeps its plan one of the plans.
LEMMA ThenTyped ==
    ASSUME todo \in [Requests -> Plans], NEW r \in Requests, NEW s \in Plans, Then(r, s)
    PROVE  /\ todo' \in [Requests -> Plans]
           /\ todo'[r] = s
           /\ \A q \in Requests \ {r} : todo'[q] = todo[q]
BY DEF Then

LEMMA StepTyped ==
    ASSUME todo \in [Requests -> Plans], NEW r \in Requests, NEW call, At(r, call), Step(r)
    PROVE  /\ todo' \in [Requests -> Plans]
           /\ todo'[r] = Tail(todo[r])
           /\ ToSet(todo'[r]) \subseteq ToSet(todo[r])
           /\ \A q \in Requests \ {r} : todo'[q] = todo[q]
<1>1. Tail(todo[r]) \in Plans /\ ToSet(Tail(todo[r])) \subseteq ToSet(todo[r])
  BY NextCall DEF At
<1>2. Then(r, Tail(todo[r]))
  BY DEF Step
<1> QED
  BY <1>1, <1>2, ThenTyped

\* The calls a plan is made of
LEMMA AtCalls ==
    ASSUME todo \in [Requests -> Plans], NEW r \in Requests, NEW call, At(r, call)
    PROVE  call \in ToSet(todo[r])
BY NextCall DEF At

\* Releasing the slot leaves the calls next, behind the refresh of the index or alone.
LEMMA ReleaseCalls ==
    ASSUME todo \in [Requests -> Plans], NEW r \in Requests,
           NEW next \in Plans, Len(next) <= 1, ReleaseThen(r, next)
    PROVE  /\ todo' \in [Requests -> Plans]
           /\ ToSet(todo'[r]) \subseteq {"readLoad", "writeIndex"} \cup ToSet(next)
           /\ \A q \in Requests \ {r} : todo'[q] = todo[q]
<1>1. Then(r, RefreshIndex \o next) \/ Then(r, next)
  BY DEF ReleaseThen
<1>2. CASE Then(r, RefreshIndex \o next)
  <2> PICK s : s = RefreshIndex \o next
    OBVIOUS
  <2>1. s \in Plans /\ ToSet(s) \subseteq {"readLoad", "writeIndex"} \cup ToSet(next)
    BY RefreshedCalls
  <2> QED
    BY <1>2, <2>1, ThenTyped
<1>3. CASE Then(r, next)
  BY <1>3, ThenTyped
<1> QED
  BY <1>1, <1>2, <1>3

\* The same for leaving the queue.
LEMMA CountOutCalls ==
    ASSUME todo \in [Requests -> Plans], NEW r \in Requests, CountOut(r)
    PROVE  /\ todo' \in [Requests -> Plans]
           /\ ToSet(todo'[r]) \subseteq {"readLoad", "writeIndex", "running"}
           /\ ~At(r, "uncount") => ToSet(todo'[r]) \subseteq {"readLoad", "writeIndex"}
           /\ \A q \in Requests \ {r} : todo'[q] = todo[q]
<1> DEFINE next == IF At(r, "waiting") THEN <<>> ELSE <<"running">>
<1>1. /\ next \in Plans /\ Len(next) <= 1 /\ ToSet(next) \subseteq {"running"}
      /\ ~At(r, "uncount") => ToSet(next) = {}
  <2>1. At(r, "waiting") \/ At(r, "uncount")
    BY DEF CountOut
  <2> QED
    BY <2>1, NoCalls, OneCall, FewCalls DEF CallNames
<1>2. Then(r, RefreshIndex \o next) \/ Then(r, next)
  BY DEF CountOut
<1> HIDE DEF next
<1>3. CASE Then(r, RefreshIndex \o next)
  <2> PICK s : s = RefreshIndex \o next
    OBVIOUS
  <2>1. s \in Plans /\ ToSet(s) \subseteq {"readLoad", "writeIndex"} \cup ToSet(next)
    BY <1>1, RefreshedCalls
  <2> QED
    BY <1>1, <1>3, <2>1, ThenTyped
<1>4. CASE Then(r, next)
  BY <1>1, <1>4, ThenTyped
<1> QED
  BY <1>2, <1>3, <1>4

\* The plans a request is given as a whole
LEMMA GivenPlans ==
    /\ <<>> \in Plans /\ ToSet(<<>>) = {}
    /\ \A a \in CallNames : <<a>> \in Plans /\ ToSet(<<a>>) = {a}
    /\ \A a, b \in CallNames : <<a, b>> \in Plans /\ ToSet(<<a, b>>) = {a, b}
BY NoCalls, OneCall, TwoCalls

\* How each step of a request changes what is left of it, and nobody else's plan
RequestSteps(r) ==
    \/ Start(r) \/ Proceed(r) \/ RefreshFails(r) \/ EndLive(r) \/ Disconnect(r)
    \/ DialSideband(r) \/ LoseSideband(r) \/ ExpireOffline(r)

LEMMA PlanStep ==
    ASSUME todo \in [Requests -> Plans], NEW r \in Requests, RequestSteps(r)
    PROVE  /\ todo' \in [Requests -> Plans]
           /\ \A q \in Requests \ {r} : todo'[q] = todo[q]
<1> USE GivenPlans DEF CallNames
<1>1. CASE Start(r)
  <2>1. Then(r, <<"touch", "running">>) \/ Then(r, <<"count">>) \/ Then(r, <<>>)
    BY <1>1 DEF Start
  <2> QED
    BY <2>1, ThenTyped
<1>2. CASE Touch(r) \/ ReadLoad(r) \/ WriteIndex(r) \/ ReleaseLiveLease(r) \/ EndUpstream(r)
  <2>1. Step(r) /\ \E call \in CallNames : At(r, call)
    BY <1>2 DEF Touch, ReadLoad, WriteIndex, ReleaseLiveLease, EndUpstream
  <2> QED
    BY <2>1, StepTyped
<1>3. CASE CountIn(r)
  <2>1. Then(r, <<"touch", "waiting">>) \/ Then(r, <<"waiting">>) \/ Then(r, <<>>)
    BY <1>3 DEF CountIn
  <2> QED
    BY <2>1, ThenTyped
<1>4. CASE Retry(r)
  <2>1. Then(r, <<"touch", "uncount">>)
    BY <1>4 DEF Retry
  <2> QED
    BY <2>1, ThenTyped
<1>5. CASE CountOut(r)
  BY <1>5, CountOutCalls
<1>6. CASE Finish(r)
  BY <1>6, ReleaseCalls, FewCalls DEF Finish
<1>7. CASE CreateLiveCall(r) \/ Disconnect(r)
  <2> PICK next \in {"offline", "unlease", "upstream"} : ReleaseThen(r, <<next>>)
    BY <1>7 DEF CreateLiveCall, Disconnect
  <2> PICK s : s = <<next>>
    OBVIOUS
  <2>1. next \in CallNames
    OBVIOUS
  <2>2. s \in Plans
    BY <2>1, OneCall
  <2>3. Len(s) = 1
    BY FewCalls
  <2> QED
    BY <2>2, <2>3, ReleaseCalls
<1>8. CASE AcquireLiveLease(r)
  <2>1. Then(r, <<"create">>)
    BY <1>8 DEF AcquireLiveLease
  <2> QED
    BY <2>1, ThenTyped
<1>9. CASE \/ RefreshLiveLease(r) \/ RefreshFails(r) \/ EndLive(r) \/ ExpireOffline(r)
         \/ DialSideband(r) \/ LoseSideband(r)
  <2>1. Then(r, <<"unlease">>) \/ Then(r, <<"live">>) \/ Then(r, <<"offline">>)
    BY <1>9 DEF RefreshLiveLease, RefreshFails, EndLive, ExpireOffline, DialSideband,
       LoseSideband
  <2> QED
    BY <2>1, ThenTyped
<1> QED
  BY <1>1, <1>2, <1>3, <1>4, <1>5, <1>6, <1>7, <1>8, <1>9 DEF RequestSteps, Proceed

LEMMA TypeStep == TypeInv /\ [Next]_vars => TypeInv'
<1> SUFFICES ASSUME TypeInv, [Next]_vars PROVE TypeInv'
  OBVIOUS
<1> USE ConcurrencyAssumption DEF ConcurrencyAssumption, TypeInv
<1> DEFINE Rest == /\ slots' \in SUBSET Requests /\ live' \in SUBSET Requests
                   /\ lost' \in SUBSET Requests
                   /\ ghosts' \in Nat /\ stale' \in Nat /\ liveGhosts' \in Nat
                   /\ wait' \in Nat /\ missed' \in Nat /\ faults' \in Nat
           Others == /\ index' \in BOOLEAN
                     /\ load' \in [Requests -> BOOLEAN]
                     /\ server' \in [Instances -> {"down", "up", "deleteWait", "dropIndex"}]
<1>1. ASSUME NEW r \in Requests, RequestSteps(r)
      PROVE  TypeInv'
  <2>1. todo' \in [Requests -> Plans]
    BY <1>1, PlanStep
  <2>2. Rest
    BY <1>1 DEF RequestSteps, Start, Proceed, RefreshFails, EndLive, Disconnect,
        DialSideband, LoseSideband, ExpireOffline, EndUpstream, Touch, ReadLoad, WriteIndex, CountIn,
        Retry, CountOut, Finish, AcquireLiveLease, CreateLiveCall, RefreshLiveLease,
        ReleaseLiveLease, ReleaseThen, AcquireScript, Fault, Decrement,
        slotVars, liveVars, historyVars
  <2>3. Others
    <3>1. CASE UNCHANGED index /\ UNCHANGED load /\ UNCHANGED server
      BY <3>1
    <3>2. CASE Touch(r)
      BY <3>2 DEF Touch
    <3>3. CASE ReadLoad(r)
      BY <3>3 DEF ReadLoad, Loaded
    <3>4. CASE WriteIndex(r)
      BY <3>4 DEF WriteIndex
    <3> QED
      BY <1>1, <3>1, <3>2, <3>3, <3>4 DEF RequestSteps, Start, Proceed, RefreshFails, EndLive, Disconnect,
        DialSideband, LoseSideband, ExpireOffline, EndUpstream, CountIn,
          Retry, CountOut, Finish, AcquireLiveLease, CreateLiveCall, RefreshLiveLease,
          ReleaseLiveLease, ReleaseThen
  <2> QED
    BY <2>1, <2>2, <2>3
<1>2. ASSUME NEW r \in Requests, SlotExpires(r) \/ LiveExpires(r) PROVE TypeInv'
  BY <1>2 DEF SlotExpires, LiveExpires, Fault, slotVars, liveVars, procVars
<1>3. CASE Expire
  BY <1>3 DEF Expire, GhostExpires, LiveGhostExpires, KeysExpire, slotVars, liveVars,
      procVars, historyVars
<1>4. CASE SweepRead \/ SweepWrite
  <2>1. Rest /\ todo' = todo
    BY <1>4 DEF SweepRead, SweepWrite, slotVars, liveVars, historyVars
  <2>2. Others
    <3>1. load' = load /\ server' = server
      BY <1>4 DEF SweepRead, SweepWrite
    <3>2. index' \in BOOLEAN
      BY <1>4 DEF SweepRead, SweepWrite
    <3> QED
      BY <3>1, <3>2
  <2> QED
    BY <2>1, <2>2
<1>5. ASSUME NEW i \in Instances, CleanupSlots(i) PROVE TypeInv'
  BY <1>5 DEF CleanupSlots, slotVars, liveVars
<1>6. ASSUME NEW i \in Instances, DeleteWait(i) PROVE TypeInv'
  <2>1. Cardinality(Queued) \in Nat
    BY FiniteRequests DEF Queued
  <2> QED
    BY <1>6, <2>1 DEF DeleteWait, slotVars, liveVars
<1>7. ASSUME NEW i \in Instances, DropIndex(i) PROVE TypeInv'
  BY <1>7 DEF DropIndex, slotVars, liveVars, historyVars
<1>8. ASSUME NEW i \in Instances, Crash(i) PROVE TypeInv'
  <2> PICK gone \in SUBSET Requests : gone = {r \in Requests : Home[r] = i /\ todo[r] # <<"start">>}
    OBVIOUS
  <2>1. /\ Fault
        /\ server' = [server EXCEPT ![i] = "down"]
        /\ ghosts' = ghosts + Cardinality(gone \cap slots)
        /\ slots' = slots \ gone
        /\ liveGhosts' = liveGhosts + Cardinality(gone \cap live)
        /\ live' = live \ gone
        /\ todo' = [r \in Requests |-> IF r \in gone THEN <<>> ELSE todo[r]]
        /\ load' = [r \in Requests |-> r \notin gone /\ load[r]]
        /\ UNCHANGED <<stale, wait, index, sweep, lost, missed>>
    BY <1>8 DEF Crash
  <2>2. Cardinality(gone \cap slots) \in Nat /\ Cardinality(gone \cap live) \in Nat
    BY FiniteRequests
  <2>3. Rest
    BY <2>1, <2>2 DEF Fault
  <2>4. Others
    BY <2>1
  <2>5. todo' \in [Requests -> Plans]
    BY <2>1, NoCalls
  <2> QED
    BY <2>3, <2>4, <2>5
<1>9. CASE UNCHANGED vars
  BY <1>9 DEF vars, slotVars, liveVars, procVars, historyVars
<1> QED
  BY <1>1, <1>2, <1>3, <1>4, <1>5, <1>6, <1>7, <1>8, <1>9 DEF Next, RequestSteps

-----------------------------------------------------------------------------
(* A request has the member it goes by                                     *)

\* A request keeps what it goes by, or is recorded as one that has lost it.
Keeps(r) ==
    /\ r \in slots => r \in slots' \cup lost'
    /\ r \in live => r \in live' \cup lost'
    /\ r \in lost => r \in lost'

LEMMA RequestKept ==
    ASSUME NEW r, RequestInv(r), Keeps(r), ToSet(todo'[r]) \subseteq ToSet(todo[r])
    PROVE  RequestInv(r)'
BY DEF RequestInv, Keeps, Uses

\* A step of one request takes no other's member.
LEMMA OthersKept ==
    ASSUME TypeInv, NEW r \in Requests,
           RequestSteps(r),
           NEW q \in Requests \ {r}, RequestInv(q)
    PROVE  RequestInv(q)'
<1>1. todo'[q] = todo[q]
  BY PlanStep DEF TypeInv
<1>2. Keeps(q)
  BY DEF Keeps, RequestSteps, Start, Proceed, RefreshFails, EndLive, Disconnect,
     DialSideband, LoseSideband, ExpireOffline, EndUpstream, Touch, ReadLoad, WriteIndex, CountIn,
     Retry, CountOut, Finish, AcquireLiveLease, CreateLiveCall, RefreshLiveLease,
     ReleaseLiveLease, ReleaseThen, AcquireScript, slotVars, liveVars, historyVars
<1> QED
  BY <1>1, <1>2, RequestKept

LEMMA RequestStep ==
    TypeInv /\ (\A q \in Requests : RequestInv(q)) /\ [Next]_vars
        => \A q \in Requests : RequestInv(q)'
<1> SUFFICES ASSUME TypeInv, \A q \in Requests : RequestInv(q), [Next]_vars
             PROVE  \A q \in Requests : RequestInv(q)'
  OBVIOUS
<1>0. todo \in [Requests -> Plans]
  BY DEF TypeInv
<1>1. ASSUME NEW r \in Requests, RequestSteps(r)
      PROVE  \A q \in Requests : RequestInv(q)'
  <2> USE GivenPlans DEF CallNames
  <2> SUFFICES RequestInv(r)'
    BY <1>1, OthersKept
  <2>1. CASE Start(r)
    <3>1. CASE Count < MaxConcurrency
      <4>1. Then(r, <<"touch", "running">>) /\ r \in slots'
        BY <2>1, <3>1 DEF Start, AcquireScript
      <4>2. ToSet(todo'[r]) = {"touch", "running"}
        BY <1>0, <4>1, ThenTyped
      <4> QED
        BY <4>1, <4>2 DEF RequestInv, Uses, Session
    <3>2. CASE ~(Count < MaxConcurrency)
      <4>1. Then(r, <<"count">>) \/ Then(r, <<>>)
        BY <2>1, <3>2 DEF Start
      <4>2. ToSet(todo'[r]) \subseteq {"count"}
        BY <1>0, <4>1, ThenTyped
      <4> QED
        BY <4>2 DEF RequestInv, Uses, Session
    <3> QED
      BY <3>1, <3>2
  <2>2. CASE Touch(r) \/ ReadLoad(r) \/ WriteIndex(r) \/ EndUpstream(r)
    <3>1. Step(r) /\ \E call \in CallNames : At(r, call)
      BY <2>2 DEF Touch, ReadLoad, WriteIndex, EndUpstream
    <3>2. ToSet(todo'[r]) \subseteq ToSet(todo[r])
      BY <1>0, <3>1, StepTyped
    <3>3. Keeps(r)
      BY <2>2 DEF Keeps, Touch, ReadLoad, WriteIndex, EndUpstream, slotVars, liveVars, historyVars
    <3> QED
      BY <3>2, <3>3, RequestKept
  <2>3. CASE CountIn(r)
    <3>1. Then(r, <<"touch", "waiting">>) \/ Then(r, <<"waiting">>) \/ Then(r, <<>>)
      BY <2>3 DEF CountIn
    <3>2. ToSet(todo'[r]) \subseteq {"touch", "waiting"}
      BY <1>0, <3>1, ThenTyped
    <3> QED
      BY <3>2 DEF RequestInv, Uses, Session
  <2>4. CASE Retry(r)
    <3>1. Then(r, <<"touch", "uncount">>) /\ r \in slots'
      BY <2>4 DEF Retry, AcquireScript
    <3>2. ToSet(todo'[r]) = {"touch", "uncount"}
      BY <1>0, <3>1, ThenTyped
    <3> QED
      BY <3>1, <3>2 DEF RequestInv, Uses, Session
  <2>5. CASE CountOut(r)
    <3>1. slots' = slots /\ lost' = lost
      BY <2>5 DEF CountOut, slotVars
    <3>2. CASE At(r, "uncount")
      <4>1. r \in lost \/ r \in slots
        BY <1>0, <3>2, AtCalls DEF RequestInv, Uses, Session
      <4>2. ToSet(todo'[r]) \subseteq {"readLoad", "writeIndex", "running"}
        BY <1>0, <2>5, CountOutCalls
      <4> QED
        BY <3>1, <4>1, <4>2 DEF RequestInv, Uses, Session
    <3>3. CASE ~At(r, "uncount")
      <4>1. ToSet(todo'[r]) \subseteq {"readLoad", "writeIndex"}
        BY <1>0, <2>5, <3>3, CountOutCalls
      <4> QED
        BY <4>1 DEF RequestInv, Uses, Session
    <3> QED
      BY <3>2, <3>3
  <2>6. CASE Finish(r)
    <3> PICK s : s = <<>>
      OBVIOUS
    <3>0. s \in Plans /\ ToSet(s) = {} /\ Len(s) = 0 /\ ReleaseThen(r, s)
      BY <2>6, NoCalls, FewCalls DEF Finish
    <3> HIDE GivenPlans DEF CallNames
    <3>1. ToSet(todo'[r]) \subseteq {"readLoad", "writeIndex"} \cup ToSet(s)
      BY <1>0, <3>0, ReleaseCalls
    <3> QED
      BY <3>0, <3>1 DEF RequestInv, Uses, Session
  <2>7. CASE AcquireLiveLease(r)
    <3>1. /\ Then(r, <<"create">>) /\ At(r, "running")
          /\ r \in live' /\ slots' = slots /\ lost' = lost
      BY <2>7 DEF AcquireLiveLease, slotVars, historyVars
    <3>2. ToSet(todo'[r]) = {"create"}
      BY <1>0, <3>1, ThenTyped
    <3>3. r \in lost \/ r \in slots
      BY <1>0, <3>1, AtCalls DEF RequestInv, Uses, Session
    <3> QED
      BY <3>1, <3>2, <3>3 DEF RequestInv, Uses, Session
  <2>8. CASE CreateLiveCall(r) \/ Disconnect(r)
    <3>1. PICK next \in {"offline", "unlease", "upstream"} :
             ReleaseThen(r, <<next>>) /\ (next = "offline" => At(r, "create"))
      BY <2>8 DEF CreateLiveCall, Disconnect
    <3>2. PICK s : s = <<next>>
      OBVIOUS
    <3>3. s \in Plans /\ ToSet(s) = {next}
      BY <3>2
    <3>4. Len(s) <= 1 /\ ReleaseThen(r, s)
      BY <3>1, <3>2, FewCalls
    <3> HIDE GivenPlans DEF CallNames
    <3>5. ToSet(todo'[r]) \subseteq {"readLoad", "writeIndex"} \cup ToSet(s)
      BY <1>0, <3>3, <3>4, ReleaseCalls
    <3>6. live' = live /\ lost' = lost
      BY <3>4 DEF ReleaseThen, liveVars
    <3>7. next = "offline" => r \in lost \/ r \in live
      BY <1>0, <3>1, AtCalls DEF RequestInv, Uses, Session
    <3> QED
      BY <3>3, <3>5, <3>6, <3>7 DEF RequestInv, Uses, Session
  <2>9. CASE RefreshLiveLease(r) \/ RefreshFails(r) \/ EndLive(r) \/ ExpireOffline(r)
    <3>1. Then(r, <<"unlease">>)
      BY <2>9 DEF RefreshLiveLease, RefreshFails, EndLive, ExpireOffline
    <3>2. ToSet(todo'[r]) = {"unlease"}
      BY <1>0, <3>1, ThenTyped
    <3> QED
      BY <3>2 DEF RequestInv, Uses, Session
  <2>11. CASE DialSideband(r) \/ LoseSideband(r)
    <3>1. (Then(r, <<"live">>) \/ Then(r, <<"offline">>)) /\ live' = live /\ lost' = lost
      BY <2>11 DEF DialSideband, LoseSideband, liveVars, historyVars
    <3>2. ToSet(todo'[r]) \subseteq Session
      BY <1>0, <3>1, ThenTyped DEF Session
    <3>3. r \in lost \/ r \in live
      BY <1>0, <2>11, AtCalls DEF DialSideband, LoseSideband, RequestInv, Uses, Session
    <3> QED
      BY <3>1, <3>2, <3>3 DEF RequestInv, Uses, Session
  <2>10. CASE ReleaseLiveLease(r)
    <3>1. At(r, "unlease") /\ Step(r) /\ slots' = slots /\ lost' = lost
      BY <2>10 DEF ReleaseLiveLease, slotVars
    <3>2. ToSet(todo'[r]) \subseteq ToSet(todo[r]) /\ "unlease" \in ToSet(todo[r])
      BY <1>0, <3>1, StepTyped, AtCalls
    <3> QED
      BY <3>1, <3>2 DEF RequestInv, Uses, Session
  <2> QED
    BY <1>1, <2>1, <2>2, <2>3, <2>4, <2>5, <2>6, <2>7, <2>8, <2>9, <2>10, <2>11
    DEF RequestSteps, Proceed
<1>2. CASE todo' = todo /\ \A q \in Requests : Keeps(q)
  BY <1>2, RequestKept
<1>3. ASSUME NEW r \in Requests, SlotExpires(r) \/ LiveExpires(r)
      PROVE  todo' = todo /\ \A q \in Requests : Keeps(q)
  BY <1>3 DEF SlotExpires, LiveExpires, Keeps, slotVars, liveVars, procVars
<1>4. CASE Expire \/ SweepRead \/ SweepWrite
  BY <1>2, <1>4 DEF Expire, GhostExpires, LiveGhostExpires, KeysExpire, SweepRead, SweepWrite,
     Keeps, slotVars, liveVars, procVars, historyVars
<1>5. ASSUME NEW i \in Instances, CleanupSlots(i) \/ DeleteWait(i) \/ DropIndex(i)
      PROVE  todo' = todo /\ \A q \in Requests : Keeps(q)
  BY <1>5 DEF CleanupSlots, DeleteWait, DropIndex, Keeps, slotVars, liveVars, historyVars
<1>6. ASSUME NEW i \in Instances, Crash(i), NEW q \in Requests PROVE RequestInv(q)'
  <2>1. lost' = lost
    BY <1>6 DEF Crash
  <2>2. CASE Home[q] = i /\ todo[q] # <<"start">>
    <3>1. ToSet(todo'[q]) = {}
      BY <1>6, <2>2, NoCalls DEF Crash
    <3> QED
      BY <3>1 DEF RequestInv, Uses
  <2>3. CASE ~(Home[q] = i /\ todo[q] # <<"start">>)
    <3>1. todo'[q] = todo[q] /\ Keeps(q)
      BY <1>6, <2>1, <2>3 DEF Crash, Keeps
    <3> QED
      BY <3>1, RequestKept
  <2> QED
    BY <2>2, <2>3
<1>7. CASE UNCHANGED vars
  BY <1>2, <1>7 DEF vars, Keeps, slotVars, liveVars, procVars, historyVars
<1> QED
  BY <1>1, <1>2, <1>3, <1>4, <1>5, <1>6, <1>7 DEF Next, RequestSteps

-----------------------------------------------------------------------------
(* Members and the limit                                                   *)

LEMMA UnionBound ==
    ASSUME NEW S, NEW T, IsFiniteSet(S), IsFiniteSet(T)
    PROVE  /\ IsFiniteSet(S \cup T) /\ Cardinality(S \cup T) \in Nat
           /\ Cardinality(S \cup T) <= Cardinality(S) + Cardinality(T)
<1>1. IsFiniteSet(S \cap T) /\ Cardinality(S \cap T) \in Nat
  BY FS_Intersection, FS_CardinalityType
<1>2. Cardinality(S) \in Nat /\ Cardinality(T) \in Nat
  BY FS_CardinalityType
<1>3. IsFiniteSet(S \cup T)
      /\ Cardinality(S \cup T) = Cardinality(S) + Cardinality(T) - Cardinality(S \cap T)
  BY FS_Union
<1>4. Cardinality(S \cup T) \in Nat
  BY <1>3, FS_CardinalityType
<1> QED
  BY <1>1, <1>2, <1>3, <1>4

LEMMA AddBound ==
    ASSUME NEW S, NEW x, IsFiniteSet(S)
    PROVE  /\ IsFiniteSet(S \cup {x}) /\ Cardinality(S \cup {x}) \in Nat
           /\ Cardinality(S \cup {x}) <= Cardinality(S) + 1
<1>1. Cardinality(S) \in Nat
  BY FS_CardinalityType
<1>2. /\ IsFiniteSet(S \cup {x})
      /\ Cardinality(S \cup {x}) = IF x \in S THEN Cardinality(S) ELSE Cardinality(S) + 1
  BY FS_AddElement
<1> QED
  BY <1>1, <1>2

LEMMA MembersShrink ==
    ASSUME TypeInv, MemberInv, Members' \subseteq Members PROVE TypeInv' => MemberInv'
<1>1. Members \in SUBSET Requests
  BY DEF Members, TypeInv
<1>2. IsFiniteSet(Members) /\ Cardinality(Members) \in Nat
  BY <1>1, FiniteRequests
<1>3. Cardinality(Members') <= Cardinality(Members) /\ Cardinality(Members') \in Nat
  BY <1>2, FS_Subset, FS_CardinalityType
<1> QED
  BY <1>2, <1>3, ConcurrencyAssumption DEF MemberInv, ConcurrencyAssumption

\* The script looks at all the members, those it adds one to among them.
LEMMA AcquireKeepsLimit ==
    ASSUME TypeInv, MemberInv, NEW r \in Requests, AcquireScript(r), UNCHANGED <<live, lost>>
    PROVE  MemberInv'
<1>1. CASE Count < MaxConcurrency
  <2>1. Members' \subseteq (slots \cup live) \cup {r}
    BY <1>1 DEF AcquireScript, Members
  <2>2. /\ IsFiniteSet(slots) /\ IsFiniteSet(live)
        /\ Cardinality(slots) \in Nat /\ Cardinality(live) \in Nat
    BY FiniteRequests DEF TypeInv
  <2> PICK S : S = slots \cup live
    OBVIOUS
  <2>3. IsFiniteSet(S) /\ Cardinality(S) <= Cardinality(slots) + Cardinality(live)
    BY <2>2, UnionBound
  <2>4. Cardinality(S) \in Nat
    BY <2>3, FS_CardinalityType
  <2> PICK T : T = S \cup {r}
    OBVIOUS
  <2>5. IsFiniteSet(T) /\ Cardinality(T) <= Cardinality(S) + 1
    BY <2>3, AddBound
  <2>6. Cardinality(T) \in Nat
    BY <2>5, FS_CardinalityType
  <2>7. Cardinality(Members') <= Cardinality(T) /\ Cardinality(Members') \in Nat
    BY <2>1, <2>5, FS_Subset, FS_CardinalityType
  <2>8. Cardinality(slots) + Cardinality(live) < MaxConcurrency
    BY <1>1, <2>2, ConcurrencyAssumption DEF Count, TypeInv, ConcurrencyAssumption
  <2> QED
    BY <2>2, <2>3, <2>4, <2>5, <2>6, <2>7, <2>8, ConcurrencyAssumption
    DEF MemberInv, ConcurrencyAssumption
<1>2. CASE ~(Count < MaxConcurrency)
  <2>1. Members' = Members
    BY <1>2 DEF AcquireScript, Members
  <2> QED
    BY <2>1 DEF MemberInv
<1> QED
  BY <1>1, <1>2

LEMMA MemberStep ==
    ASSUME TypeInv, TypeInv', \A r \in Requests : RequestInv(r), MemberInv, [Next]_vars
    PROVE  MemberInv'
<1>0. todo \in [Requests -> Plans]
  BY DEF TypeInv
<1>1. ASSUME NEW r \in Requests, Start(r) \/ Retry(r) PROVE MemberInv'
  BY <1>1, AcquireKeepsLimit DEF Start, Retry, liveVars, historyVars
<1>2. ASSUME NEW r \in Requests, AcquireLiveLease(r) PROVE Members' \subseteq Members
  <2>1. r \in lost \/ r \in slots
    BY <1>0, <1>2, AtCalls DEF AcquireLiveLease, RequestInv, Uses
  <2> QED
    BY <1>2, <2>1 DEF AcquireLiveLease, Members, slotVars, historyVars
<1>3. ASSUME NEW r \in Requests,
             \/ Touch(r) \/ ReadLoad(r) \/ WriteIndex(r) \/ CountIn(r) \/ CountOut(r)
             \/ Finish(r) \/ CreateLiveCall(r) \/ RefreshLiveLease(r) \/ ReleaseLiveLease(r)
             \/ RefreshFails(r) \/ EndLive(r) \/ SlotExpires(r) \/ LiveExpires(r)
             \/ Disconnect(r) \/ EndUpstream(r) \/ DialSideband(r) \/ LoseSideband(r)
             \/ ExpireOffline(r)
      PROVE  Members' \subseteq Members
  BY <1>3 DEF Members, Disconnect, EndUpstream, DialSideband, LoseSideband, ExpireOffline,
     Touch, ReadLoad, WriteIndex, CountIn, CountOut, Finish, CreateLiveCall,
     RefreshLiveLease, ReleaseLiveLease, RefreshFails, EndLive, SlotExpires, LiveExpires,
     ReleaseThen, slotVars, liveVars, historyVars
<1>4. CASE Expire \/ SweepRead \/ SweepWrite
  <2>1. Members' \subseteq Members
    BY <1>4 DEF Members, Expire, GhostExpires, LiveGhostExpires, KeysExpire, SweepRead,
       SweepWrite, slotVars, liveVars, historyVars
  <2> QED
    BY <2>1, MembersShrink
<1>5. ASSUME NEW i \in Instances, CleanupSlots(i) \/ DeleteWait(i) \/ DropIndex(i) \/ Crash(i)
      PROVE  Members' \subseteq Members
  BY <1>5 DEF Members, CleanupSlots, DeleteWait, DropIndex, Crash, slotVars, liveVars,
     historyVars
<1>6. CASE UNCHANGED vars
  <2>1. Members' \subseteq Members
    BY <1>6 DEF Members, vars, slotVars, liveVars, historyVars
  <2> QED
    BY <2>1, MembersShrink
<1> QED
  BY <1>1, <1>2, <1>3, <1>4, <1>5, <1>6, MembersShrink DEF Next, Proceed

-----------------------------------------------------------------------------
(* The queue and its counter                                               *)

Waits(r) == Uses(r, {"waiting", "uncount"})

LEMMA QueueIsFinite ==
    /\ IsFiniteSet(Queued) /\ Cardinality(Queued) \in Nat
    /\ IsFiniteSet(Queued') /\ Cardinality(Queued') \in Nat
BY FiniteRequests DEF Queued

LEMMA QueueShrinks ==
    ASSUME TypeInv, QueueInv, UNCHANGED <<wait, missed>>,
           \A r \in Requests : Waits(r)' => Waits(r)
    PROVE  QueueInv'
<1>1. Queued' \subseteq Queued
  BY DEF Queued, Waits, Uses
<1>2. Cardinality(Queued') <= Cardinality(Queued)
  BY <1>1, QueueIsFinite, FS_Subset
<1> QED
  BY <1>2, QueueIsFinite DEF QueueInv, TypeInv

\* Whoever leaves the queue leaves room for the count it gives back.
LEMMA QueueLeft ==
    ASSUME TypeInv, TypeInv', QueueInv, NEW r \in Requests, Waits(r), ~Waits(r)',
           \A q \in Requests \ {r} : todo'[q] = todo[q],
           wait' = wait \/ Decrement, missed' = missed
    PROVE  QueueInv'
<1>1. Queued' \subseteq Queued \ {r} /\ r \in Queued
  BY DEF Queued, Waits, Uses
<1>2. /\ IsFiniteSet(Queued \ {r})
      /\ Cardinality(Queued \ {r}) = Cardinality(Queued) - 1
  BY <1>1, QueueIsFinite, FS_RemoveElement
<1>3. Cardinality(Queued') <= Cardinality(Queued) - 1
  BY <1>1, <1>2, FS_Subset
<1>4. wait' >= wait - 1 /\ wait' <= wait
  BY DEF Decrement, TypeInv
<1> QED
  BY <1>3, <1>4, QueueIsFinite, ConcurrencyAssumption
  DEF QueueInv, TypeInv, ConcurrencyAssumption

\* Whoever enters it has been counted or is known to be missed.
LEMMA QueueEntered ==
    ASSUME TypeInv, TypeInv', QueueInv, NEW r \in Requests,
           \A q \in Requests \ {r} : todo'[q] = todo[q],
           wait' <= MaxWait, wait' + missed' = wait + missed + 1
    PROVE  QueueInv'
<1>1. Queued' \subseteq Queued \cup {r}
  BY DEF Queued
<1>2. /\ IsFiniteSet(Queued \cup {r})
      /\ Cardinality(Queued \cup {r}) <= Cardinality(Queued) + 1
      /\ Cardinality(Queued \cup {r}) \in Nat
  BY QueueIsFinite, AddBound
<1>3. Cardinality(Queued') <= Cardinality(Queued) + 1
  <2>1. Cardinality(Queued') <= Cardinality(Queued \cup {r})
    BY <1>1, <1>2, FS_Subset
  <2> QED
    BY <1>2, <2>1, QueueIsFinite
<1>4. wait \in Nat /\ missed \in Nat /\ wait' \in Nat /\ missed' \in Nat
  BY DEF TypeInv
<1>5. Cardinality(Queued) <= wait + missed
  BY DEF QueueInv
<1>6. Cardinality(Queued') <= wait' + missed'
  <2>1. \A a, b, c, d, m, n \in Nat :
            n <= m + 1 /\ m <= a + b /\ c + d = a + b + 1 => n <= c + d
    OBVIOUS
  <2>2. Cardinality(Queued) \in Nat /\ Cardinality(Queued') \in Nat
    BY QueueIsFinite
  <2> QED
    BY <1>3, <1>4, <1>5, <2>1, <2>2
<1> QED
  BY <1>6 DEF QueueInv

LEMMA QueueStep ==
    ASSUME TypeInv, TypeInv', QueueInv, [Next]_vars
    PROVE  QueueInv'
<1>0. todo \in [Requests -> Plans]
  BY DEF TypeInv
<1>1. ASSUME NEW r \in Requests, RequestSteps(r)
      PROVE  QueueInv'
  <2> USE GivenPlans DEF CallNames
  <2>0. \A q \in Requests \ {r} : todo'[q] = todo[q]
    BY <1>0, <1>1, PlanStep
  <2>1. CASE UNCHANGED <<wait, missed>> /\ (Waits(r)' => Waits(r))
    <3>1. \A q \in Requests : Waits(q)' => Waits(q)
      BY <2>0, <2>1 DEF Waits, Uses
    <3> QED
      BY <2>1, <3>1, QueueShrinks
  <2>2. CASE Start(r)
    <3>1. Then(r, <<"touch", "running">>) \/ Then(r, <<"count">>) \/ Then(r, <<>>)
      BY <2>2 DEF Start
    <3>2. ToSet(todo'[r]) \subseteq {"touch", "running", "count"}
      BY <1>0, <3>1, ThenTyped
    <3>3. UNCHANGED <<wait, missed>>
      BY <2>2 DEF Start, historyVars
    <3> QED
      BY <2>1, <3>2, <3>3 DEF Waits, Uses
  <2>3. CASE \/ Touch(r) \/ ReadLoad(r) \/ WriteIndex(r) \/ ReleaseLiveLease(r)
           \/ EndUpstream(r)
    <3>1. Step(r) /\ \E call \in CallNames : At(r, call)
      BY <2>3 DEF Touch, ReadLoad, WriteIndex, ReleaseLiveLease, EndUpstream
    <3>2. ToSet(todo'[r]) \subseteq ToSet(todo[r])
      BY <1>0, <3>1, StepTyped
    <3>3. UNCHANGED <<wait, missed>>
      BY <2>3 DEF Touch, ReadLoad, WriteIndex, ReleaseLiveLease, EndUpstream, historyVars
    <3> QED
      BY <2>1, <3>2, <3>3 DEF Waits, Uses
  <2>4. CASE CountIn(r)
    <3>1. CASE MayWait /\ wait' = wait + 1 /\ missed' = missed
      <4>1. wait' <= MaxWait /\ wait' + missed' = wait + missed + 1
        BY <3>1, ConcurrencyAssumption DEF MayWait, TypeInv, ConcurrencyAssumption
      <4> QED
        BY <2>0, <4>1, QueueEntered
    <3>2. CASE UNCHANGED <<wait, missed>> /\ Then(r, <<>>)
      <4>1. ToSet(todo'[r]) = {}
        BY <1>0, <3>2, ThenTyped
      <4> QED
        BY <2>1, <3>2, <4>1 DEF Waits, Uses
    <3>3. CASE missed' = missed + 1 /\ wait' = wait
      <4>1. wait' <= MaxWait /\ wait' + missed' = wait + missed + 1
        BY <3>3 DEF QueueInv, TypeInv
      <4> QED
        BY <2>0, <4>1, QueueEntered
    <3> QED
      BY <2>4, <3>1, <3>2, <3>3 DEF CountIn
  <2>5. CASE Retry(r)
    <3>1. Waits(r) /\ UNCHANGED <<wait, missed>>
      BY <1>0, <2>5, AtCalls DEF Retry, Waits, Uses, historyVars
    <3> QED
      BY <2>1, <3>1
  <2>6. CASE CountOut(r)
    <3>1. Waits(r)
      BY <1>0, <2>6, AtCalls DEF CountOut, Waits, Uses
    <3>2. ~Waits(r)'
      <4>1. ToSet(todo'[r]) \subseteq {"readLoad", "writeIndex", "running"}
        BY <1>0, <2>6, CountOutCalls
      <4> QED
        BY <4>1 DEF Waits, Uses
    <3>3. (wait' = wait \/ Decrement) /\ missed' = missed
      BY <2>6 DEF CountOut
    <3> QED
      BY <2>0, <3>1, <3>2, <3>3, QueueLeft
  <2>7. CASE Finish(r)
    <3>1. PICK s : s = <<>>
      OBVIOUS
    <3>2. s \in Plans /\ ToSet(s) = {} /\ Len(s) <= 1 /\ ReleaseThen(r, s)
      BY <2>7, <3>1, FewCalls DEF Finish
    <3>3. UNCHANGED <<wait, missed>>
      BY <3>2 DEF ReleaseThen
    <3> HIDE GivenPlans DEF CallNames
    <3>4. ToSet(todo'[r]) \subseteq {"readLoad", "writeIndex"} \cup ToSet(s)
      BY <1>0, <3>2, ReleaseCalls
    <3> QED
      BY <2>1, <3>2, <3>3, <3>4 DEF Waits, Uses
  <2>8. CASE CreateLiveCall(r) \/ Disconnect(r)
    <3>1. PICK next \in {"offline", "unlease", "upstream"} : ReleaseThen(r, <<next>>)
      BY <2>8 DEF CreateLiveCall, Disconnect
    <3>2. PICK s : s = <<next>>
      OBVIOUS
    <3>3. s \in Plans /\ ToSet(s) = {next}
      BY <3>2
    <3>4. Len(s) <= 1 /\ ReleaseThen(r, s)
      BY <3>1, <3>2, FewCalls
    <3>5. UNCHANGED <<wait, missed>>
      BY <3>4 DEF ReleaseThen
    <3> HIDE GivenPlans DEF CallNames
    <3>6. ToSet(todo'[r]) \subseteq {"readLoad", "writeIndex"} \cup ToSet(s)
      BY <1>0, <3>3, <3>4, ReleaseCalls
    <3> QED
      BY <2>1, <3>3, <3>5, <3>6 DEF Waits, Uses
  <2>9. CASE \/ AcquireLiveLease(r) \/ RefreshLiveLease(r) \/ RefreshFails(r) \/ EndLive(r)
           \/ DialSideband(r) \/ LoseSideband(r) \/ ExpireOffline(r)
    <3>1. \/ Then(r, <<"create">>) \/ Then(r, <<"unlease">>) \/ Then(r, <<"live">>)
          \/ Then(r, <<"offline">>)
      BY <2>9 DEF AcquireLiveLease, RefreshLiveLease, RefreshFails, EndLive, DialSideband,
         LoseSideband, ExpireOffline
    <3>2. ToSet(todo'[r]) \subseteq {"create", "unlease", "live", "offline"}
      BY <1>0, <3>1, ThenTyped
    <3>3. UNCHANGED <<wait, missed>>
      BY <2>9 DEF AcquireLiveLease, RefreshLiveLease, RefreshFails, EndLive, DialSideband,
         LoseSideband, ExpireOffline, historyVars
    <3> QED
      BY <2>1, <3>2, <3>3 DEF Waits, Uses
  <2> QED
    BY <1>1, <2>2, <2>3, <2>4, <2>5, <2>6, <2>7, <2>8, <2>9 DEF RequestSteps, Proceed
<1>2. CASE UNCHANGED <<todo, wait, missed>>
  BY <1>2, QueueShrinks DEF Waits, Uses
<1>3. ASSUME NEW r \in Requests, SlotExpires(r) \/ LiveExpires(r)
      PROVE  UNCHANGED <<todo, wait, missed>>
  BY <1>3 DEF SlotExpires, LiveExpires, procVars
<1>4. CASE Expire
  <2>1. CASE Queued = {} /\ wait' = 0 /\ UNCHANGED <<todo, missed>>
    <3>1. Cardinality(Queued') = 0
      BY <2>1, FS_EmptySet DEF Queued
    <3> QED
      BY <2>1, <3>1, ConcurrencyAssumption DEF QueueInv, TypeInv, ConcurrencyAssumption
  <2> QED
    BY <1>2, <1>4, <2>1 DEF Expire, GhostExpires, LiveGhostExpires, KeysExpire, procVars,
       historyVars
<1>5. CASE SweepRead \/ SweepWrite
  BY <1>2, <1>5 DEF SweepRead, SweepWrite, historyVars
<1>6. ASSUME NEW i \in Instances, CleanupSlots(i) \/ DropIndex(i)
      PROVE  UNCHANGED <<todo, wait, missed>>
  BY <1>6 DEF CleanupSlots, DropIndex, historyVars
<1>7. ASSUME NEW i \in Instances, DeleteWait(i) PROVE QueueInv'
  <2>1. Queued' = Queued
    BY <1>7 DEF DeleteWait, Queued
  <2>2. wait' = 0 /\ missed' = missed + Cardinality(Queued)
    BY <1>7 DEF DeleteWait
  <2> QED
    BY <2>1, <2>2, QueueIsFinite, ConcurrencyAssumption
    DEF QueueInv, TypeInv, ConcurrencyAssumption
<1>8. ASSUME NEW i \in Instances, Crash(i) PROVE QueueInv'
  <2>1. UNCHANGED <<wait, missed>>
    BY <1>8 DEF Crash
  <2>2. ASSUME NEW q \in Requests, Waits(q)' PROVE Waits(q)
    <3>1. todo'[q] = <<>> \/ todo'[q] = todo[q]
      BY <1>8 DEF Crash
    <3> QED
      BY <2>2, <3>1, NoCalls DEF Waits, Uses
  <2> QED
    BY <2>1, <2>2, QueueShrinks
<1>9. CASE UNCHANGED vars
  BY <1>2, <1>9 DEF vars, procVars, historyVars
<1> QED
  BY <1>1, <1>2, <1>3, <1>4, <1>5, <1>6, <1>7, <1>8, <1>9 DEF Next, RequestSteps

-----------------------------------------------------------------------------
(* The theorems                                                            *)

LEMMA Inductive == Spec => []IInv
<1>1. Init => IInv
  <2> SUFFICES ASSUME Init PROVE IInv
    OBVIOUS
  <2>1. \A r \in Requests : todo[r] = <<"start">> /\ ToSet(todo[r]) = {"start"}
    BY OneCall DEF Init, CallNames
  <2>2. TypeInv
    BY OneCall DEF Init, TypeInv, CallNames
  <2>3. \A r \in Requests : RequestInv(r)
    BY <2>1 DEF RequestInv, Uses, Session
  <2>4. MemberInv
    <3>1. Members = {}
      BY DEF Init, Members
    <3> QED
      BY <3>1, FS_EmptySet, ConcurrencyAssumption DEF MemberInv, ConcurrencyAssumption
  <2>5. QueueInv
    <3>1. Queued = {}
      BY <2>1 DEF Queued
    <3>2. Cardinality(Queued) = 0
      BY <3>1, FS_EmptySet
    <3> QED
      BY <3>2, ConcurrencyAssumption DEF Init, QueueInv, ConcurrencyAssumption
  <2> QED
    BY <2>2, <2>3, <2>4, <2>5 DEF IInv
<1>2. IInv /\ [Next]_vars => IInv'
  <2> SUFFICES ASSUME IInv, [Next]_vars PROVE IInv'
    OBVIOUS
  <2>1. TypeInv'
    BY TypeStep DEF IInv
  <2>2. \A r \in Requests : RequestInv(r)'
    BY RequestStep DEF IInv
  <2>3. MemberInv'
    BY <2>1, MemberStep DEF IInv
  <2>4. QueueInv'
    BY <2>1, QueueStep DEF IInv
  <2> QED
    BY <2>1, <2>2, <2>3, <2>4 DEF IInv
<1> QED
  BY <1>1, <1>2, PTL DEF Spec

\* Every variable keeps its type: no counter becomes negative, and no request has
\* more than three calls left.
THEOREM TypeCorrect == Spec => []TypeOK
<1>1. IInv => TypeOK
  <2> SUFFICES ASSUME IInv PROVE TypeOK
    OBVIOUS
  <2>1. \A r \in Requests : Len(todo[r]) <= 3
    BY DEF IInv, TypeInv, Plans
  <2> QED
    BY <2>1 DEF IInv, TypeInv, TypeOK
<1> QED
  BY <1>1, Inductive, PTL

\* However many requests, instances, crashes and expiries: each request beyond the
\* account's limit stands beside one whose slot or lease was taken from it, or whose
\* client is gone and its slot given back.
THEOREM OverAdmissionBounded == Spec => []OverAdmissionIsBounded
<1>1. IInv => OverAdmissionIsBounded
  <2> DEFINE Excused == (lost \cup Detached) \cap Active
  <2> SUFFICES ASSUME IInv PROVE Cardinality(Active) <= MaxConcurrency + Cardinality(Excused)
    BY DEF OverAdmissionIsBounded
  <2>1. Active \subseteq Members \cup (Excused)
    BY DEF Active, Detached, Session, Members, IInv, RequestInv, Uses
  <2>2. /\ IsFiniteSet(Members) /\ Cardinality(Members) \in Nat
        /\ IsFiniteSet(Excused) /\ Cardinality(Excused) \in Nat
        /\ IsFiniteSet(Active) /\ Cardinality(Active) \in Nat
    BY FiniteRequests DEF Members, Active, Detached, IInv, TypeInv
  <2> PICK S, T, U : S = Active /\ T = Members /\ U = Excused
    OBVIOUS
  <2>3. /\ IsFiniteSet(T \cup U) /\ Cardinality(T \cup U) \in Nat
        /\ Cardinality(T \cup U) <= Cardinality(T) + Cardinality(U)
    BY <2>2, UnionBound
  <2>4. Cardinality(S) <= Cardinality(T \cup U)
    BY <2>1, <2>3, FS_Subset
  <2>5. Cardinality(T) <= MaxConcurrency
    BY DEF IInv, MemberInv
  <2> QED
    BY <2>2, <2>3, <2>4, <2>5, ConcurrencyAssumption DEF ConcurrencyAssumption
<1> QED
  BY <1>1, Inductive, PTL

\* The queue exceeds its limit by no more than the requests that were never counted
\* or whose count a starting instance deleted.
THEOREM QueueBounded == Spec => []QueueIsBounded
<1>1. IInv => QueueIsBounded
  BY QueueIsFinite, ConcurrencyAssumption
  DEF IInv, TypeInv, QueueInv, QueueIsBounded, ConcurrencyAssumption
<1> QED
  BY <1>1, Inductive, PTL
=============================================================================
