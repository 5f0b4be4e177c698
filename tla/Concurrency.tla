---------------------------- MODULE Concurrency ----------------------------
(***************************************************************************)
(* The concurrency slots of one account                                    *)
(* (repository/concurrency_cache.go, service/concurrency_service.go,       *)
(* handler/gateway_helper.go, handler/gateway_handler.go): requests of     *)
(* several instances take slots, queue when there is none, turn a slot     *)
(* into the lease of a live session, crash and leave members behind; slots *)
(* run out, a starting instance clears what it takes for the remains of    *)
(* dead processes, and an index says which accounts a cleanup looks at.    *)
(* A Redis script or command is one action. Members of the sorted set      *)
(* whose owner is gone cannot be told apart and are only counted.          *)
(***************************************************************************)
EXTENDS Integers, FiniteSets, Sequences, SequencesExt

CONSTANTS
    Requests,       \* gateway requests; each has ids of its own
    LiveRequests,   \* those that open a live session
    Instances,      \* server processes
    Home,           \* the instance a request arrives at
    MaxConcurrency,            \* the account's concurrency
    MaxWait,        \* WaitPlan.MaxWaiting
    MaxFaults       \* bound: crashes, failing calls, members that age under an owner

ASSUME ConcurrencyAssumption ==
    /\ IsFiniteSet(Requests)
    /\ LiveRequests \subseteq Requests
    /\ Home \in [Requests -> Instances]
    /\ MaxConcurrency \in Nat \ {0}
    /\ MaxWait \in Nat
    /\ MaxFaults \in Nat

VARIABLES
    slots,          \* concurrency:account members with a live owner
    ghosts,         \* members whose owner is gone
    stale,          \* members past their TTL that no script has removed yet
    live,           \* concurrency:live:account members with a live owner
    liveGhosts,     \* live members whose owner is gone
    wait,           \* wait:account
    index,          \* the account is a member of the active index
    todo,           \* per request: the calls that are left
    load,           \* per request: what refreshActiveIndex has read
    server,         \* per instance: "up", or where it is in starting
    sweep,          \* the cleanup worker: "idle", or what it has read
    lost,           \* history: requests whose member went while they needed it
    missed,         \* history: queued requests the wait counter has not counted
    faults

slotVars == <<slots, ghosts, stale>>
liveVars == <<live, liveGhosts>>
procVars == <<todo, load, server, sweep>>
historyVars == <<lost, missed, faults>>
vars == <<slotVars, liveVars, wait, index, procVars, historyVars>>

Init ==
    /\ slots = {} /\ ghosts = 0 /\ stale = 0
    /\ live = {} /\ liveGhosts = 0
    /\ wait = 0
    /\ index = FALSE
    /\ todo = [r \in Requests |-> <<"start">>]
    /\ load = [r \in Requests |-> FALSE]
    /\ server = [i \in Instances |-> "down"]
    /\ sweep = "idle"
    /\ lost = {} /\ missed = 0 /\ faults = 0

-----------------------------------------------------------------------------
At(r, call) == todo[r] # <<>> /\ Head(todo[r]) = call

\* The calls r makes from here on
Then(r, calls) == todo' = [todo EXCEPT ![r] = calls]

Step(r) == Then(r, Tail(todo[r]))

Fault == faults < MaxFaults /\ faults' = faults + 1

\* Requests whose client is gone, whose slot is given back and whose upstream call
\* goes on
Detached == {r \in Requests : "upstream" \in ToSet(todo[r])}

\* A live session: its sideband connection is up, or is dialled and waited for
Session == {"live", "offline"}

\* Requests that are about to use the account, or using it
Active ==
    {r \in Requests : ToSet(todo[r]) \cap ({"running", "uncount", "create"} \cup Session) # {}}
    \cup Detached

\* Requests that wait, or have still to give back their place in the queue
Queued == {r \in Requests : ToSet(todo[r]) \cap {"waiting", "uncount"} # {}}

\* refreshActiveIndex: two calls, what is read may be out of date when written
RefreshIndex == <<"readLoad", "writeIndex">>

-----------------------------------------------------------------------------
(* Slots *)

\* Mutant: live sessions are not counted.
CountRegular == Cardinality(slots) + ghosts

\* Members that count against the limit
Count == Cardinality(slots) + ghosts + Cardinality(live) + liveGhosts

\* acquireScript: expired members go first, then the count decides.
AcquireScript(r) ==
    /\ stale' = 0
    /\ slots' = IF Count < MaxConcurrency THEN slots \cup {r} ELSE slots
    /\ UNCHANGED ghosts

\* AcquireAccountSlot, when the account is selected; a live session is not queued.
Start(r) ==
    /\ At(r, "start")
    /\ server[Home[r]] = "up"
    /\ AcquireScript(r)
    /\ IF Count < MaxConcurrency THEN Then(r, <<"touch", "running">>)
       ELSE \/ Then(r, <<>>)                              \* without a wait plan
            \/ r \notin LiveRequests /\ Then(r, <<"count">>)
    /\ UNCHANGED <<liveVars, wait, index, load, server, sweep, historyVars>>

\* touchActiveIndexAt
Touch(r) ==
    /\ At(r, "touch")
    /\ index' = TRUE
    /\ Step(r)
    /\ UNCHANGED <<slotVars, liveVars, wait, load, server, sweep, historyVars>>

\* ReleaseAccountSlot, before the calls next; a failing release is logged and
\* leaves the member and the index alone.
ReleaseThen(r, next) ==
    /\ slots' = slots \ {r}
    /\ \/ /\ Then(r, RefreshIndex \o next)
          /\ UNCHANGED <<ghosts, faults>>
       \/ /\ Fault
          /\ ghosts' = IF r \in slots THEN ghosts + 1 ELSE ghosts
          /\ Then(r, next)
    /\ UNCHANGED <<stale, liveVars, wait, index, load, server, sweep, lost, missed>>

\* readActiveLoadForKey removes expired members on the way; live members are not
\* part of the load.
Loaded == slots # {} \/ ghosts > 0 \/ wait > 0

ReadLoad(r) ==
    /\ At(r, "readLoad")
    /\ stale' = 0
    /\ load' = [load EXCEPT ![r] = Loaded]
    /\ Step(r)
    /\ UNCHANGED <<slots, ghosts, liveVars, wait, index, server, sweep, historyVars>>

WriteIndex(r) ==
    /\ At(r, "writeIndex")
    /\ index' = load[r]
    /\ load' = [load EXCEPT ![r] = FALSE]
    /\ Step(r)
    /\ UNCHANGED <<slotVars, liveVars, wait, server, sweep, historyVars>>

-----------------------------------------------------------------------------
(* The wait queue *)

\* Mutant: one request more than the limit.
MayWaitToo == wait <= MaxWait

MayWait == wait < MaxWait

\* IncrementAccountWaitCount; an error lets the request wait without having
\* counted it, and it gives back a place it does not have.
CountIn(r) ==
    /\ At(r, "count")
    /\ \/ /\ wait' = IF MayWait THEN wait + 1 ELSE wait
          /\ IF MayWait THEN Then(r, <<"touch", "waiting">>) ELSE Then(r, <<>>)
          /\ UNCHANGED <<missed, faults>>
       \/ /\ Fault
          /\ missed' = missed + 1
          /\ Then(r, <<"waiting">>)
          /\ UNCHANGED wait
    /\ UNCHANGED <<slotVars, liveVars, index, load, server, sweep, lost>>

\* waitForSlotWithPingTimeout: another try, with backoff
Retry(r) ==
    /\ At(r, "waiting")
    /\ Count < MaxConcurrency
    /\ AcquireScript(r)
    /\ Then(r, <<"touch", "uncount">>)
    /\ UNCHANGED <<liveVars, wait, index, load, server, sweep, historyVars>>

\* decrementWaitScript
Decrement == wait' = IF wait > 0 THEN wait - 1 ELSE wait

\* DecrementAccountWaitCount, after the slot was taken or the wait has ended with
\* the timeout, the client's disconnect or an error of the cache; a failing
\* decrement is logged and leaves the count
CountOut(r) ==
    LET next == IF At(r, "waiting") THEN <<>> ELSE <<"running">>
    IN  /\ At(r, "waiting") \/ At(r, "uncount")
        /\ \/ /\ Decrement
              /\ Then(r, RefreshIndex \o next)
              /\ UNCHANGED faults
           \/ /\ Fault
              /\ Then(r, next)
              /\ UNCHANGED wait
        /\ UNCHANGED <<slotVars, liveVars, index, load, server, sweep, lost, missed>>

-----------------------------------------------------------------------------
(* The request itself, and live sessions *)

\* The request ends, whatever its outcome, and gives back its slot.
Finish(r) ==
    /\ At(r, "running")
    /\ ReleaseThen(r, <<>>)

\* wrapReleaseOnDone: the slot goes as soon as the client does, while the upstream
\* call, which does not depend on the client, goes on using the account. A request
\* that opens a session holds its slot without this.
Disconnect(r) ==
    /\ At(r, "running")
    /\ r \notin LiveRequests
    /\ ReleaseThen(r, <<"upstream">>)

\* The upstream call returns; its release has been made.
EndUpstream(r) ==
    /\ At(r, "upstream")
    /\ Step(r)
    /\ UNCHANGED <<slotVars, liveVars, wait, index, load, server, sweep, historyVars>>

\* acquireLiveLeaseScript on top of the slot that the lease replaces: one member
\* more than the limit is allowed, the slot is not looked for, and expired
\* members of the regular set are counted. A refused request ends (Finish).
AcquireLiveLease(r) ==
    /\ At(r, "running")
    /\ r \in LiveRequests
    /\ Count + stale < MaxConcurrency + 1
    /\ live' = live \cup {r}
    /\ Then(r, <<"create">>)
    /\ UNCHANGED <<slotVars, liveGhosts, wait, index, load, server, sweep, historyVars>>

\* createUpstreamLiveCall: the slot goes in any case, the lease when it fails. The
\* session begins without a sideband connection.
CreateLiveCall(r) ==
    /\ At(r, "create")
    /\ \E next \in {"offline", "unlease"} : ReleaseThen(r, <<next>>)

\* observeLiveCall or the client's controller has a sideband connection,
DialSideband(r) ==
    /\ At(r, "offline")
    /\ Then(r, <<"live">>)
    /\ UNCHANGED <<slotVars, liveVars, wait, index, load, server, sweep, historyVars>>

\* and loses it: dialling again, and waiting for the session's end once the store
\* fails, refresh no lease.
LoseSideband(r) ==
    /\ At(r, "live")
    /\ Then(r, <<"offline">>)
    /\ UNCHANGED <<slotVars, liveVars, wait, index, load, server, sweep, historyVars>>

\* The loop, or finalizeLiveCallAfterExpiry, has come to ExpiresAt.
ExpireOffline(r) ==
    /\ At(r, "offline")
    /\ Then(r, <<"unlease">>)
    /\ UNCHANGED <<slotVars, liveVars, wait, index, load, server, sweep, historyVars>>

\* Mutant: what the refresh finds is not looked at.
RefreshOnly(r) ==
    /\ At(r, "live")
    /\ Then(r, <<"live">>)
    /\ UNCHANGED <<slotVars, liveVars, wait, index, load, server, sweep, historyVars>>

\* runLiveController and runLiveObserverConnection, while the sideband is up: a
\* refresh that does not find the member ends the session; it never puts the
\* member back.
RefreshLiveLease(r) ==
    /\ At(r, "live")
    /\ r \notin live
    /\ Then(r, <<"unlease">>)
    /\ UNCHANGED <<slotVars, liveVars, wait, index, load, server, sweep, historyVars>>

\* So does a refresh that fails.
RefreshFails(r) ==
    /\ At(r, "live")
    /\ Fault
    /\ Then(r, <<"unlease">>)
    /\ UNCHANGED <<slotVars, liveVars, wait, index, load, server, sweep, lost, missed>>

\* The session is closed or has reached its longest duration.
EndLive(r) ==
    /\ At(r, "live")
    /\ Then(r, <<"unlease">>)
    /\ UNCHANGED <<slotVars, liveVars, wait, index, load, server, sweep, historyVars>>

\* releaseLiveLease; a failure is ignored and leaves the member.
ReleaseLiveLease(r) ==
    /\ At(r, "unlease")
    /\ live' = live \ {r}
    /\ \/ UNCHANGED <<liveGhosts, faults>>
       \/ r \in live /\ Fault /\ liveGhosts' = liveGhosts + 1
    /\ Step(r)
    /\ UNCHANGED <<slotVars, wait, index, load, server, sweep, lost, missed>>

-----------------------------------------------------------------------------
(* Time *)

\* A slot is never refreshed: a request may outlive it.
SlotExpires(r) ==
    /\ r \in slots
    /\ Fault
    /\ slots' = slots \ {r}
    /\ stale' = stale + 1
    /\ lost' = lost \cup {r}
    /\ UNCHANGED <<ghosts, liveVars, wait, index, procVars, missed>>

GhostExpires ==
    /\ ghosts > 0
    /\ ghosts' = ghosts - 1
    /\ stale' = stale + 1
    /\ UNCHANGED <<slots, liveVars, wait, index, procVars, historyVars>>

\* The owner was too slow to refresh its lease, or had no connection to do it for.
LiveExpires(r) ==
    /\ r \in live
    /\ IF At(r, "offline") THEN UNCHANGED faults ELSE Fault
    /\ live' = live \ {r}
    /\ lost' = lost \cup {r}
    /\ UNCHANGED <<slotVars, liveGhosts, wait, index, procVars, missed>>

LiveGhostExpires ==
    /\ liveGhosts > 0
    /\ liveGhosts' = liveGhosts - 1
    /\ UNCHANGED <<slotVars, live, wait, index, procVars, historyVars>>

\* The keys have a TTL, of the slots since the last one was taken, and of the
\* counter since its last increment. That one is as long as the longest wait, so
\* it outlives the queued requests.
KeysExpire ==
    /\ \/ /\ stale > 0 /\ slots = {} /\ ghosts = 0
          /\ stale' = 0
          /\ UNCHANGED wait
       \/ /\ wait > 0 /\ Queued = {}
          /\ wait' = 0
          /\ UNCHANGED stale
    /\ UNCHANGED <<slots, ghosts, liveVars, index, procVars, historyVars>>

-----------------------------------------------------------------------------
(* Cleanup *)

\* reconcileExpiredIndexCandidates: the load of an account whose score has passed
\* is read,
SweepRead ==
    /\ sweep = "idle"
    /\ index
    /\ sweep' = IF Loaded THEN "loaded" ELSE "empty"
    /\ stale' = 0
    /\ UNCHANGED <<slots, ghosts, liveVars, wait, index, todo, load, server, historyVars>>

\* Mutant: the account is always kept for another look.
SweepKeep ==
    /\ sweep # "idle"
    /\ index' = TRUE
    /\ sweep' = "idle"
    /\ UNCHANGED <<slotVars, liveVars, wait, todo, load, server, historyVars>>

\* and it is refreshed or removed.
SweepWrite ==
    /\ sweep # "idle"
    /\ index' = (sweep = "loaded")
    /\ sweep' = "idle"
    /\ UNCHANGED <<slotVars, liveVars, wait, todo, load, server, historyVars>>

\* CleanupStaleProcessSlots of an instance that starts. It has no request yet,
\* so every member of the set is another process's, alive or not.
CleanupSlots(i) ==
    /\ server[i] = "down"
    /\ IF ~index
       THEN server' = [server EXCEPT ![i] = "up"] /\ UNCHANGED <<slotVars, lost>>
       ELSE /\ server' = [server EXCEPT ![i] = "deleteWait"]
            /\ slots' = {} /\ ghosts' = 0 /\ stale' = 0
            /\ lost' = lost \cup slots
    /\ UNCHANGED <<liveVars, wait, index, todo, load, sweep, missed, faults>>

DeleteWait(i) ==
    /\ server[i] = "deleteWait"
    /\ server' = [server EXCEPT ![i] = "dropIndex"]
    /\ wait' = 0
    /\ missed' = missed + Cardinality(Queued)
    /\ UNCHANGED <<slotVars, liveVars, index, todo, load, sweep, lost, faults>>

\* Nothing was left when the script ran.
DropIndex(i) ==
    /\ server[i] = "dropIndex"
    /\ server' = [server EXCEPT ![i] = "up"]
    /\ index' = FALSE
    /\ UNCHANGED <<slotVars, liveVars, wait, todo, load, sweep, historyVars>>

\* The process stops with all of its requests.
Crash(i) ==
    LET gone == {r \in Requests : Home[r] = i /\ todo[r] # <<"start">>}
    IN  /\ server[i] = "up"
        /\ Fault
        /\ server' = [server EXCEPT ![i] = "down"]
        /\ ghosts' = ghosts + Cardinality(gone \cap slots)
        /\ slots' = slots \ gone
        /\ liveGhosts' = liveGhosts + Cardinality(gone \cap live)
        /\ live' = live \ gone
        /\ todo' = [r \in Requests |-> IF r \in gone THEN <<>> ELSE todo[r]]
        /\ load' = [r \in Requests |-> r \notin gone /\ load[r]]
        /\ UNCHANGED <<stale, wait, index, sweep, lost, missed>>

-----------------------------------------------------------------------------
\* What time does to what nobody owns any more
Expire == GhostExpires \/ LiveGhostExpires \/ KeysExpire

\* The steps of a request that do not depend on somebody else
Proceed(r) ==
    \/ Touch(r)
    \/ ReadLoad(r)
    \/ WriteIndex(r)
    \/ CountIn(r)
    \/ Retry(r)
    \/ CountOut(r)
    \/ Finish(r)
    \/ EndUpstream(r)
    \/ AcquireLiveLease(r)
    \/ CreateLiveCall(r)
    \/ RefreshLiveLease(r)
    \/ ReleaseLiveLease(r)

Next ==
    \/ \E r \in Requests :
          \/ Start(r)
          \/ Proceed(r)
          \/ RefreshFails(r)
          \/ EndLive(r)
          \/ Disconnect(r)
          \/ DialSideband(r)
          \/ LoseSideband(r)
          \/ ExpireOffline(r)
          \/ SlotExpires(r)
          \/ LiveExpires(r)
    \/ Expire
    \/ SweepRead
    \/ SweepWrite
    \/ \E i \in Instances : CleanupSlots(i) \/ DeleteWait(i) \/ DropIndex(i) \/ Crash(i)

Spec == Init /\ [][Next]_vars

\* A call returns, a wait, a request and an upstream call time out, the lease is
\* refreshed by a ticker while a sideband is up, the cleanup runs on another one,
\* TTLs run out. Sidebands may come and go for as long as the session lasts, which
\* is until ExpiresAt. A client need not go, and nothing makes a stopped instance
\* start.
Fairness ==
    /\ \A r \in Requests : WF_vars(Proceed(r))
    /\ SF_vars(\E r \in LiveRequests : ExpireOffline(r))
    /\ WF_vars(Expire)
    /\ WF_vars(SweepRead \/ SweepWrite)
    /\ \A i \in Instances : WF_vars(DeleteWait(i) \/ DropIndex(i))

FairSpec == Spec /\ Fairness

-----------------------------------------------------------------------------
\* The variables have the values the code can give them: no counter is negative.
TypeOK ==
    /\ slots \subseteq Requests /\ live \subseteq Requests
    /\ {ghosts, stale, liveGhosts, wait, missed} \subseteq Nat
    /\ index \in BOOLEAN
    /\ server \in [Instances -> {"down", "up", "deleteWait", "dropIndex"}]
    /\ \A r \in Requests : Len(todo[r]) <= 3

\* The account is used by more requests than its limit only to the extent that
\* users have lost their member or, their clients gone, have given it back: each
\* slot that aged or was cleared under its owner, and each upstream call that goes
\* on without its client, admits at most one request more, also through the extra
\* member that a live session may add to the slot it replaces.
OverAdmissionIsBounded ==
    Cardinality(Active) <= MaxConcurrency + Cardinality((lost \cup Detached) \cap Active)

\* The queue is longer than its limit only to the extent that requests in it were
\* not counted, because the increment failed or a starting instance deleted the
\* counter.
QueueIsBounded == Cardinality(Queued) <= MaxWait + missed

\* A live session that has lost its lease ends, at the next refresh while its
\* sideband is up, and at ExpiresAt at the latest while that comes and goes: the
\* sessions that go on have theirs.
SessionsHaveLeases ==
    <>[](\A r \in Requests : \A s \in Session : todo[r] = <<s>> => r \in live)

\* Nothing that a crash, a failed call or a race has left behind stays: no member,
\* no waiting count, no index entry.
LeftoversGo ==
    <>[]( /\ slots = {} /\ ghosts = 0 /\ stale = 0
          /\ live \subseteq Active /\ liveGhosts = 0
          /\ wait = 0
          /\ ~index )
=============================================================================
