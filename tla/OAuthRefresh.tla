---------------------------- MODULE OAuthRefresh ----------------------------
(***************************************************************************)
(* The refresh of one account's OAuth credentials                          *)
(* (service/oauth_refresh_api.go, service/token_refresh_service.go,        *)
(* repository/gemini_token_cache.go, repository/account_repo.go,           *)
(* service/admin_account.go): background workers and requests of several   *)
(* instances exchange a refresh token that the provider accepts only once, *)
(* under a process mutex and a Redis lock with a lease but no owner, while *)
(* an administrator edits, refreshes or reauthorises the account. A call   *)
(* to Redis, to the database or to the provider is one action. Credentials *)
(* are told apart by a generation number and by the grant they descend     *)
(* from; the cache of access tokens is left out. A request whose refresh   *)
(* fails takes the account out of service itself where the provider's code *)
(* does that: Grok's disables or cools it (service/grok_token_provider.go, *)
(* service/grok_credential_failure.go), Antigravity's cools it.            *)
(***************************************************************************)
EXTENDS Naturals, Sequences

CONSTANTS
    Workers,        \* the background refresh of each instance
    Requests,       \* requests that need an access token
    Instances,
    Home,           \* the instance of a worker or request
    NoOne,
    MaxAge,         \* bound: how often the stored token comes close to its expiry
    MaxEdits,       \* bound: operations of the administrator
    MaxFaults       \* bound: crashes, failing calls, leases that run out on their holder

Callers == Workers \cup Requests

ASSUME OAuthRefreshAssumption ==
    /\ Workers \cap Requests = {}
    /\ Home \in [Callers -> Instances]
    /\ NoOne \notin Callers
    /\ {MaxAge, MaxEdits, MaxFaults} \subseteq Nat

VARIABLES
    grok,           \* the account's platform has conditional updates
    row,            \* the accounts row: credentials, status, schedulable
    cooling,        \* temp_unschedulable_until, and which code has set it
    valid,          \* refresh tokens the provider accepts, by generation
    issued,         \* generations issued so far
    aged,           \* the youngest generation that is in the refresh window
    lock,           \* oauth:refresh_lock; Redis stores no holder, see Unlock
    local,          \* per instance: the holder of the process mutex
    todo,           \* per caller: the calls that are left
    used,           \* per caller: the credentials its attempt is made with
    hot,            \* per worker: temp_unschedulable_until was set when it read the account
    got,            \* per caller: the generation the provider has answered with
    admin,          \* the administrator's operation and the account it has read
    ages, edits, faults,
    excused         \* history: something has broken the once-only discipline

providerVars == <<valid, issued>>
accountVars == <<row, cooling>>
callerVars == <<todo, used, hot, got>>
boundVars == <<ages, edits, faults>>
vars == <<grok, accountVars, providerVars, aged, lock, local, callerVars, admin,
          boundVars, excused>>

First == [gen |-> 1, grant |-> 1]

Idle == [op |-> "idle", acc |-> [cred |-> First, active |-> TRUE, schedulable |-> TRUE],
         gen |-> 0]

Init ==
    /\ grok \in BOOLEAN
    /\ row = Idle.acc
    /\ cooling = "no"
    /\ valid = {1} /\ issued = 1
    /\ aged = 0
    /\ lock = NoOne
    /\ local = [i \in Instances |-> NoOne]
    /\ todo = [c \in Callers |-> IF c \in Requests THEN <<"ask">> ELSE <<>>]
    /\ used = [c \in Callers |-> First]
    /\ hot = [c \in Callers |-> FALSE]
    /\ got = [c \in Callers |-> 0]
    /\ admin = Idle
    /\ ages = 0 /\ edits = 0 /\ faults = 0
    /\ excused = FALSE

-----------------------------------------------------------------------------
At(c, call) == todo[c] # <<>> /\ Head(todo[c]) = call

Then(c, calls) == todo' = [todo EXCEPT ![c] = calls]

\* A caller is done with the account.
Leave(c) ==
    /\ Then(c, <<>>)
    /\ used' = [used EXCEPT ![c] = First]
    /\ hot' = [hot EXCEPT ![c] = FALSE]

\* Between the locks, the last call of todo says how they are given back.
Go(c, call) == Then(c, <<call, todo[c][2]>>)

\* RefreshIfNeeded returns, and the caller has still to see to its outcome.
Return(c, calls) == Then(c, <<todo[c][2]>> \o calls)

\* It returns an account: a request to Grok takes the access token from it.
Account(c) == IF grok /\ c \in Requests THEN <<"take">> ELSE <<>>

\* Whether a caller may refresh the account: a request to Grok wants it schedulable.
Usable(c) ==
    /\ row.active
    /\ grok /\ c \in Requests => row.schedulable /\ cooling = "no"

Fault == faults < MaxFaults /\ faults' = faults + 1

NeedsRefresh(cred) == cred.gen <= aged

\* The calls that are made with both locks held
Working(c) == \E call \in {"reread", "refresh", "recover", "persist"} : At(c, call)

\* Who has still to delete the lock
Holds(c) == \E n \in DOMAIN todo[c] : todo[c][n] = "unlock"

-----------------------------------------------------------------------------
(* Time and the provider *)

\* The stored access token comes into the refresh window.
Age ==
    /\ ages < MaxAge
    /\ ages' = ages + 1
    /\ ~NeedsRefresh(row.cred)
    /\ aged' = row.cred.gen
    /\ UNCHANGED <<grok, accountVars, providerVars, lock, local, callerVars, admin,
                   edits, faults, excused>>

\* The provider rotates the refresh token: it accepts each one once.
Rotate(gen) ==
    /\ issued' = issued + 1
    /\ valid' = (valid \ {gen}) \cup {issued + 1}

\* Mutant: the lock has no lease.
LockStays ==
    /\ FALSE
    /\ UNCHANGED vars

\* The lease of the lock. A worker's attempt ends before it
\* (clampRefreshAttemptToLockLease); a request's may be longer.
LockExpires ==
    /\ lock # NoOne
    /\ IF ~Holds(lock) THEN UNCHANGED <<faults, excused>>     \* left behind
       ELSE /\ lock \in Requests \/ ~Working(lock)
            /\ Fault
            /\ excused' = TRUE
    /\ lock' = NoOne
    /\ UNCHANGED <<grok, accountVars, providerVars, aged, local, callerVars, admin, ages, edits>>

CoolingEnds ==
    /\ cooling # "no"
    /\ cooling' = "no"
    /\ UNCHANGED <<grok, row, providerVars, aged, lock, local, callerVars, admin,
                   boundVars, excused>>

-----------------------------------------------------------------------------
(* RefreshIfNeeded *)

\* ListOAuthRefreshCandidatePage leaves out what another worker has given up for now.
List(w) ==
    /\ todo[w] = <<>>
    /\ row.active /\ row.schedulable /\ cooling # "exhausted"
    /\ NeedsRefresh(row.cred)
    /\ Then(w, <<"enter">>)
    /\ used' = [used EXCEPT ![w] = row.cred]
    /\ UNCHANGED <<grok, accountVars, providerVars, aged, lock, local, hot, got, admin,
                   boundVars, excused>>

\* A request meets a token that is about to expire.
Ask(q) ==
    /\ At(q, "ask")
    /\ row.active /\ row.schedulable
    /\ NeedsRefresh(row.cred)
    /\ Then(q, <<"enter">>)
    /\ used' = [used EXCEPT ![q] = row.cred]
    /\ UNCHANGED <<grok, accountVars, providerVars, aged, lock, local, hot, got, admin,
                   boundVars, excused>>

MutexFree(c) == local[Home[c]] = NoOne

\* The process mutex, then AcquireRefreshLock. An error of Redis lets the caller
\* go on without the lock.
Enter(c) ==
    /\ At(c, "enter")
    /\ MutexFree(c)
    /\ \/ /\ lock # NoOne
          /\ Leave(c)                               \* LockHeld
          /\ UNCHANGED <<lock, local, faults, excused>>
       \/ /\ lock = NoOne
          /\ lock' = c
          /\ local' = [local EXCEPT ![Home[c]] = c]
          /\ Then(c, <<"reread", "unlock">>)
          /\ UNCHANGED <<used, hot, faults, excused>>
       \/ /\ Fault
          /\ excused' = TRUE
          /\ local' = [local EXCEPT ![Home[c]] = c]
          /\ Then(c, <<"reread", "leave">>)
          /\ UNCHANGED <<lock, used, hot>>
    /\ UNCHANGED <<grok, accountVars, providerVars, aged, got, admin, ages, edits>>

\* The attempt's time is over before the mutex is free; a request to Grok also waits
\* for the token of whoever has the lock.
WaitTimesOut(c) ==
    /\ At(c, "enter")
    /\ \/ local[Home[c]] # NoOne
       \/ grok /\ c \in Requests /\ lock # NoOne
    /\ Fault
    /\ Then(c, <<"failed">>)
    /\ UNCHANGED <<grok, accountVars, providerVars, aged, lock, local, used, hot, got, admin,
                   ages, edits, excused>>

\* Mutant: the account the caller came with is good enough.
TrustCaller(c) ==
    /\ At(c, "reread")
    /\ Go(c, "refresh")
    /\ UNCHANGED <<grok, accountVars, providerVars, aged, lock, local, used, hot, got, admin,
                   boundVars, excused>>

\* The account is read again and may not need a refresh any more. When it cannot
\* be read a worker's cycle ends, and a request leaves the account alone unless it
\* is Antigravity's.
Reread(c) ==
    /\ At(c, "reread")
    /\ \/ /\ used' = [used EXCEPT ![c] = row.cred]
          /\ hot' = [hot EXCEPT ![c] = c \in Workers /\ cooling # "no"]
          /\ \/ ~Usable(c) /\ Return(c, <<>>)
             \/ Usable(c) /\ NeedsRefresh(row.cred) /\ Go(c, "refresh")
             \/ Usable(c) /\ ~NeedsRefresh(row.cred) /\ Return(c, Account(c))
          /\ UNCHANGED faults
       \/ /\ Fault
          /\ Return(c, IF grok \/ c \in Workers THEN <<>> ELSE <<"failed">>)
          /\ UNCHANGED <<used, hot>>
    /\ UNCHANGED <<grok, accountVars, providerVars, aged, lock, local, got, admin,
                   ages, edits, excused>>

\* executor.Refresh. The call may fail before the provider has done anything, or
\* its answer may be lost or late; a late one is not stored.
Refresh(c) ==
    /\ At(c, "refresh")
    /\ \/ /\ used[c].gen \in valid
          /\ Rotate(used[c].gen)
          /\ \/ /\ got' = [got EXCEPT ![c] = issued + 1]
                /\ Go(c, "persist")
                /\ UNCHANGED <<faults, excused>>
             \/ /\ Fault
                /\ excused' = TRUE
                /\ Return(c, <<"failed">>)
                /\ UNCHANGED got
       \/ /\ used[c].gen \notin valid               \* invalid_grant
          /\ Go(c, "recover")
          /\ UNCHANGED <<providerVars, got, faults, excused>>
       \/ /\ Fault
          /\ Return(c, <<"failed">>)
          /\ UNCHANGED <<providerVars, got, excused>>
    /\ UNCHANGED <<grok, accountVars, aged, lock, local, used, hot, admin, ages, edits>>

\* tryRecoverFromRefreshRace: another refresh token in the database means that
\* somebody else was faster. It is not known when the account cannot be read.
Recover(c) ==
    /\ At(c, "recover")
    /\ \/ /\ Return(c, IF row.cred.gen # used[c].gen THEN Account(c) ELSE <<"reject">>)
          /\ UNCHANGED faults
       \/ /\ Fault
          /\ Return(c, <<"reject">>)
    /\ UNCHANGED <<grok, accountVars, providerVars, aged, lock, local, used, hot, got, admin,
                   ages, edits, excused>>

\* Mutant: the credentials are not compared.
UnchangedAnyway(cred) == TRUE

\* The comparison of the conditional updates, for Grok only
Unchanged(cred) == grok => row.cred = cred

\* persistAccountCredentials, UpdateGrokOAuthCredentialsIfUnchanged. A worker goes
\* on with what it has stored, and for Grok with the row as it is then.
Persist(c) ==
    /\ At(c, "persist")
    /\ \/ /\ Unchanged(used[c])
          /\ row' = [row EXCEPT !.cred = [gen |-> got[c], grant |-> used[c].grant]]
          /\ hot' = [hot EXCEPT ![c] = IF grok /\ c \in Workers THEN cooling # "no" ELSE @]
          /\ Return(c, IF c \in Workers THEN <<"renewed">> ELSE Account(c))
          /\ UNCHANGED <<faults, excused>>
       \/ /\ ~Unchanged(used[c])
          /\ Return(c, Account(c))
          /\ UNCHANGED <<row, hot, faults, excused>>
       \/ /\ Fault
          /\ excused' = TRUE
          /\ Return(c, IF grok THEN <<>> ELSE <<"failed">>)
          /\ UNCHANGED <<row, hot>>
    /\ got' = [got EXCEPT ![c] = 0]
    /\ UNCHANGED <<grok, cooling, providerVars, aged, lock, local, used, admin, ages, edits>>

\* releaseRefreshLock deletes the key, whoever has set it; a failure leaves it to
\* its lease. A caller without the lock gives back the mutex only.
Unlock(c) ==
    /\ At(c, "unlock") \/ At(c, "leave")
    /\ local' = [local EXCEPT ![Home[c]] = NoOne]
    /\ \/ /\ lock' = IF At(c, "unlock") THEN NoOne ELSE lock
          /\ UNCHANGED faults
       \/ /\ At(c, "unlock") /\ Fault
          /\ UNCHANGED lock
    /\ IF Tail(todo[c]) = <<>> THEN Leave(c)
       ELSE Then(c, Tail(todo[c])) /\ UNCHANGED <<used, hot>>
    /\ UNCHANGED <<grok, accountVars, providerVars, aged, got, admin, ages, edits, excused>>

-----------------------------------------------------------------------------
(* refreshWithRetry: what a worker does when RefreshIfNeeded has returned *)

\* Out of service, until an administrator comes
Disabled == [row EXCEPT !.active = FALSE, !.schedulable = FALSE]

\* invalid_grant: SetError, SetGrokOAuthRefreshErrorIfCredentialsUnchanged
Reject(w) ==
    /\ w \in Workers /\ At(w, "reject")
    /\ \/ /\ row' = IF Unchanged(used[w]) /\ (grok => row.active) THEN Disabled ELSE row
          /\ UNCHANGED faults
       \/ /\ Fault
          /\ UNCHANGED row
    /\ Leave(w)
    /\ UNCHANGED <<grok, cooling, providerVars, aged, lock, local, got, admin,
                   ages, edits, excused>>

\* Another attempt, after the backoff
Retry(w) ==
    /\ w \in Workers /\ At(w, "failed")
    /\ Then(w, <<"enter">>)
    /\ UNCHANGED <<grok, accountVars, providerVars, aged, lock, local, used, hot, got, admin,
                   boundVars, excused>>

\* SetTempUnschedulable, and the conditional one for Grok; it may fail, and after a
\* timeout Grok's compares what the worker came with.
Exhaust(w) ==
    /\ w \in Workers /\ At(w, "failed")
    /\ \/ /\ Unchanged(used[w]) /\ (grok => row.active)
          /\ cooling' = "exhausted"
       \/ UNCHANGED cooling
    /\ Leave(w)
    /\ UNCHANGED <<grok, row, providerVars, aged, lock, local, got, admin,
                   boundVars, excused>>

\* postRefreshActions: a cooldown the worker has seen ends, whoever has set it since.
PostRefresh(w) ==
    /\ At(w, "renewed")
    /\ \/ /\ cooling' = IF hot[w] THEN "no" ELSE cooling
          /\ UNCHANGED faults
       \/ hot[w] /\ Fault /\ UNCHANGED cooling
    /\ Leave(w)
    /\ UNCHANGED <<grok, row, providerVars, aged, lock, local, got, admin,
                   ages, edits, excused>>

-----------------------------------------------------------------------------
(* What a request does when RefreshIfNeeded has returned *)

\* GrokTokenProvider.GetAccessToken: the account it has got, or a later version of
\* it, may hold an access token that has run out.
TakeToken(q) ==
    /\ At(q, "take")
    /\ \/ /\ Usable(q) /\ NeedsRefresh(row.cred)
          /\ used' = [used EXCEPT ![q] = row.cred]
          /\ Then(q, <<"expired">>)
          /\ UNCHANGED hot
       \/ Leave(q)
    /\ UNCHANGED <<grok, accountVars, providerVars, aged, lock, local, got, admin,
                   boundVars, excused>>

\* Mutant: the account is disabled whatever it holds by now.
MatchesAnyway(q) == Usable(q)

\* The comparison of SetGrokCredentialErrorIfMatch and
\* SetGrokCredentialTempUnschedulableIfMatch
Matches(q) == Usable(q) /\ row.cred = used[q]

\* applyGrokCredentialAccountFailure: a rejected refresh token and an access token
\* that has run out are lasting failures,
Disable(q) ==
    /\ grok /\ q \in Requests
    /\ At(q, "reject") \/ At(q, "expired")
    /\ Matches(q)
    /\ row' = Disabled
    /\ Leave(q)
    /\ UNCHANGED <<grok, cooling, providerVars, aged, lock, local, got, admin,
                   boundVars, excused>>

\* the others pass. Antigravity's markTempUnschedulable makes no difference and does
\* not compare.
Cool(q) ==
    /\ q \in Requests
    /\ \/ grok /\ At(q, "failed") /\ Matches(q)
       \/ ~grok /\ (At(q, "failed") \/ At(q, "reject"))
    /\ cooling' = "request"
    /\ Leave(q)
    /\ UNCHANGED <<grok, row, providerVars, aged, lock, local, got, admin,
                   boundVars, excused>>

\* The account has changed, the client has gone, the failure is the provider's, the
\* update fails, or the platform leaves accounts alone.
GiveUp(q) ==
    /\ q \in Requests
    /\ \E outcome \in {"failed", "reject", "expired"} : At(q, outcome)
    /\ Leave(q)
    /\ UNCHANGED <<grok, accountVars, providerVars, aged, lock, local, got, admin,
                   boundVars, excused>>

\* The process of i stops.
Crash(i) ==
    LET gone == {c \in Callers : Home[c] = i /\ todo[c] \notin {<<>>, <<"ask">>}}
    IN  /\ gone # {}
        /\ Fault
        /\ todo' = [c \in Callers |-> IF c \in gone THEN <<>> ELSE todo[c]]
        /\ got' = [c \in Callers |-> IF c \in gone THEN 0 ELSE got[c]]
        /\ local' = [local EXCEPT ![i] = NoOne]
        /\ excused' = (excused \/ \E c \in gone : At(c, "persist"))
        /\ used' = [c \in Callers |-> IF c \in gone THEN First ELSE used[c]]
        /\ hot' = [c \in Callers |-> c \notin gone /\ hot[c]]
        /\ UNCHANGED <<grok, accountVars, providerVars, aged, lock, admin, ages, edits>>

-----------------------------------------------------------------------------
(* The administrator, who takes no lock. UpdateAccount writes back the whole     *)
(* account that it has read.                                                     *)

Begin(op) ==
    /\ admin = Idle
    /\ edits < MaxEdits
    /\ edits' = edits + 1
    /\ admin' = [op |-> op, acc |-> row, gen |-> 0]

\* An edit of other fields, or ApplyOAuthCredentials with a new grant, as far as
\* the read
EditRead ==
    /\ \E op \in {"edit", "reauthorise"} : Begin(op)
    /\ UNCHANGED <<grok, accountVars, providerVars, aged, lock, local, callerVars,
                   ages, faults, excused>>

\* refreshSingleAccount, as far as the provider's answer
ManualRefresh ==
    /\ row.cred.gen \in valid
    /\ Rotate(row.cred.gen)
    /\ edits < MaxEdits
    /\ edits' = edits + 1
    /\ admin = Idle
    /\ admin' = [op |-> "refresh", acc |-> row, gen |-> issued + 1]
    /\ excused' = TRUE
    /\ UNCHANGED <<grok, accountVars, aged, lock, local, callerVars, ages, faults>>

\* UpdateAccount reads the account again for its other fields.
ManualRead ==
    /\ admin.op = "refresh"
    /\ admin' = [op |-> "edit", gen |-> 0,
                 acc |-> [row EXCEPT !.cred = [admin.acc.cred EXCEPT !.gen = admin.gen]]]
    /\ UNCHANGED <<grok, accountVars, providerVars, aged, lock, local, callerVars, boundVars, excused>>

\* updateLockedAccount: what was read is written, the credentials too, and an
\* account in error is not schedulable.
Stored(acc) == [acc EXCEPT !.schedulable = @ /\ acc.active]

EditWrite ==
    /\ admin.op = "edit"
    /\ row' = Stored(admin.acc)
    /\ excused' = (excused \/ row.cred # admin.acc.cred)
    /\ admin' = Idle
    /\ UNCHANGED <<grok, cooling, providerVars, aged, lock, local, callerVars, boundVars>>

\* The new grant is stored,
ReauthoriseWrite ==
    /\ admin.op = "reauthorise"
    /\ issued' = issued + 1
    /\ valid' = valid \cup {issued + 1}
    /\ row' = [Stored(admin.acc) EXCEPT !.cred = [gen |-> issued + 1, grant |-> @.grant + 1]]
    /\ admin' = [Idle EXCEPT !.op = "clear"]
    /\ UNCHANGED <<grok, cooling, aged, lock, local, callerVars, boundVars, excused>>

\* and ClearAccountError makes the account active, though not schedulable, again.
ClearAccountError ==
    /\ admin.op = "clear"
    /\ row' = [row EXCEPT !.active = TRUE]
    /\ cooling' = "no"
    /\ admin' = Idle
    /\ UNCHANGED <<grok, providerVars, aged, lock, local, callerVars, boundVars, excused>>

\* SetSchedulable
Enable ==
    /\ admin = Idle
    /\ ~row.schedulable
    /\ row' = [row EXCEPT !.schedulable = TRUE]
    /\ UNCHANGED <<grok, cooling, providerVars, aged, lock, local, callerVars, admin,
                   boundVars, excused>>

-----------------------------------------------------------------------------
Attempt(c) ==
    \/ Enter(c)
    \/ WaitTimesOut(c)
    \/ Reread(c)
    \/ Refresh(c)
    \/ Recover(c)
    \/ Persist(c)
    \/ Unlock(c)
    \/ Reject(c)
    \/ Retry(c)
    \/ Exhaust(c)
    \/ PostRefresh(c)
    \/ TakeToken(c)
    \/ Disable(c)
    \/ Cool(c)
    \/ GiveUp(c)

Finish == EditWrite \/ ManualRead \/ ReauthoriseWrite \/ ClearAccountError

Next ==
    \/ Age
    \/ LockExpires
    \/ CoolingEnds
    \/ \E w \in Workers : List(w)
    \/ \E q \in Requests : Ask(q)
    \/ \E c \in Callers : Attempt(c)
    \/ \E i \in Instances : Crash(i)
    \/ EditRead
    \/ ManualRefresh
    \/ Finish
    \/ Enable

Spec == Init /\ [][Next]_vars

\* Calls return or time out, leases and cooldowns run out, and the refresh loop of
\* an instance looks for candidates again and again.
Fairness ==
    /\ \A c \in Callers : WF_vars(Attempt(c))
    /\ \A w \in Workers : WF_vars(List(w))
    /\ WF_vars(Finish)
    /\ WF_vars(LockExpires)
    /\ WF_vars(CoolingEnds)

FairSpec == Spec /\ Fairness

-----------------------------------------------------------------------------
\* The variables have the values the code can give them, and whoever works on the
\* account has its instance's mutex.
TypeOK ==
    /\ row.cred.gen \in 1 .. issued
    /\ valid \subseteq 1 .. issued
    /\ aged < issued + 1
    /\ lock \in Callers \cup {NoOne}
    /\ local \in [Instances -> Callers \cup {NoOne}]
    /\ \A c \in Callers : Len(todo[c]) <= 3 /\ (Working(c) => local[Home[c]] = c)

\* The callers never present a refresh token that the provider has already
\* rotated, unless the lock was missing or ran out, an answer of the provider was
\* not stored, or the administrator interfered: mutex, lock and the second read
\* together keep the workers and requests of all instances apart.
PresentedOnce == \A c \in Callers : At(c, "recover") => excused

\* The conditional updates keep a new grant: no refresh that began with the old
\* one replaces it.
GrantSurvives == [][grok => row'.cred.grant >= row.cred.grant]_vars

\* A refresh or a request disables an account of Grok only for what it holds at that
\* moment: a refresh token the provider rejects, or, a request alone, an access token
\* that has run out. One that was reauthorised or refreshed in the meantime stays.
DisabledForItsToken ==
    [][grok /\ row.active /\ ~row'.active =>
         \/ row.cred.gen \notin valid
         \/ NeedsRefresh(row.cred) /\ \E q \in Requests : At(q, "expired")]_vars

\* An account in service does not keep a token that is about to expire: it is
\* renewed, or the account is taken out of service. A crash, a lock left behind or
\* a failed attempt only delays that.
TokenIsRenewed ==
    <>[](row.active /\ row.schedulable => ~NeedsRefresh(row.cred))
=============================================================================
