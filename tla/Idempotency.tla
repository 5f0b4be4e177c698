---------------------------- MODULE Idempotency ----------------------------
(***************************************************************************)
(* IdempotencyCoordinator.Execute (backend/internal/service/idempotency.go)*)
(* run by concurrent requests that carry one Idempotency-Key, with the     *)
(* periodic removal of expired records.                                    *)
(*                                                                         *)
(* Every statement is one action, so requests interleave between any two.  *)
(* A failing statement, a cancelled request and a dying process all end    *)
(* the call where it stands (Abandon); a statement whose effect took place *)
(* although it reported an error is the effect followed by Abandon.        *)
(***************************************************************************)
EXTENDS IdempotencyStore

CONSTANTS
    Calls,      \* concurrently running requests
    Backoff,    \* FailedRetryBackoff
    MaxStall    \* bound: the age at which a call claims the row at the latest

ASSUME CallsAssumption ==
    /\ None \notin Calls
    /\ Backoff \in Nat
    /\ MaxStall \in Nat
    /\ MaxStall <= MaxAge

VARIABLES
    pc,         \* per call: its next statement
    age,        \* per call: time since it read the clock
    print,      \* per call: the fingerprint of its request
    held,       \* per call: the id of the row it read or claimed
    from,       \* per call: existing.Status as it read it
    effects,    \* history: executions that succeeded before a record expired
    lapsed      \* history: some record has expired

callVars == <<pc, age, print, held, from>>
vars == <<row, callVars, effects, lapsed>>

Before == {"create", "get", "reclaim", "latest", "retry"}
Owning == {"execute", "markSucceeded", "markFailed"}

\* The row, the calls and the histories have the values the code can give them.
TypeOK ==
    /\ row \in Rows
    /\ pc \in [Calls -> {"idle"} \cup Before \cup Owning]
    /\ age \in [Calls -> 0..MaxAge]
    /\ print \in [Calls -> Prints \cup {None}]
    /\ held \in [Calls -> Ids \cup {None}]
    /\ from \in [Calls -> Statuses]
    /\ effects \in Nat
    /\ lapsed \in BOOLEAN

Init ==
    /\ row = NoRow
    /\ pc = [w \in Calls |-> "idle"]
    /\ age = [w \in Calls |-> 0]
    /\ print = [w \in Calls |-> None]
    /\ held = [w \in Calls |-> None]
    /\ from = [w \in Calls |-> "none"]
    /\ effects = 0
    /\ lapsed = FALSE

Goto(w, step) == pc' = [pc EXCEPT ![w] = step]

\* The row becomes r; a row that has nothing left of its TTL has expired.
SetRow(r) ==
    /\ row' = r
    /\ lapsed' = (lapsed \/ (r.status # "none" /\ r.expires <= 0))

KeepRow == UNCHANGED <<row, lapsed>>

\* The call ends.
Return(w) ==
    /\ Goto(w, "idle")
    /\ age' = [age EXCEPT ![w] = 0]
    /\ print' = [print EXCEPT ![w] = None]
    /\ held' = [held EXCEPT ![w] = None]
    /\ from' = [from EXCEPT ![w] = "none"]

\* The call remembers the row it has read and goes on to step.
Remember(w, step) ==
    /\ Goto(w, step)
    /\ held' = [held EXCEPT ![w] = row.id]
    /\ from' = [from EXCEPT ![w] = row.status]
    /\ UNCHANGED <<age, print>>

-----------------------------------------------------------------------------
\* A request with a valid key arrives; the clock is read here.
BeginExecute(w) ==
    /\ pc[w] = "idle"
    /\ \E p \in Prints : print' = [print EXCEPT ![w] = p]
    /\ Goto(w, "create")
    /\ KeepRow
    /\ UNCHANGED <<age, held, from, effects>>

\* INSERT ... ON CONFLICT DO NOTHING.
CreateProcessing(w) ==
    /\ pc[w] = "create"
    /\ \/ /\ ~RowExists
          /\ \E i \in Ids :
                /\ \A v \in Calls : held[v] # i
                /\ SetRow(Created(i, print[w], age[w]))
                /\ held' = [held EXCEPT ![w] = i]
          /\ Goto(w, "execute")
       \/ RowExists /\ Goto(w, "get") /\ KeepRow /\ UNCHANGED held
    /\ UNCHANGED <<age, print, from, effects>>

\* The row had expired when the call started.
ExpiredFor(w) == row.expires <= -age[w]

\* The row was locked when the call started.
LockedFor(w) == row.lock > -age[w]

\* Mutant: fingerprints are not compared.
AnyRow(w) == RowExists

\* The row found is for the same request.
SameRequest(w) == RowExists /\ row.print = print[w]

\* GetByScopeAndKeyHash, and what the call does with the row it finds.  A row
\* read again after a lost reclaim is not tested for expiry.
GetExisting(w) ==
    /\ pc[w] \in {"get", "latest"}
    /\ LET mine == SameRequest(w)
           stale == pc[w] = "get" /\ ExpiredFor(w)
           failed == row.status = "failed_retryable"
       IN  \/ mine /\ stale /\ Remember(w, "reclaim")
           \/ mine /\ ~stale /\ failed /\ ~LockedFor(w) /\ Remember(w, "retry")
           \/ ~mine /\ Return(w)                          \* conflict, or gone
           \/ mine /\ ~stale /\ (~failed \/ LockedFor(w)) /\ Return(w)
                                           \* replayed, in progress or backoff
    /\ KeepRow
    /\ UNCHANGED effects

\* TryReclaim of an expired row or of a failed one.
TryReclaim(w) ==
    /\ pc[w] \in {"reclaim", "retry"}
    /\ \/ /\ Reclaimable(held[w], from[w], age[w])
          /\ SetRow(Reclaimed(age[w]))
          /\ Goto(w, "execute")
          /\ UNCHANGED <<age, print, held, from>>
       \/ /\ ~Reclaimable(held[w], from[w], age[w])
          /\ KeepRow
          /\ \/ /\ pc[w] = "reclaim"
                /\ Goto(w, "latest")
                /\ held' = [held EXCEPT ![w] = None]
                /\ from' = [from EXCEPT ![w] = "none"]
                /\ UNCHANGED <<age, print>>
             \/ pc[w] = "retry" /\ Return(w)
    /\ UNCHANGED effects

\* The protected operation succeeds or fails.
Execute(w) ==
    /\ pc[w] = "execute"
    /\ \/ /\ Goto(w, "markSucceeded")
          /\ effects' = IF lapsed THEN effects ELSE effects + 1
       \/ Goto(w, "markFailed") /\ UNCHANGED effects
    /\ KeepRow
    /\ UNCHANGED <<age, print, held, from>>

\* MarkSucceeded stores the response (its redaction and truncation are left
\* out) and the caller is told of the success.
MarkSucceeded(w) ==
    /\ pc[w] = "markSucceeded"
    /\ SetRow(Succeeded(held[w], print[w], TTL - age[w]))
    /\ Return(w)
    /\ UNCHANGED effects

MarkFailedRetryable(w) ==
    /\ pc[w] = "markFailed"
    /\ SetRow(FailedRetryable(held[w], Backoff, TTL - age[w]))
    /\ Return(w)
    /\ UNCHANGED effects

\* A statement fails, the request is cancelled, the response cannot be
\* encoded, or the process dies.
Abandon(w) ==
    /\ pc[w] # "idle"
    /\ Return(w)
    /\ KeepRow
    /\ UNCHANGED effects

\* IdempotencyCleanupService.cleanupOnce.
DeleteExpired ==
    /\ Deletable
    /\ SetRow(NoRow)
    /\ UNCHANGED <<callVars, effects>>

\* Time passes.  No call waits longer than MaxStall for its claim, and none
\* takes longer than MaxAge.
Tick ==
    /\ \A w \in Calls : pc[w] \in Before => age[w] < MaxStall
    /\ \A w \in Calls : pc[w] \in Owning => age[w] < MaxAge
    /\ age' = [w \in Calls |-> IF pc[w] = "idle" THEN 0 ELSE age[w] + 1]
    /\ SetRow(RowLater)
    /\ UNCHANGED <<pc, print, held, from, effects>>

-----------------------------------------------------------------------------
CallStep(w) ==
    \/ CreateProcessing(w) \/ GetExisting(w) \/ TryReclaim(w)
    \/ Execute(w) \/ MarkSucceeded(w) \/ MarkFailedRetryable(w)

Next ==
    \/ DeleteExpired \/ Tick
    \/ \E w \in Calls : BeginExecute(w) \/ CallStep(w) \/ Abandon(w)

Spec == Init /\ [][Next]_vars

\* Statements are answered, time passes and the cleanup recurs.  Nothing is
\* assumed of clients: no request need ever come again.
FairSpec ==
    /\ Spec
    /\ \A w \in Calls : WF_vars(CallStep(w))
    /\ WF_vars(Tick)
    /\ WF_vars(DeleteExpired)

-----------------------------------------------------------------------------
(* Properties.                                                             *)

\* Until the key's record expires the protected operation succeeds at most
\* once, whatever is retried, overlaps, fails or dies.
OneEffectUntilExpiry == ~lapsed => effects <= 1

\* At most one call is between its claim and its mark, expired and reclaimed
\* records included, if claims are made within the lock time and calls end
\* within the TTL.
ExclusiveExecution ==
    \A v, w \in Calls : pc[v] \in Owning /\ pc[w] \in Owning => v = w

\* A stored response answers the request the row is for: a late mark never
\* puts one request's response into the record of another.
ResponseIsOwn == row.response # None => row.response = row.print

\* A record whose owner died is eventually released, by a reclaim or by the
\* cleanup.
Orphaned == row.status = "processing" /\ \A w \in Calls : pc[w] \notin Owning
OrphanIsReleased == Orphaned ~> ~Orphaned
=============================================================================
