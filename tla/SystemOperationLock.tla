------------------------ MODULE SystemOperationLock ------------------------
(***************************************************************************)
(* SystemOperationLockService: updates, rollbacks and restarts exclude     *)
(* each other through one row of idempotency_records, which the holder     *)
(* renews in the background                                                *)
(* (backend/internal/service/system_operation_lock_service.go).            *)
(*                                                                         *)
(* A fingerprint is an operation id here.  A failing statement and a dying *)
(* process end the call (Abandon) and its renewal with it; an operation    *)
(* does not end with its client.  A renewal that fails is tried again at   *)
(* the next interval, which the gap between renewals allows for.  An       *)
(* operation may run much longer than the lock time: fifteen minutes       *)
(* against thirty seconds.                                                 *)
(***************************************************************************)
EXTENDS IdempotencyStore

CONSTANTS
    Calls,      \* concurrently running administrators' requests
    MaxStall,   \* bound: the age at which a call claims the row at the latest
    MaxGap      \* bound: the time between two renewals that reach the store

ASSUME LockAssumption ==
    /\ MaxStall \in Nat
    /\ MaxStall <= MaxAge
    /\ MaxGap \in Nat

VARIABLES
    pc,         \* per call: its next statement; "running" is the operation
    age,        \* per call: time since it read the clock
    print,      \* per call: its operation id
    held,       \* per call: lock.recordID, or the id of the row it read
    from,       \* per call: existing.Status as it read it
    renewing,   \* per call: its renewLoop is alive
    gap,        \* per call: time since the claim or the last renewal
    outrun      \* history: since an operation last ran alone, the lock of one that
                \* took the row over has run out under it

vars == <<row, pc, age, print, held, from, renewing, gap, outrun>>

Before == {"create", "get", "reclaim"}

\* The row and the calls have the values the code can give them.
TypeOK ==
    /\ row \in Rows
    /\ pc \in [Calls -> {"idle", "running"} \cup Before]
    /\ age \in [Calls -> 0..MaxAge]
    /\ print \in [Calls -> Prints \cup {None}]
    /\ held \in [Calls -> Ids \cup {None}]
    /\ from \in [Calls -> Statuses]
    /\ renewing \in [Calls -> BOOLEAN]
    /\ gap \in [Calls -> 0..MaxAge]
    /\ outrun \in BOOLEAN

Init ==
    /\ row = NoRow
    /\ pc = [w \in Calls |-> "idle"]
    /\ age = [w \in Calls |-> 0]
    /\ print = [w \in Calls |-> None]
    /\ held = [w \in Calls |-> None]
    /\ from = [w \in Calls |-> "none"]
    /\ renewing = [w \in Calls |-> FALSE]
    /\ gap = [w \in Calls |-> 0]
    /\ outrun = FALSE

Goto(w, step) == pc' = [pc EXCEPT ![w] = step]

Running == {w \in Calls : pc[w] = "running"}

\* The operation runs on a row that it created, which carries its operation id;
\* TryReclaim leaves the operation id of a row as it is.
OwnsRow(w) == w \in Running /\ from[w] = "none"

\* The call ends, and its renewal.
Return(w) ==
    /\ Goto(w, "idle")
    /\ age' = [age EXCEPT ![w] = 0]
    /\ print' = [print EXCEPT ![w] = None]
    /\ held' = [held EXCEPT ![w] = None]
    /\ from' = [from EXCEPT ![w] = "none"]
    /\ renewing' = [renewing EXCEPT ![w] = FALSE]
    /\ gap' = [gap EXCEPT ![w] = 0]
    /\ outrun' = (outrun /\ ~Running \subseteq {w})

\* The row with this id is claimed; go renewLoop.
StartOperation(w, i) ==
    /\ Goto(w, "running")
    /\ held' = [held EXCEPT ![w] = i]
    /\ renewing' = [renewing EXCEPT ![w] = TRUE]
    /\ UNCHANGED <<age, print, from, gap, outrun>>

-----------------------------------------------------------------------------
\* Two requests never share an operation id: a repeated one is stopped by the
\* coordinator that wraps the handler.
BeginAcquire(w) ==
    /\ pc[w] = "idle"
    /\ \E p \in Prints : /\ \A v \in Calls : print[v] # p
                         /\ print' = [print EXCEPT ![w] = p]
    /\ Goto(w, "create")
    /\ UNCHANGED <<row, age, held, from, renewing, gap, outrun>>

CreateProcessing(w) ==
    /\ pc[w] = "create"
    /\ \/ /\ ~RowExists
          /\ \E i \in Ids : /\ \A v \in Calls : held[v] # i
                            /\ row' = Created(i, print[w], age[w])
                            /\ StartOperation(w, i)
       \/ /\ RowExists
          /\ Goto(w, "get")
          /\ UNCHANGED <<row, age, print, held, from, renewing, gap, outrun>>

\* The operation lock is held by somebody as of the call's start.
BusyFor(w) == row.status = "processing" /\ row.lock > -age[w]

GetExisting(w) ==
    /\ pc[w] = "get"
    /\ \/ (~RowExists \/ BusyFor(w)) /\ Return(w)
       \/ /\ RowExists /\ ~BusyFor(w)
          /\ Goto(w, "reclaim")
          /\ held' = [held EXCEPT ![w] = row.id]
          /\ from' = [from EXCEPT ![w] = row.status]
          /\ UNCHANGED <<age, print, renewing, gap, outrun>>
    /\ UNCHANGED row

TryReclaim(w) ==
    /\ pc[w] = "reclaim"
    /\ \/ /\ Reclaimable(held[w], from[w], age[w])
          /\ row' = Reclaimed(age[w])
          /\ StartOperation(w, held[w])
       \/ /\ ~Reclaimable(held[w], from[w], age[w])
          /\ Return(w)
          /\ UNCHANGED row

\* One turn of renewLoop: the lock is extended, or the loop stops.
Renew(w) ==
    /\ renewing[w]
    /\ \/ /\ Extendable(held[w], print[w])
          /\ row' = Extended
          /\ gap' = [gap EXCEPT ![w] = 0]
          /\ UNCHANGED renewing
       \/ /\ ~Extendable(held[w], print[w])
          /\ renewing' = [renewing EXCEPT ![w] = FALSE]
          /\ gap' = [gap EXCEPT ![w] = 0]
          /\ UNCHANGED row
    /\ UNCHANGED <<pc, age, print, held, from, outrun>>

\* The operation ends: Release stops the renewal and marks the row, whoever
\* has it by now.
Release(w) ==
    /\ pc[w] = "running"
    /\ \/ row' = Succeeded(held[w], print[w], TTL)
       \/ row' = FailedRetryable(held[w], 0, TTL)
    /\ Return(w)

Abandon(w) ==
    /\ pc[w] # "idle"
    /\ Return(w)
    /\ UNCHANGED row

\* IdempotencyCleanupService.cleanupOnce.
DeleteExpired ==
    /\ Deletable
    /\ row' = NoRow
    /\ UNCHANGED <<pc, age, print, held, from, renewing, gap, outrun>>

\* Time passes, within the bounds.
Tick ==
    /\ \A w \in Calls : pc[w] \in Before => age[w] < MaxStall
    /\ \A w \in Calls : pc[w] = "running" => age[w] < MaxAge
    /\ \A w \in Calls : renewing[w] => gap[w] < MaxGap
    /\ age' = [w \in Calls |-> IF pc[w] = "idle" THEN 0 ELSE age[w] + 1]
    /\ gap' = [w \in Calls |-> IF renewing[w] THEN gap[w] + 1 ELSE 0]
    /\ row' = RowLater
    /\ outrun' = (outrun \/ \E w \in Running : ~OwnsRow(w) /\ row'.lock <= 0)
    /\ UNCHANGED <<pc, print, held, from, renewing>>

-----------------------------------------------------------------------------
Next ==
    \/ DeleteExpired \/ Tick
    \/ \E w \in Calls :
          \/ BeginAcquire(w) \/ CreateProcessing(w) \/ GetExisting(w) \/ TryReclaim(w)
          \/ Renew(w) \/ Release(w) \/ Abandon(w)

Spec == Init /\ [][Next]_vars

-----------------------------------------------------------------------------
(* Properties.                                                             *)

\* An operation that created the lock's row is alone however long it runs, for
\* its renewals come in time; operations that took the row over, and whose
\* renewals are therefore refused, are alone until one of them outlives its lock.
OneOperationAtATime ==
    \A v, w \in Running : v # w => outrun /\ ~OwnsRow(v) /\ ~OwnsRow(w)
=============================================================================
