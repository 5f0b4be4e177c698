-------------------------- MODULE IdempotencyStore --------------------------
(***************************************************************************)
(* One row of idempotency_records, the one of a given scope and key, and   *)
(* the statements of backend/internal/repository/idempotency_repo.go that  *)
(* read or write it.                                                       *)
(*                                                                         *)
(* The row's two times are kept as what is left of them: lock is           *)
(* locked_until - now and expires is expires_at - now.  Both stop counting *)
(* at Past, so that runs need no final instant.  A call compares them with *)
(* the time at which it started, which is its age ago; a call is never     *)
(* older than MaxAge, so whatever has reached Past is over for every call. *)
(* A locked_until of NULL means "not locked" wherever it is tested: Past.  *)
(***************************************************************************)
EXTENDS Integers

CONSTANTS
    Ids,        \* row ids; one that no running call remembers is a new one
    Prints,     \* request fingerprints (operation ids, for the system lock)
    None,       \* no id, no fingerprint, no response
    TTL,        \* DefaultTTL or SystemOperationTTL
    LockTime,   \* ProcessingTimeout: how long a claim keeps the row locked
    MaxAge      \* bound: the age of a call

ASSUME StoreAssumption ==
    /\ None \notin Ids
    /\ None \notin Prints
    /\ TTL \in Nat \ {0}
    /\ LockTime \in Nat \ {0}
    /\ MaxAge \in Nat

VARIABLE row

Past == -MaxAge
Times == {t \in Int : t >= Past}
Statuses == {"none", "processing", "succeeded", "failed_retryable"}

\* A stored response is the fingerprint of the request it answers.
Rows == [id : Ids \cup {None}, print : Prints \cup {None}, status : Statuses,
         response : Prints \cup {None}, lock : Times, expires : Times]

NoRow == [id |-> None, print |-> None, status |-> "none",
          response |-> None, lock |-> Past, expires |-> Past]

RowExists == row.status # "none"

\* What a clock tick makes of a time left.
Later(t) == IF t > Past THEN t - 1 ELSE Past

\* The row as of the next clock tick.
RowLater == IF RowExists
            THEN [row EXCEPT !.lock = Later(row.lock), !.expires = Later(row.expires)]
            ELSE row

\* The row that CreateProcessing inserts for a call of age a.
Created(i, p, a) ==
    [id |-> i, print |-> p, status |-> "processing", response |-> None,
     lock |-> LockTime - a, expires |-> TTL - a]

\* Mutant: the status read earlier is not compared.
ReclaimableWhatever(i, from, a) == row.id = i /\ row.lock <= -a

\* The condition of TryReclaim's update, for a call of age a.
Reclaimable(i, from, a) == row.id = i /\ row.status = from /\ row.lock <= -a

\* TryReclaim's update: it leaves request_fingerprint and response_body alone.
Reclaimed(a) ==
    [row EXCEPT !.status = "processing", !.lock = LockTime - a, !.expires = TTL - a]

\* The condition of ExtendProcessingLock's update.
Extendable(i, p) == row.id = i /\ row.status = "processing" /\ row.print = p

\* Mutant: a renewal moves expires_at only.
ExtendedExpiry == [row EXCEPT !.expires = TTL]

\* ExtendProcessingLock's update.
Extended == [row EXCEPT !.lock = LockTime, !.expires = TTL]

\* The row after MarkSucceeded by the holder of id i.
Succeeded(i, response, left) ==
    IF row.id = i
    THEN [row EXCEPT !.status = "succeeded", !.response = response,
                     !.lock = Past, !.expires = left]
    ELSE row

\* The row after MarkFailedRetryable by the holder of id i.
FailedRetryable(i, lockLeft, left) ==
    IF row.id = i
    THEN [row EXCEPT !.status = "failed_retryable", !.lock = lockLeft, !.expires = left]
    ELSE row

\* Mutant: rows are deleted by locked_until.
DeletableUnlocked == RowExists /\ row.lock <= 0

\* Mutant: rows in processing are spared.
DeletableDone == RowExists /\ row.expires <= 0 /\ row.status # "processing"

\* The condition of DeleteExpired.
Deletable == RowExists /\ row.expires <= 0
=============================================================================
