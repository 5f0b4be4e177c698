------------------------- MODULE UsageBillingDedup -------------------------
(***************************************************************************)
(* The deduplication rows of usage billing                                 *)
(* (backend/internal/repository/usage_billing_repo.go): what every billing *)
(* transaction claims before it moves money, and the retention job that    *)
(* moves old rows to the archive.                                          *)
(***************************************************************************)
EXTENDS Naturals

VARIABLES
    dedup,      \* usage_billing_dedup: request id |-> fingerprint
    archive     \* usage_billing_dedup_archive: request id |-> fingerprint

dedupVars == <<dedup, archive>>

DedupInit ==
    /\ dedup = <<>>
    /\ archive = <<>>

\* Mutant: archived rows are not looked at.
ClaimedRecently(r) == r \in DOMAIN dedup

\* A row for r exists, archived or not.
Claimed(r) == r \in DOMAIN dedup \cup DOMAIN archive

\* What claiming r with fingerprint fp finds: nobody has claimed it, the same
\* request has, or a request with another fingerprint has.
ClaimResult(r, fp) ==
    CASE ~Claimed(r) -> "claimed"
      [] r \in DOMAIN dedup -> IF dedup[r] = fp THEN "duplicate" ELSE "conflict"
      [] OTHER -> IF archive[r] = fp THEN "duplicate" ELSE "conflict"

\* INSERT ... ON CONFLICT DO NOTHING
Inserted(table, r, fp) ==
    [q \in DOMAIN table \cup {r} |-> IF q \in DOMAIN table THEN table[q] ELSE fp]

\* The row a committed transaction leaves; a duplicate rolls its row back.
Claim(r, fp) ==
    /\ dedup' = Inserted(dedup, r, fp)
    /\ UNCHANGED archive

\* One statement inserts the old rows into the archive and deletes them.
CleanupUsageBillingDedup(r) ==
    /\ r \in DOMAIN dedup
    /\ archive' = Inserted(archive, r, dedup[r])
    /\ dedup' = [q \in DOMAIN dedup \ {r} |-> dedup[q]]
=============================================================================
