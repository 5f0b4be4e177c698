-------------------------- MODULE SchedulerOutbox --------------------------
(***************************************************************************)
(* The scheduler's outbox table (repository/scheduler_outbox_repo.go) and  *)
(* the consumers' watermark in Redis. Row ids come from a sequence when a  *)
(* row is inserted and become visible when its transaction commits, so ids *)
(* may become visible out of order.                                        *)
(***************************************************************************)
EXTENDS Naturals, FiniteSets, Sequences, SequencesExt

VARIABLES
    rows,           \* visible rows: id |-> [kind, keyed], keyed: dedup_key is set
    nextId,         \* the sequence
    watermark       \* the last id that has been consumed

outboxVars == <<rows, nextId, watermark>>

Kinds == {"account", "group"}

\* Nothing is waiting, or a row that a poller has listed without finishing
OutboxInit(listed) ==
    /\ rows = [i \in IF listed THEN {1} ELSE {} |-> [kind |-> "group", keyed |-> FALSE]]
    /\ nextId = 2
    /\ watermark = 0

\* ON CONFLICT (dedup_key) DO NOTHING: a row for the same object is waiting.
Duplicate(kind) == \E i \in DOMAIN rows : rows[i].kind = kind /\ rows[i].keyed

\* The table with a new row
WithRow(id, kind) ==
    [i \in DOMAIN rows \cup {id} |->
        IF i = id THEN [kind |-> kind, keyed |-> TRUE] ELSE rows[i]]

\* enqueueSchedulerOutbox outside a transaction
EnqueueOutbox(kind) ==
    /\ UNCHANGED watermark
    /\ IF Duplicate(kind)
       THEN UNCHANGED <<rows, nextId>>
       ELSE /\ rows' = WithRow(nextId, kind)
            /\ nextId' = nextId + 1

After(id) == {i \in DOMAIN rows : i > id}

\* The ids of the rows the caller gets: each row after the watermark, in order
Listings ==
    {ids \in [1..Cardinality(After(watermark)) -> After(watermark)] :
        /\ ToSet(ids) = After(watermark)
        /\ \A i, j \in DOMAIN ids : i < j => ids[i] < ids[j]}

\* One statement selects the rows after the watermark and clears their keys.
ListAfterAndReleaseDedup ==
    /\ rows' = [i \in DOMAIN rows |->
                   IF i \in After(watermark) THEN [rows[i] EXCEPT !.keyed = FALSE]
                   ELSE rows[i]]
    /\ UNCHANGED <<nextId, watermark>>

SetOutboxWatermark(id) == watermark' = id

\* Rows up to the consumer's watermark go, except those that are not ten seconds
\* old yet or all of them when the cleanup does not run. A row that has been
\* listed and consumed is never looked at again, so it goes in any case.
DeleteConsumedUpTo(id) ==
    \E kept \in SUBSET {i \in DOMAIN rows : i <= id /\ rows[i].keyed} :
        rows' = [i \in After(id) \cup kept |-> rows[i]]

OutboxTypeOK ==
    /\ DOMAIN rows \subseteq 1..(nextId - 1)
    /\ \A i \in DOMAIN rows : rows[i] \in [kind : Kinds, keyed : BOOLEAN]
    /\ watermark \in 0..(nextId - 1)
=============================================================================
