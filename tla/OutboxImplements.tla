-------------------------- MODULE OutboxImplements --------------------------
(* Outbox implements DurableQueue: a `processing` row is still queued, both *)
(* given-up statuses are one fate, and a deleted row was resolved.          *)
EXTENDS Outbox

FateOf(status) ==
  CASE status \in Queued  -> "queued"
    [] status \in GivenUp -> "given_up"
    [] status = "synced"  -> "confirmed"
    [] status = "deleted" -> "resolved"
    [] status = "absent"  -> "absent"

QueueRow == [i \in RowIds |-> [fate |-> FateOf(log[i].status),
                               key  |-> log[i].key, kind |-> log[i].kind]]

Abstract == INSTANCE DurableQueue WITH row <- QueueRow

\* R-14 and R-16 together: every step of the two runtimes is, for the user's
\* intents, a step of one in-order queue, which drops an intent or queues one
\* again only as the user chose (within one pairing).
ImplementsQueue == Abstract!SpecQueue

=============================================================================
