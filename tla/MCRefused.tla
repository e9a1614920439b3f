----------------------------- MODULE MCRefused -----------------------------
(* What a bridge may refuse: anything over one anime, and over two what    *)
(* decides one request between them.                                       *)
EXTENDS OutboxImplements

CONSTANTS a, b  \* two animes

InUse == {log[i].key : i \in {j \in RowIds : log[j].status # "absent"}}

\* Two animes: nobody else edits them, a request is applied or refused whole, and
\* the user leaves it at that.
PlainlyRefused ==
  /\ bridge.feed = Cardinality(Updates(bridge.history))
  /\ \A r \in Runtimes, i \in RowIds : cyc[r].answer.verdict[i] \in {"none", "applied"}
  /\ \A i \in RowIds : log[i].status # "deleted"

\* Everything the bridge and the user may do to one anime.
Bounded == InUse = {a} \/ (InUse # {b} /\ PlainlyRefused)

=============================================================================
