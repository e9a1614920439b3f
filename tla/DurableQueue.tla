---------------------------- MODULE DurableQueue ----------------------------
(***************************************************************************)
(* What `operation_log` promises the user, whoever drains it (ADR 009 R-1, *)
(* R-14, R-16): an intent is written once, the intents of an anime are     *)
(* confirmed one at a time and oldest first, and none disappears without a *)
(* trace.  A given-up intent waits until a newer one of its anime and kind *)
(* is confirmed or until the user resolves it, by queueing it again or by  *)
(* keeping what the bridge has; only that choice drops one that waits.     *)
(* Claims, rounds, tokens and the two processes are invisible here: Outbox *)
(* implements this module.  The promise is that of one pairing: unpairing  *)
(* deletes the whole log, and what "confirmed" says of the bridge is not   *)
(* part of it.                                                             *)
(***************************************************************************)
EXTENDS Integers

CONSTANTS Keys, MaxRow, Kinds

VARIABLE row  \* the fate, the key and the kind of every row

Ids == 1..MaxRow

Fates == {"absent", "queued", "confirmed", "given_up", "resolved"}

Queue == [Ids -> [fate : Fates, key : Keys, kind : Kinds]]

InitQueue == row \in Queue /\ \A i \in Ids : row[i].fate = "absent"

QueuedOf(k) == {i \in Ids : row[i].fate = "queued" /\ row[i].key = k}

RowsOf(k) == {i \in Ids : row[i].fate # "absent" /\ row[i].key = k}

-----------------------------------------------------------------------------
\* The next row, behind all the others.
Enqueue(i, k, kind) ==
  /\ \A j \in Ids : (row[j].fate = "absent") <=> (i <= j)
  /\ row' = [row EXCEPT ![i] = [fate |-> "queued", key |-> k, kind |-> kind]]

KeepsKey(k) == \A i \in RowsOf(k) : row'[i] = row[i]

\* The given-up rows of its kind that a confirmed row makes up for.
MadeUpFor(d) == {i \in RowsOf(row[d].key) : /\ i < d
                                           /\ row[i].kind = row[d].kind
                                           /\ row[i].fate = "given_up"}

\* The oldest queued row of the key is confirmed.
ConfirmOldest(k) ==
  \E d \in QueuedOf(k) :
    /\ \A i \in QueuedOf(k) : d <= i
    /\ \A i \in RowsOf(k) : row'[i] = [row[i] EXCEPT !.fate =
         IF i = d THEN "confirmed"
         ELSE IF i \in MadeUpFor(d) THEN "resolved" ELSE @]

\* Queued rows of the key are given up.
GiveUp(k) ==
  \E lost \in SUBSET QueuedOf(k) :
    \A i \in RowsOf(k) : row'[i] =
      [row[i] EXCEPT !.fate = IF i \in lost THEN "given_up" ELSE @]

\* One answer may settle several keys at once.
Settle ==
  /\ row' \in Queue
  /\ \A i \in Ids : row[i].fate = "absent" => row'[i] = row[i]
  /\ \A k \in Keys : KeepsKey(k) \/ ConfirmOldest(k) \/ GiveUp(k)

\* The user's choice on the rows of one kind whose fate is one of `from`.
Resolve(k, kind, from, to) ==
  row' = [i \in Ids |->
    IF row[i].key = k /\ row[i].kind = kind /\ row[i].fate \in from
      THEN [row[i] EXCEPT !.fate = to] ELSE row[i]]

\* The user keeps the local intent: what was given up is queued again.
KeepLocalIntent(k, kind) == Resolve(k, kind, {"given_up"}, "queued")

\* The user keeps what the bridge has: nothing of the kind waits any more.
KeepBridgeState(k, kind) == Resolve(k, kind, {"given_up", "queued"}, "resolved")

NextQueue ==
  \/ \E i \in Ids, k \in Keys, kind \in Kinds : Enqueue(i, k, kind)
  \/ Settle
  \/ \E k \in Keys, kind \in Kinds : KeepLocalIntent(k, kind) \/ KeepBridgeState(k, kind)

SpecQueue == InitQueue /\ [][NextQueue]_row

=============================================================================
