---------------------------- MODULE OperationLog ----------------------------
(***************************************************************************)
(* The `operation_log` table (the transactional outbox) and the SQL        *)
(* statements both runtimes run on it: the JS helpers of                   *)
(* src/features/sync and their Kotlin twins of modules/sync-engine.  Every *)
(* statement is an operator from a log to a log or to a set of row ids;    *)
(* the actions that run them are in Outbox.                                *)
(*                                                                         *)
(* A row is named by its AUTOINCREMENT id.  Rows are ordered by            *)
(* `created_at, id` in the code; the device clock of this model never      *)
(* steps back, so that order is the id order.                              *)
(***************************************************************************)
EXTENDS Integers, FiniteSets

CONSTANTS
  Keys,        \* the queue keys: one per anime (ADR 009 R-13)
  MaxRow,      \* bound: how many rows are ever inserted
  Runtimes,    \* the claim owners of the run: "js", "native" or both
  ClaimTtl,    \* OUTBOX_CLAIM_TTL_MS, in ticks
  BatchLimit,  \* RECONCILE_BACKLOG_BATCH_LIMIT, BACKLOG_BATCH_LIMIT
  ConflictCap  \* CONFLICT_ATTEMPT_CAP

ASSUME OperationLogAssumption ==
  /\ Keys # {}
  /\ MaxRow \in Nat
  /\ Runtimes \subseteq {"js", "native"}
  /\ ClaimTtl \in Nat
  /\ BatchLimit \in Nat
  /\ ConflictCap \in Nat \ {0}

RowIds == 1..MaxRow

\* ANIME_UPDATE_OPERATION and SEASON_RATING_OPERATION.
Kinds == {"update", "season_rating"}

Queued  == {"pending", "processing"}
GivenUp == {"dead_letter", "conflict_exhausted"}

\* "absent": not inserted yet; "deleted": inserted and deleted again.
Statuses == Queued \cup GivenUp \cup {"synced", "absent", "deleted"}

(* A claim is the pair (claim_owner, claimed_at); NoClaim is both NULL. *)
NoClaim == [owner |-> "none", at |-> 0]
Claims  == {NoClaim} \cup [owner : Runtimes, at : Nat]

Row == [status : Statuses, key : Keys, kind : Kinds,
        claim : Claims, conflicts : Nat]

-----------------------------------------------------------------------------
(* Claims and ownership. *)

\* claimed_at > now - OUTBOX_CLAIM_TTL_MS; a NULL claimed_at is never live.
IsLive(claim, now) == claim # NoClaim /\ claim.at > now - ClaimTtl

\* The rows among `ids` that exactly this claim holds.
Held(log, ids, claim) ==
  {i \in ids : log[i].status = "processing" /\ log[i].claim = claim}

\* Mutated OldestQueued: ORDER BY created_at DESC.
NewestQueued(log) ==
  {i \in RowIds :
     /\ log[i].status \in Queued
     /\ \A j \in RowIds : (/\ log[j].key = log[i].key
                           /\ log[j].status \in Queued) => i >= j}

\* Mutated OldestQueued: the window forgets the rows being sent.
OldestPending(log) ==
  {i \in RowIds :
     /\ log[i].status = "pending"
     /\ \A j \in RowIds : (/\ log[j].key = log[i].key
                           /\ log[j].status = "pending") => i <= j}

\* animeRank = 1: the oldest queued row of every key.
OldestQueued(log) ==
  {i \in RowIds :
     /\ log[i].status \in Queued
     /\ \A j \in RowIds : (/\ log[j].key = log[i].key
                           /\ log[j].status \in Queued) => i <= j}

\* Mutated KeyIsClaimed: claimed_at IS NOT NULL, so a claim never expires.
KeyIsClaimedForever(log, key, now) ==
  \E j \in RowIds : log[j].key = key /\ log[j].claim # NoClaim

\* A key with a live claim, whoever holds it, is left out whole.
KeyIsClaimed(log, key, now) ==
  \E j \in RowIds : log[j].key = key /\ IsLive(log[j].claim, now)

\* The backlog candidates: oldest first, at most BatchLimit of them.
Backlog(log, now) ==
  LET free == {i \in OldestQueued(log) : ~KeyIsClaimed(log, log[i].key, now)}
  IN  {i \in free : Cardinality({j \in free : j < i}) < BatchLimit}

\* SET status = 'processing', claim_owner = ?, claimed_at = ?
Take(log, ids, claim) ==
  [i \in RowIds |->
     IF i \in ids THEN [log[i] EXCEPT !.status = "processing", !.claim = claim]
                  ELSE log[i]]

\* The rows claimChainSuccessors takes: each key's oldest queued row, and
\* only while it is pending and unclaimed.
ChainSuccessors(log, keys) ==
  {i \in OldestQueued(log) : /\ log[i].key \in keys
                             /\ log[i].status = "pending"
                             /\ log[i].claim = NoClaim}

-----------------------------------------------------------------------------
(* Guarded status writes: every one is compare-and-set on the claim. *)

\* Mutated Settle: the release forgets claimed_at.
SettleKeepsTime(log, ids, claim, status) ==
  LET held == Held(log, ids, claim)
  IN  [i \in RowIds |->
         IF i \in held
           THEN [log[i] EXCEPT !.status = status, !.claim.owner = "none"]
           ELSE log[i]]

\* UPDATE ... SET status = ?, claim released, where this claim holds the row.
Settle(log, ids, claim, status) ==
  LET held == Held(log, ids, claim)
  IN  [i \in RowIds |->
         IF i \in held
           THEN [log[i] EXCEPT !.status = status, !.claim = NoClaim]
           ELSE log[i]]

\* A conflicted row: its status and its attempt count, released.
SettleConflict(log, ids, claim, outcome) ==
  LET held == Held(log, ids, claim)
  IN  [i \in RowIds |->
         IF i \in held
           THEN [log[i] EXCEPT !.status    = outcome[i].status,
                               !.conflicts = outcome[i].conflicts,
                               !.claim     = NoClaim]
           ELSE log[i]]

\* Fetch-first gives a key up: its held rows and its unclaimed pending edits.
GiveKeysUp(log, keys, ids, claim) ==
  LET held == {i \in Held(log, ids, claim) : log[i].key \in keys}
      edits == {i \in RowIds : /\ log[i].key \in keys
                               /\ log[i].kind = "update"
                               /\ log[i].status = "pending"
                               /\ log[i].claim = NoClaim}
  IN  [i \in RowIds |->
         IF i \in held \cup edits
           THEN [log[i] EXCEPT !.status = "dead_letter", !.claim = NoClaim]
           ELSE log[i]]

\* Mutated SupersededEdits: rows that conflicted out are left behind.
SupersededDeadLetters(log, confirmed) ==
  {i \in RowIds : /\ log[i].kind = "update"
                  /\ log[i].status = "dead_letter"
                  /\ \E c \in confirmed : log[c].key = log[i].key /\ i < c}

\* The given-up edits a confirmed later edit of their key carries past.
SupersededEdits(log, confirmed) ==
  {i \in RowIds : /\ log[i].kind = "update"
                  /\ log[i].status \in GivenUp
                  /\ \E c \in confirmed : log[c].key = log[i].key /\ i < c}

\* The given-up ratings a delivered rating carries past (one season is on).
SupersededRatings(log, confirmed) ==
  {i \in RowIds : /\ log[i].kind = "season_rating"
                  /\ log[i].status = "dead_letter"
                  /\ \E c \in confirmed : log[c].key = log[i].key /\ i < c}

Delete(log, ids) ==
  [i \in RowIds |-> IF i \in ids THEN [log[i] EXCEPT !.status = "deleted"]
                                 ELSE log[i]]

\* The recovery sweep: `processing` rows with an expired or absent claim.
ReturnOrphans(log, now) ==
  [i \in RowIds |->
     IF log[i].status = "processing" /\ ~IsLive(log[i].claim, now)
       THEN [log[i] EXCEPT !.status = "pending", !.claim = NoClaim]
       ELSE log[i]]

-----------------------------------------------------------------------------
\* Mutated ConflictOutcome: one attempt too many.
ConflictOutcomeLate(row, base, bridgeToken) ==
  LET count == IF bridgeToken # base THEN 0 ELSE row.conflicts + 1
  IN  [conflicts |-> count,
       status    |-> IF bridgeToken = base /\ count > ConflictCap
                       THEN "conflict_exhausted" ELSE "pending"]

(* classifyRejectedOperation on a `conflict` that carries the bridge's      *)
(* token: a token the request did not carry resets the count, the same      *)
(* token counts, and the cap ends it.                                       *)
ConflictOutcome(row, base, bridgeToken) ==
  LET count == IF bridgeToken # base THEN 0 ELSE row.conflicts + 1
  IN  [conflicts |-> count,
       status    |-> IF bridgeToken = base /\ count >= ConflictCap
                       THEN "conflict_exhausted" ELSE "pending"]

=============================================================================
