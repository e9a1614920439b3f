------------------------------- MODULE Outbox -------------------------------
(***************************************************************************)
(* The outbox protocol of ADR 009 (R-3 to R-6, R-13 to R-15): the JS       *)
(* process and the Kotlin `:sync` process drain one `operation_log` into   *)
(* the bridge without ever signalling each other.  A cycle claims the      *)
(* oldest row of every free key, sends the edits in one reconcile request  *)
(* and the season ratings one by one, and chains the next row of every key *)
(* the bridge confirmed.                                                   *)
(*                                                                         *)
(* Steps are the atomic units of the code: one write transaction, or one   *)
(* local read, or one network effect.  The bridge is another program: its  *)
(* part is modelled from what the code sends it and reads back.            *)
(*                                                                         *)
(* A behaviour is one pairing: unpairing deletes the whole log with the    *)
(* bridge's tokens and cursor (clearBridgeConfig) and is not an action     *)
(* here; SyncFlush and RemoteMerge have it.                                *)
(***************************************************************************)
EXTENDS OperationLog

CONSTANTS
  ChainBudget, \* OUTBOX_CHAIN_BUDGET_MS, in ticks
  MayLackToken,\* TRUE: an anime may have no stored token at first
  RowKinds,    \* the kinds of row the user queues in this run
  Faults,      \* what may go wrong on the device, a subset of AllFaults
  Refusals,    \* what the bridge may answer besides the OCC rule
  Choices,     \* how the user may resolve a key that was given up
  MaxClock,    \* bound: ticks of the device clock
  MaxFeed,     \* bound: changes the bridge records
  MaxStray     \* bound: abandoned requests still under way

(* "crash": a process dies mid-cycle (or its release write fails);         *)
(* "early_throw": the backlog count after the claim throws (JS);           *)
(* "suspend": the process is frozen between two local steps.               *)
AllFaults == {"crash", "early_throw", "suspend"}

(* "conflict": a conflict on the very token sent; "unsupported": the       *)
(* operation is refused for good; "silent": the answer does not name the   *)
(* row; "reject": a 4xx for the request; "gone": a 404, or an anime with   *)
(* no token, when one anime is fetched.                                    *)
AllRefusals == {"conflict", "unsupported", "silent", "reject", "gone"}

\* The choices of R-16b on a key whose rows were given up.
AllChoices == {"keep_local", "keep_bridge"}

ASSUME OutboxAssumption ==
  /\ ChainBudget \in Nat
  /\ MayLackToken \in BOOLEAN
  /\ RowKinds \subseteq Kinds
  /\ Faults \subseteq AllFaults
  /\ Refusals \subseteq AllRefusals
  /\ Choices \subseteq AllChoices
  /\ MaxClock \in Nat
  /\ MaxFeed \in Nat
  /\ MaxStray \in Nat

VARIABLES
  log,     \* operation_log
  token,   \* animes.bridge_modified_at per key, NoToken when NULL
  cursor,  \* bridge_config.last_changelog_id
  clock,   \* Date.now() / System.currentTimeMillis(), one device clock
  cyc,     \* per runtime, the cycle it is running
  bridge,  \* the bridge: its changelog, token and latest content per key
  stray    \* requests whose sender gave up on the answer

vars == <<log, token, cursor, clock, cyc, bridge, stray>>

NoToken == -1
Tokens  == Nat \cup {NoToken}

NoBase == [k \in Keys |-> NoToken]

(* What an answer says of a row: it names it ("applied", "conflict",       *)
(* "unsupported"), or it does not and a change it carries has every field  *)
(* of the row ("shown"), or not even that ("silent").                      *)
Verdicts == {"none", "applied", "conflict", "unsupported", "shown", "silent"}
NoAnswer == [verdict |-> [i \in RowIds |-> "none"],
             token   |-> NoBase,
             cursor  |-> 0]

(* pc: "swept" (native only, after the recovery sweep), "round" (rows      *)
(* claimed, nothing sent), "checked" (rows chosen, tokens not read),       *)
(* "fetching" and "fetched" (fetch-first), "posted" and "answered" (the    *)
(* reconcile request), "isolating", "rating" (between rating requests),    *)
(* "rating_posted" and "rating_answered".                                  *)
Pcs == {"idle", "swept", "round", "checked", "fetching", "fetched", "posted",
        "answered", "isolating", "rating", "rating_posted", "rating_answered"}

Cycle == [pc        : Pcs,
          claim     : Claims,
          mine      : SUBSET RowIds, \* claimedIds, attemptClaimedIds
          first     : BOOLEAN,       \* firstRound
          since     : Nat,           \* lastChangelogId, as sent to the bridge
          edits     : SUBSET RowIds, \* updates of the round still to send
          ratings   : SUBSET RowIds, \* ratings of the round still to send
          send      : SUBSET RowIds, \* rows of the request under way
          base      : [Keys -> Tokens],
          gone      : SUBSET Keys,   \* keys whose fetch found nothing
          answer    : [verdict : [RowIds -> Verdicts],
                       token   : [Keys -> Tokens],
                       cursor  : Nat],
          isolating : BOOLEAN,       \* one message per request
          delivered : BOOLEAN,       \* an isolated message got through
          next      : SUBSET RowIds] \* successors claimed this round

NoCycle == [pc |-> "idle", claim |-> NoClaim, mine |-> {}, first |-> FALSE,
            since |-> 0, edits |-> {}, ratings |-> {}, send |-> {}, base |-> NoBase,
            gone |-> {}, answer |-> NoAnswer, isolating |-> FALSE,
            delivered |-> FALSE, next |-> {}]

Bridge == [feed    : Nat,              \* last changelog id
           at      : [Keys -> Nat],    \* OCC token of each anime
           last    : [Keys -> RowIds \cup {0}], \* edit it holds, 0 = foreign
           history : SUBSET RowIds,    \* every row it ever took in
           shown   : SUBSET RowIds]    \* rows a change it sent had the fields of

Requests == [send : SUBSET RowIds, base : [Keys -> Tokens]]

AbsentRow == [status |-> "absent", key |-> CHOOSE k \in Keys : TRUE,
              kind |-> "update", claim |-> NoClaim, conflicts |-> 0]

\* A step of r's own cycle.
Continue(r, cycle) == cyc' = [cyc EXCEPT ![r] = cycle]

KeysOf(ids) == {log[i].key : i \in ids}
Updates(ids) == {i \in ids : log[i].kind = "update"}
RatingsOf(ids) == {i \in ids : log[i].kind = "season_rating"}

Init ==
  /\ log = [i \in RowIds |-> AbsentRow]
  /\ token \in [Keys -> IF MayLackToken THEN {NoToken, 0} ELSE {0}]
  /\ cursor = 0
  /\ clock = 0
  /\ cyc = [r \in Runtimes |-> NoCycle]
  /\ bridge = [feed |-> 0, at |-> [k \in Keys |-> 0],
               last |-> [k \in Keys |-> 0], history |-> {}, shown |-> {}]
  /\ stray = {}

-----------------------------------------------------------------------------
(* Between two network waits a runtime only runs local reads and writes.    *)
(* They take no time on the clock and are shorter than any exchange of the  *)
(* other runtime with the bridge, unless the process is suspended between   *)
(* two of them.  A `round` of JS still has the diagnostics flush before it. *)
InReads(r) == \/ cyc[r].pc \in {"checked", "isolating", "rating"}
              \/ r = "native" /\ cyc[r].pc = "round"

TimeMayPass(actors) ==
  "suspend" \in Faults \/ \A r \in Runtimes \ actors : ~InReads(r)

\* Bound: a claim left behind is left while the clock can still outlive it.
WillExpire == clock + ClaimTtl <= MaxClock

-----------------------------------------------------------------------------
(* The user, the clock and the other devices.                               *)

\* applyAnimeMutationPatch and the season rating mutation: the local change
\* and its `pending` row in one write door.
LocalEdit(k, kind) ==
  \E i \in RowIds :
    /\ log[i].status = "absent"
    /\ \A j \in RowIds : log[j].status = "absent" => i <= j
    /\ log' = [log EXCEPT ![i] = [status |-> "pending", key |-> k,
                 kind |-> kind, claim |-> NoClaim, conflicts |-> 0]]
    /\ UNCHANGED <<token, cursor, clock, cyc, bridge, stray>>

Tick ==
  /\ clock < MaxClock /\ TimeMayPass({})
  /\ clock' = clock + 1
  /\ UNCHANGED <<log, token, cursor, cyc, bridge, stray>>

\* The desktop app edits an anime.
BridgeEdit(k) ==
  /\ bridge.feed < MaxFeed
  /\ bridge' = [bridge EXCEPT !.feed = @ + 1, !.at[k] = bridge.feed + 1,
                              !.last[k] = 0]
  /\ UNCHANGED <<log, token, cursor, clock, cyc, stray>>

-----------------------------------------------------------------------------
(* Claiming.                                                                *)

\* The changelog id a request will carry, kept only where the bridge may leave
\* rows unnamed: nothing else depends on it.
Since(id) == IF "silent" \in Refusals THEN id ELSE 0

\* The native attempt reads its config, then SyncEngineRecovery.sweep writes.
NativeSweep(r) ==
  /\ r = "native" /\ cyc[r].pc = "idle"
  /\ log' = ReturnOrphans(log, clock)
  /\ Continue(r, [cyc[r] EXCEPT !.pc = "swept", !.since = Since(cursor)])
  /\ UNCHANGED <<token, cursor, clock, bridge, stray>>

\* claimOperationLogBatch / claimOperationLogBacklog: read and claim at once.
\* JS has just read its config, the native attempt did before its sweep.
ClaimBatch(r) ==
  LET claim == [owner |-> r, at |-> clock]
      ids   == Backlog(log, clock)
  IN  /\ cyc[r].pc = (IF r = "native" THEN "swept" ELSE "idle")
      /\ log' = Take(log, ids, claim)
      /\ Continue(r, [NoCycle EXCEPT !.pc = "round", !.claim = claim,
                      !.mine = ids, !.first = TRUE,
                      !.since = IF r = "native" THEN cyc[r].since
                                                   ELSE Since(cursor),
                      !.edits = Updates(ids), !.ratings = RatingsOf(ids)])
      /\ UNCHANGED <<token, cursor, clock, bridge, stray>>

\* JS: countOperationLogBacklogRows throws outside the try, after the claim.
EarlyThrow(r) ==
  /\ "early_throw" \in Faults /\ WillExpire
  /\ r = "js" /\ cyc[r].pc = "round" /\ cyc[r].first /\ cyc[r].mine # {}
  /\ Continue(r, NoCycle)
  /\ UNCHANGED <<log, token, cursor, clock, bridge, stray>>

-----------------------------------------------------------------------------
(* One reconcile request.                                                   *)

\* Mutated BeginSend: JS sends the rows it claimed without looking again.
BeginSendUnchecked(r) ==
  LET c == cyc[r]
  IN  /\ c.pc = "round"
      /\ Continue(r, [c EXCEPT !.pc = "checked", !.edits = {},
                               !.send = c.edits])
      /\ UNCHANGED <<log, token, cursor, clock, bridge, stray>>

\* JS re-reads which rows it still holds (sendReconcileRound); the native
\* sendRound takes the round as it stands.
BeginSend(r) ==
  LET c == cyc[r]
  IN  /\ c.pc = "round"
      /\ Continue(r, [c EXCEPT !.pc = "checked", !.edits = {},
                      !.send = IF r = "js" THEN Held(log, c.edits, c.claim)
                                           ELSE c.edits])
      /\ UNCHANGED <<log, token, cursor, clock, bridge, stray>>

\* One turn of the isolation loop: a row no longer held is passed over.
IsolateNext(r) ==
  LET c == cyc[r]
  IN  /\ c.pc = "isolating"
      /\ \E i \in c.edits :
           LET isHeld == Held(log, {i}, c.claim) # {}
           IN  Continue(r, [c EXCEPT !.edits = c.edits \ {i},
                 !.pc   = IF isHeld THEN "checked" ELSE "isolating",
                 !.send = IF isHeld THEN {i} ELSE {}])
      /\ UNCHANGED <<log, token, cursor, clock, bridge, stray>>

\* readAnimeBridgeTokens: the base of every row; a missing one is fetched.
ReadTokens(r) ==
  LET c    == cyc[r]
      keys == KeysOf(c.send)
  IN  /\ c.pc = "checked"
      /\ Continue(r, [c EXCEPT
           !.base = [k \in Keys |-> IF k \in keys THEN token[k] ELSE NoToken],
           !.pc   = IF \E k \in keys : token[k] = NoToken
                      THEN "fetching" ELSE "posted"])
      /\ UNCHANGED <<log, token, cursor, clock, bridge, stray>>

\* fetchMissingTokenOutcome for every missing key: a token, nothing there,
\* or (neither) the bridge could not be asked.
FetchMissing(r) ==
  LET c       == cyc[r]
      missing == {k \in KeysOf(c.send) : c.base[k] = NoToken}
  IN  /\ c.pc = "fetching"
      /\ \E found, gone \in SUBSET missing :
           /\ found \cap gone = {}
           /\ gone # {} => "gone" \in Refusals
           /\ Continue(r, [c EXCEPT !.pc = "fetched", !.gone = gone,
                !.base = [k \in Keys |-> IF k \in found THEN bridge.at[k]
                                                           ELSE c.base[k]]])
      /\ UNCHANGED <<log, token, cursor, clock, bridge, stray>>

\* The log after the outcomes are written: an unreachable key keeps its rows
\* for later, a key with nothing there is given up.
AfterFetch(c) ==
  LET unreachable == {i \in c.send : /\ c.base[log[i].key] = NoToken
                                     /\ log[i].key \notin c.gone}
  IN  GiveKeysUp(Settle(log, unreachable, c.claim, "pending"),
                 c.gone, c.send, c.claim)

\* claimHoldsAnimeRow
HoldsKey(c, k) == \E i \in RowIds : /\ log[i].key = k
                                   /\ log[i].status = "processing"
                                   /\ log[i].claim = c.claim

\* The stored token: the fetched one only where none is stored and only
\* while the claim still holds a row of the anime.
FetchedToken(c, k) ==
  IF token[k] = NoToken /\ HoldsKey(c, k) THEN c.base[k] ELSE token[k]

\* The rows still held once the outcomes are written: all carry a base.
Sendable(c) == Held(AfterFetch(c), c.send, c.claim)

\* The door of resolveMissingTokens.
StoreFetched(r) ==
  LET c == cyc[r]
  IN  /\ c.pc = "fetched"
      /\ log' = AfterFetch(c)
      /\ token' = [k \in Keys |-> FetchedToken(c, k)]
      /\ Continue(r, [c EXCEPT !.pc = "posted", !.gone = {},
                               !.send = Sendable(c)])
      /\ UNCHANGED <<cursor, clock, bridge, stray>>

-----------------------------------------------------------------------------
(* The bridge.                                                              *)

\* R-4: an edit whose content the bridge already holds is an identical repeat.
IsRepeat(i) == bridge.last[log[i].key] = i

\* The optimistic concurrency rule on one edit.
MayTake(i, base) == base[log[i].key] = bridge.at[log[i].key] \/ IsRepeat(i)

\* What it may answer of an edit it took or did not take: by that rule, or
\* another way out.
MayAnswer(i, base, took) ==
  LET fresh == base[log[i].key] = bridge.at[log[i].key]
  IN  (IF took THEN {"applied"}
       ELSE (IF fresh THEN Refusals \cap {"conflict"} ELSE {"conflict"})
            \cup (Refusals \cap {"unsupported"}))
      \cup (IF "silent" \in Refusals THEN {"shown", "silent"} ELSE {})

\* The bridge after it applied the edits of `ids`.
Applied(ids) ==
  LET written == {i \in ids : ~IsRepeat(i)}
      rowOf(k) == {i \in written : log[i].key = k}
  IN  [feed    |-> IF written = {} THEN bridge.feed ELSE bridge.feed + 1,
       at      |-> [k \in Keys |-> IF rowOf(k) = {} THEN bridge.at[k]
                                                    ELSE bridge.feed + 1],
       last    |-> [k \in Keys |-> IF rowOf(k) = {} THEN bridge.last[k]
                                   ELSE CHOOSE i \in rowOf(k) : TRUE],
       history |-> bridge.history \cup ids,
       shown   |-> bridge.shown]

\* An answer: its verdicts, and the tokens and the changelog id after it.
Answer(c, verdict, after) ==
  [verdict |-> [i \in RowIds |-> IF i \in c.send THEN verdict[i] ELSE "none"],
   token   |-> [k \in Keys |-> IF k \in KeysOf(c.send) THEN after.at[k] ELSE NoToken],
   cursor  |-> after.feed]

\* The bridge handles a request and answers it.  A row is only shown by a change
\* of its anime that the request did not know: the device's own, or a foreign one.
BridgeAnswers(r) ==
  LET c == cyc[r]
  IN  /\ c.pc = "posted" /\ TimeMayPass({r})
      /\ \E taken \in SUBSET c.send, verdict \in [c.send -> Verdicts \ {"none"}] :
           LET shown == {i \in c.send : verdict[i] = "shown"}
               after == Applied(taken)
           IN  /\ \A i \in taken : MayTake(i, c.base)
               /\ \A i \in c.send : verdict[i] \in MayAnswer(i, c.base, i \in taken)
               /\ \A i \in shown : after.at[log[i].key] > c.since
               /\ after.feed <= MaxFeed
               /\ bridge' = [after EXCEPT !.shown = @ \cup shown]
               /\ Continue(r, [c EXCEPT !.pc = "answered",
                                        !.answer = Answer(c, verdict, after)])
      /\ UNCHANGED <<log, token, cursor, clock, stray>>

\* A request nobody waits for any more reaches the bridge after all.
StrayArrives ==
  \E q \in stray :
    /\ stray' = stray \ {q}
    /\ \E taken \in SUBSET Updates(q.send) :
         LET after == Applied(taken)
         IN  /\ \A i \in taken : MayTake(i, q.base)
             /\ after.feed <= MaxFeed
             /\ bridge' = [after EXCEPT !.history = @ \cup RatingsOf(q.send)]
    /\ UNCHANGED <<log, token, cursor, clock, cyc>>

-----------------------------------------------------------------------------
(* The end of a request.                                                    *)

\* What is left under way when the sender of a request stops waiting for it.
Abandoned(c) ==
  IF c.pc \in {"posted", "rating_posted"} /\ Cardinality(stray) < MaxStray
    THEN stray \cup {[send |-> c.send, base |-> c.base]}
    ELSE stray

\* The rows of the request that the answer gave the verdict `v`.
Said(c, v) == {i \in c.send : c.answer.verdict[i] = v}

\* Mutated ConfirmedBy: any 2xx confirms the whole request.
ConfirmedBy2xx(c) == c.send

\* getConfirmedOperationIds: a row the answer names is confirmed if it was
\* applied, a row it does not name if a change of the answer shows it.
ConfirmedBy(c) == Said(c, "applied") \cup Said(c, "shown")

\* Mutated TokenKeys: the answer's tokens are written for keys lost meanwhile.
TokenKeysUnheld(c) == KeysOf(Said(c, "applied") \cup Said(c, "conflict"))

\* The keys whose token the answer may write: those of the rows it names as
\* applied or in conflict, still held in the door (collectConfirmedAnimeTokens).
TokenKeys(c) ==
  KeysOf(Held(log, Said(c, "applied") \cup Said(c, "conflict"), c.claim))

\* forwardOnlyChangelogCursor: MAX(stored, next).
CursorAfter(next) == IF next > cursor THEN next ELSE cursor

\* The status writes of applyReconcileResponseWrites, each compare-and-set,
\* then resolveSupersededOperations.
SettledBy(c) ==
  LET outcome  == [i \in Said(c, "conflict") |->
                     ConflictOutcome(log[i], c.base[log[i].key],
                                     c.answer.token[log[i].key])]
      conflict == SettleConflict(log, Said(c, "conflict"), c.claim, outcome)
      dead     == Settle(conflict, Said(c, "unsupported"), c.claim, "dead_letter")
      synced   == Settle(dead, ConfirmedBy(c), c.claim, "synced")
      settled  == Settle(synced, Said(c, "silent"), c.claim, "pending")
  IN  Delete(settled, SupersededEdits(settled, Held(log, ConfirmedBy(c), c.claim)))

\* The rows claimed next, until the chain budget is spent.
Successors(after, keys, claim) ==
  IF clock >= claim.at + ChainBudget THEN {} ELSE ChainSuccessors(after, keys)

\* The one transaction that applies a 2xx answer.
ApplyResponse(r) ==
  LET c    == cyc[r]
      next == Successors(SettledBy(c),
                         KeysOf(Held(log, ConfirmedBy(c), c.claim)), c.claim)
  IN  /\ c.pc = "answered"
      /\ log' = Take(SettledBy(c), next, c.claim)
      /\ token' = [k \in Keys |-> IF k \in TokenKeys(c) THEN c.answer.token[k]
                                                        ELSE token[k]]
      /\ cursor' = CursorAfter(c.answer.cursor)
      /\ Continue(r, [c EXCEPT !.pc = IF c.isolating THEN "isolating"
                                                     ELSE "rating",
                   !.delivered = c.isolating, !.since = Since(c.answer.cursor),
                   !.mine = c.mine \cup next,
                   !.next = c.next \cup next, !.send = {},
                   !.base = NoBase, !.answer = NoAnswer])
      /\ UNCHANGED <<clock, bridge, stray>>

\* Mutated RejectRound: the whole batch is given up for one bad message.
RejectRoundWhole(r) ==
  LET c == cyc[r]
  IN  /\ c.pc = "posted" /\ "reject" \in Refusals
      /\ Cardinality(c.send) > 1
      /\ log' = Settle(log, c.send, c.claim, "dead_letter")
      /\ Continue(r, NoCycle)
      /\ UNCHANGED <<token, cursor, clock, bridge, stray>>

\* A 4xx on several messages: each is sent again alone.
RejectRound(r) ==
  LET c == cyc[r]
  IN  /\ c.pc = "posted" /\ "reject" \in Refusals
      /\ Cardinality(c.send) > 1
      /\ Continue(r, [c EXCEPT !.pc = "isolating", !.edits = c.send,
                   !.isolating = TRUE, !.send = {}, !.base = NoBase])
      /\ UNCHANGED <<log, token, cursor, clock, bridge, stray>>

\* A 4xx on an isolated message: it alone is given up, the loop goes on.
RejectIsolated(r) ==
  LET c == cyc[r]
  IN  /\ c.pc = "posted" /\ "reject" \in Refusals
      /\ c.isolating
      /\ log' = Settle(log, c.send, c.claim, "dead_letter")
      /\ Continue(r, [c EXCEPT !.pc = "isolating", !.send = {},
                               !.base = NoBase])
      /\ UNCHANGED <<token, cursor, clock, bridge, stray>>

\* A 4xx on a lone message (or an empty pull): it is given up, the cycle ends.
RejectLone(r) ==
  LET c    == cyc[r]
      dead == Settle(log, c.send, c.claim, "dead_letter")
  IN  /\ c.pc = "posted" /\ "reject" \in Refusals
      /\ ~c.isolating /\ Cardinality(c.send) <= 1
      /\ log' = Settle(dead, c.mine, c.claim, "pending")
      /\ Continue(r, NoCycle)
      /\ UNCHANGED <<token, cursor, clock, bridge, stray>>

\* The isolation loop is over: it fails the cycle unless a message got through.
EndIsolation(r) ==
  LET c == cyc[r]
  IN  /\ c.pc = "isolating" /\ c.edits = {} /\ c.delivered
      /\ Continue(r, [c EXCEPT !.pc = "rating", !.isolating = FALSE,
                               !.delivered = FALSE])
      /\ UNCHANGED <<log, token, cursor, clock, bridge, stray>>

\* Mutated FailCycle: only the rows of the failed request are released.
FailCycleSentOnly(r) ==
  LET c == cyc[r]
  IN  /\ c.pc \in {"round", "checked", "fetched", "posted", "answered",
                   "isolating", "rating"}
      /\ log' = Settle(log, c.send, c.claim, "pending")
      /\ stray' = Abandoned(c)
      /\ Continue(r, NoCycle)
      /\ UNCHANGED <<token, cursor, clock, bridge>>

\* Transport failure, timeout, 401, 5xx, a malformed answer, a failed local
\* write, or an isolation nobody accepted: every row still held goes back.
FailCycle(r) ==
  LET c == cyc[r]
  IN  /\ c.pc \in {"round", "checked", "fetched", "posted", "answered",
                   "isolating", "rating"}
      /\ log' = Settle(log, c.mine, c.claim, "pending")
      /\ stray' = Abandoned(c)
      /\ Continue(r, NoCycle)
      /\ UNCHANGED <<token, cursor, clock, bridge>>

\* The process dies, or the best-effort release write fails.
Crash(r) ==
  /\ "crash" \in Faults /\ WillExpire
  /\ cyc[r].pc # "idle"
  /\ stray' = Abandoned(cyc[r])
  /\ Continue(r, NoCycle)
  /\ UNCHANGED <<log, token, cursor, clock, bridge>>

-----------------------------------------------------------------------------
(* Season ratings, after the reconcile of the round.                        *)

\* The holder re-checks its claim before each rating request.
RatingCheck(r) ==
  LET c == cyc[r]
  IN  /\ c.pc = "rating"
      /\ \E i \in c.ratings :
           LET isHeld == Held(log, {i}, c.claim) # {}
           IN  Continue(r, [c EXCEPT !.ratings = c.ratings \ {i},
                 !.pc   = IF isHeld THEN "rating_posted" ELSE "rating",
                 !.send = IF isHeld THEN {i} ELSE {}])
      /\ UNCHANGED <<log, token, cursor, clock, bridge, stray>>

\* The bridge takes the rating in (204).
RatingArrives(r) ==
  /\ cyc[r].pc = "rating_posted"
  /\ bridge' = [bridge EXCEPT !.history = @ \cup cyc[r].send]
  /\ Continue(r, [cyc[r] EXCEPT !.pc = "rating_answered"])
  /\ UNCHANGED <<log, token, cursor, clock, stray>>

\* settleSeasonRating on a delivered rating.
RatingDelivered(r) ==
  LET c      == cyc[r]
      held   == Held(log, c.send, c.claim)
      synced == Settle(log, c.send, c.claim, "synced")
      after  == Delete(synced, SupersededRatings(synced, held))
      next   == Successors(after, KeysOf(held), c.claim)
  IN  /\ c.pc = "rating_answered"
      /\ log' = Take(after, next, c.claim)
      /\ Continue(r, [c EXCEPT !.pc = "rating", !.send = {},
                   !.mine = c.mine \cup next, !.next = c.next \cup next])
      /\ UNCHANGED <<token, cursor, clock, bridge, stray>>

\* A 4xx: the rating is given up and its key stops.
RatingRefused(r) ==
  LET c == cyc[r]
  IN  /\ c.pc = "rating_posted" /\ "reject" \in Refusals
      /\ log' = Settle(log, c.send, c.claim, "dead_letter")
      /\ Continue(r, [c EXCEPT !.pc = "rating", !.send = {}])
      /\ UNCHANGED <<token, cursor, clock, bridge, stray>>

\* Any other answer, none at all, or a settle that could not be written.
RatingUnsettled(r) ==
  LET c == cyc[r]
  IN  /\ c.pc \in {"rating_posted", "rating_answered"}
      /\ log' = Settle(log, c.send, c.claim, "pending")
      /\ stray' = Abandoned(c)
      /\ Continue(r, [c EXCEPT !.pc = "rating", !.send = {}])
      /\ UNCHANGED <<token, cursor, clock, bridge>>

\* The next round carries the successors; a round with no edit only rates.
EndRound(r) ==
  LET c == cyc[r]
  IN  /\ c.pc = "rating" /\ c.ratings = {}
      /\ Continue(r,
           IF c.next = {} THEN NoCycle
           ELSE [c EXCEPT
                   !.pc = IF Updates(c.next) = {} THEN "rating" ELSE "round",
                   !.first = FALSE, !.next = {},
                   !.edits = Updates(c.next), !.ratings = RatingsOf(c.next)])
      /\ UNCHANGED <<log, token, cursor, clock, bridge, stray>>

-----------------------------------------------------------------------------
(* The user resolves a key that was given up (resolveUnresolvedKey).  The    *)
(* list it is picked from is read before the write door, so its rows may be  *)
(* resolved by then; which choices a reason leaves is not modelled.          *)

RowsOfKind(k, kind) == {i \in RowIds : log[i].key = k /\ log[i].kind = kind}

\* The write door is refused while a live claim holds the key, whoever's.
MayResolve(k, kind) ==
  /\ \E i \in RowsOfKind(k, kind) : log[i].status \in GivenUp \cup {"deleted"}
  /\ ~KeyIsClaimed(log, k, clock)

\* keepLocalForAnime and keepLocalForRating: the given-up rows are queued again
\* with a fresh count; an edit will need a fresh base, a rating carries none.
KeepLocal(k, kind) ==
  /\ "keep_local" \in Choices /\ MayResolve(k, kind)
  /\ log' = [i \in RowIds |->
       IF i \in RowsOfKind(k, kind) /\ log[i].status \in GivenUp
         THEN [log[i] EXCEPT !.status = "pending", !.conflicts = 0] ELSE log[i]]
  /\ token' = IF kind = "update" THEN [token EXCEPT ![k] = NoToken] ELSE token
  /\ UNCHANGED <<cursor, clock, cyc, bridge, stray>>

\* The token keep_bridge leaves on an anime: the one of the state it fetched,
\* which the bridge may have moved on from, or none where there was nothing.
FetchedTokens(k) ==
  0 .. bridge.at[k] \cup (IF "gone" \in Refusals THEN {NoToken} ELSE {})

\* keepBridgeForAnime and keepBridgeForRating: every row of the kind that is not
\* `synced` is deleted, the ones of an expired claim included.
KeepBridge(k, kind) ==
  /\ "keep_bridge" \in Choices /\ MayResolve(k, kind)
  /\ log' = [i \in RowIds |->
       IF i \in RowsOfKind(k, kind) /\ log[i].status \in Queued \cup GivenUp
         THEN [log[i] EXCEPT !.status = "deleted", !.claim = NoClaim] ELSE log[i]]
  /\ IF kind = "update"
       THEN \E t \in FetchedTokens(k) : token' = [token EXCEPT ![k] = t]
       ELSE token' = token
  /\ UNCHANGED <<cursor, clock, cyc, bridge, stray>>

-----------------------------------------------------------------------------
Environment ==
  \/ \E k \in Keys, kind \in RowKinds :
       LocalEdit(k, kind) \/ KeepLocal(k, kind) \/ KeepBridge(k, kind)
  \/ Tick
  \/ \E k \in Keys : BridgeEdit(k)
  \/ StrayArrives

Send(r) ==
  \/ BeginSend(r)
  \/ IsolateNext(r)
  \/ ReadTokens(r)
  \/ FetchMissing(r)
  \/ StoreFetched(r)
  \/ BridgeAnswers(r)
  \/ ApplyResponse(r)
  \/ RejectRound(r)
  \/ RejectIsolated(r)
  \/ RejectLone(r)
  \/ EndIsolation(r)

Rate(r) ==
  \/ RatingCheck(r)
  \/ RatingArrives(r)
  \/ RatingDelivered(r)
  \/ RatingRefused(r)
  \/ RatingUnsettled(r)

Advance(r) ==
  \/ NativeSweep(r)
  \/ ClaimBatch(r)
  \/ Send(r)
  \/ Rate(r)
  \/ EndRound(r)
  \/ FailCycle(r)

Next ==
  \/ Environment
  \/ \E r \in Runtimes : Advance(r) \/ EarlyThrow(r) \/ Crash(r)

Spec == Init /\ [][Next]_vars

-----------------------------------------------------------------------------
(* Properties.                                                              *)

\* The type of the state: among the rest, a row's claim has both its owner
\* and its time or neither, and every cycle works on existing rows.
TypeOK ==
  /\ log \in [RowIds -> Row]
  /\ token \in [Keys -> Tokens]
  /\ cursor \in Nat
  /\ clock \in Nat
  /\ cyc \in [Runtimes -> Cycle]
  /\ bridge \in Bridge
  /\ stray \subseteq Requests

\* ADR 009 R-14, "in order": whatever two runtimes, expiries, crashes and
\* sweeps do, the row of a key that is being sent is the oldest one queued.
OldestFirst ==
  \A i, j \in RowIds :
    (/\ log[i].status = "processing" /\ log[j].status \in Queued
     /\ log[i].key = log[j].key) => i <= j

\* R-14: no row is confirmed while an older row of its key still waits.
InOrder ==
  \A i, j \in RowIds :
    (i < j /\ log[i].key = log[j].key /\ log[j].status = "synced")
      => log[i].status \notin Queued

\* reconcile-confirmation: a row is marked `synced` only on evidence about that
\* very row, that the bridge took it or a change that shows it, whatever answers
\* came late, twice or to a past holder.
SyncedOnEvidence ==
  \A i \in RowIds : log[i].status = "synced" =>
    i \in bridge.history \cup bridge.shown

\* isOperationConfirmed asks for "real evidence of having landed on the bridge":
\* a row marked `synced` is one the bridge took in.
SyncedWasApplied ==
  \A i \in RowIds : log[i].status = "synced" => i \in bridge.history

\* The point of FIFO plus a base on every edit (R-3, R-14): an edit of this
\* device never replaces, at the bridge, a newer edit of the same anime.
NoStaleOverwrite ==
  \A k \in Keys : bridge.last[k] # 0 =>
    \A j \in Updates(bridge.history) : log[j].key = k => j <= bridge.last[k]

\* syncPendingOperations: "Nothing is left claimed by a cycle that is no
\* longer running" (attemptClaimedIds in Kotlin), short of a crash.
NothingLeftClaimed ==
  \A i \in RowIds : log[i].status = "processing" =>
    \E r \in Runtimes : i \in cyc[r].mine /\ log[i].claim = cyc[r].claim

\* reconcile.helpers.ts on the rows of a dead cycle: they are recovered once
\* their claim expires "instead of staying stuck in 'processing' forever".
NeverStuck ==
  \A i \in RowIds : log[i].status = "processing" ~> log[i].status # "processing"

\* R-15: a row that keeps conflicting on one token is never tried again once
\* its count reached CONFLICT_ATTEMPT_CAP, across cycles and runtimes.
ConflictBudget ==
  \A i \in RowIds : log[i].status \in Queued => log[i].conflicts < ConflictCap

GivesUpAtMostOne ==
  Cardinality({i \in RowIds : /\ log[i].status \in Queued
                              /\ log'[i].status = "dead_letter"}) <= 1

\* A request is over, or its answer is there.
RequestEnds ==
  \E r \in Runtimes : /\ cyc[r].pc \in {"posted", "rating_posted"}
                      /\ cyc'[r] # cyc[r]

\* R-5: one failing message never takes others with it: a request that is
\* refused gives up at most one row, however many it carried.
NoCollateral == [][RequestEnds => GivesUpAtMostOne]_vars

\* R-13, "the holder re-checks its claim before each send": the rows chosen
\* for a request are rows their sender still holds.
HolderSends ==
  [][\A r \in Runtimes :
       (cyc[r].pc # "checked" /\ cyc'[r].pc = "checked") =>
         Held(log', cyc'[r].send, cyc'[r].claim) = cyc'[r].send]_vars

\* R-13: a late answer never takes an anime's token back.
TokenForwardOnly == [][\A k \in Keys : token'[k] >= token[k]]_vars

\* R-6: a stale answer never takes the changelog cursor back.
CursorForwardOnly == [][cursor' >= cursor]_vars

=============================================================================
