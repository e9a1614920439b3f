---------------------------- MODULE OutboxProofs ----------------------------
(***************************************************************************)
(* Theorems about Outbox, for every set of animes, every number of rows,   *)
(* every clock and every way the bridge may answer.  The lemmas of the     *)
(* first part are about the statements of OperationLog, one log at a time; *)
(* the second part lifts them to the steps of the two runtimes.            *)
(***************************************************************************)
EXTENDS Outbox, TLAPS

Logs == [RowIds -> Row]

-----------------------------------------------------------------------------
(* Every SQL statement maps a log to a log.                                 *)

\* Marking rows `processing` under a claim leaves a well-formed log.
LEMMA TakeType ==
  ASSUME NEW l \in Logs, NEW ids, NEW claim \in Claims
  PROVE  Take(l, ids, claim) \in Logs
BY DEF Take, Logs, Row, Statuses, Queued

\* A compare-and-set release leaves a well-formed log.
LEMMA SettleType ==
  ASSUME NEW l \in Logs, NEW ids, NEW claim, NEW status \in Statuses
  PROVE  Settle(l, ids, claim, status) \in Logs
BY DEF Settle, Logs, Row, Claims

\* What a conflict may leave in a row: a row that is tried again is under the
\* cap.
Outcomes == {o \in [conflicts : Nat, status : {"pending", "conflict_exhausted"}] :
               o.status = "pending" => o.conflicts < ConflictCap}

\* The verdict of classifyRejectedOperation is one of them.
LEMMA OutcomeType ==
  ASSUME NEW row \in Row, NEW base, NEW bridgeToken
  PROVE  ConflictOutcome(row, base, bridgeToken) \in Outcomes
BY OperationLogAssumption DEF ConflictOutcome, Row, Outcomes

\* Writing the conflict outcomes leaves a well-formed log.
LEMMA SettleConflictType ==
  ASSUME NEW l \in Logs, NEW ids, NEW claim, NEW outcome,
         \A i \in ids : outcome[i] \in Outcomes
  PROVE  SettleConflict(l, ids, claim, outcome) \in Logs
<1> DEFINE written(i) == [l[i] EXCEPT !.status    = outcome[i].status,
                                      !.conflicts = outcome[i].conflicts,
                                      !.claim     = NoClaim]
<1>1. ASSUME NEW i \in RowIds, i \in Held(l, ids, claim)
      PROVE  written(i) \in Row
  <2>1. i \in ids /\ l[i] \in Row
    BY <1>1 DEF Held, Logs
  <2>2. outcome[i].status \in Statuses /\ outcome[i].conflicts \in Nat
    BY <2>1 DEF Outcomes, Statuses, Queued, GivenUp
  <2> QED
    BY <2>1, <2>2 DEF Row, Claims
<1> QED
  BY <1>1 DEF SettleConflict, Logs

\* Giving keys up leaves a well-formed log.
LEMMA GiveKeysUpType ==
  ASSUME NEW l \in Logs, NEW keys, NEW ids, NEW claim
  PROVE  GiveKeysUp(l, keys, ids, claim) \in Logs
BY DEF GiveKeysUp, Logs, Row, Claims, Statuses, GivenUp

\* Deleting superseded rows leaves a well-formed log.
LEMMA DeleteType ==
  ASSUME NEW l \in Logs, NEW ids
  PROVE  Delete(l, ids) \in Logs
BY DEF Delete, Logs, Row, Statuses

\* The recovery sweep leaves a well-formed log.
LEMMA ReturnOrphansType ==
  ASSUME NEW l \in Logs, NEW now
  PROVE  ReturnOrphans(l, now) \in Logs
BY DEF ReturnOrphans, Logs, Row, Claims, Statuses, Queued

-----------------------------------------------------------------------------
(* Type correctness.                                                        *)

USE DEF Pcs

\* A step of one cycle leaves the cycles well-formed if its own is.
LEMMA ContinueType ==
  ASSUME TypeOK, NEW r \in Runtimes, NEW c \in Cycle, Continue(r, c)
  PROVE  cyc' \in [Runtimes -> Cycle]
BY DEF TypeOK, Continue

\* A runtime that has no cycle under way is well-formed.
LEMMA NoCycleType == NoCycle \in Cycle
BY OperationLogAssumption
   DEF NoCycle, Cycle, NoAnswer, NoBase, Claims, Tokens, Verdicts, NoToken

\* The sets of rows a cycle works with are sets of row ids.
LEMMA RowSets ==
  ASSUME TypeOK, NEW r \in Runtimes
  PROVE  /\ cyc[r] \in Cycle
         /\ \A ids \in SUBSET RowIds :
              /\ Updates(ids) \in SUBSET RowIds
              /\ RatingsOf(ids) \in SUBSET RowIds
              /\ Held(log, ids, cyc[r].claim) \in SUBSET RowIds
BY DEF TypeOK, Updates, RatingsOf, Held

\* The requests left behind are requests.
LEMMA AbandonedType ==
  ASSUME TypeOK, NEW r \in Runtimes
  PROVE  Abandoned(cyc[r]) \subseteq Requests
BY DEF TypeOK, Abandoned, Requests, Cycle

\* The chain only takes rows of the log.
LEMMA SuccessorsType ==
  ASSUME NEW l, NEW keys, NEW claim
  PROVE  Successors(l, keys, claim) \in SUBSET RowIds
BY DEF Successors, ChainSuccessors, OldestQueued

\* The bridge stays a bridge whatever edits it takes in.
LEMMA AppliedType ==
  ASSUME TypeOK, NEW ids \in SUBSET RowIds
  PROVE  Applied(ids) \in Bridge
<1> DEFINE written == {i \in ids : ~IsRepeat(i)}
           rowOf(k) == {i \in written : log[i].key = k}
<1>1. \A k \in Keys : rowOf(k) # {} => (CHOOSE i \in rowOf(k) : TRUE) \in RowIds
  OBVIOUS
<1>2. bridge.feed \in Nat /\ bridge.at \in [Keys -> Nat]
      /\ bridge.last \in [Keys -> RowIds \cup {0}] /\ bridge.history \subseteq RowIds
      /\ bridge.shown \subseteq RowIds
  BY DEF TypeOK, Bridge
<1> HIDE DEF rowOf, written
<1> QED
  BY <1>1, <1>2 DEF Applied, Bridge, rowOf, written

\* The status writes of one answer leave a well-formed log.
LEMMA SettledByType ==
  ASSUME TypeOK, NEW r \in Runtimes
  PROVE  SettledBy(cyc[r]) \in Logs
<1> DEFINE c        == cyc[r]
           outcome  == [i \in Said(c, "conflict") |->
                          ConflictOutcome(log[i], c.base[log[i].key],
                                          c.answer.token[log[i].key])]
           conflict == SettleConflict(log, Said(c, "conflict"), c.claim, outcome)
           dead     == Settle(conflict, Said(c, "unsupported"), c.claim, "dead_letter")
           synced   == Settle(dead, ConfirmedBy(c), c.claim, "synced")
           settled  == Settle(synced, Said(c, "silent"), c.claim, "pending")
<1>1. log \in Logs
  BY DEF TypeOK, Logs
<1>2. \A i \in Said(c, "conflict") : outcome[i] \in Outcomes
  <2> TAKE i \in Said(c, "conflict")
  <2>1. log[i] \in Row
    BY DEF TypeOK, Said, Cycle
  <2> QED
    BY <2>1, OutcomeType
<1>3. conflict \in Logs
  <2> HIDE DEF outcome
  <2> QED
    BY <1>1, <1>2, SettleConflictType
<1> HIDE DEF conflict
<1>4. dead \in Logs
  BY <1>3, SettleType DEF Statuses, GivenUp
<1> HIDE DEF dead
<1>5. synced \in Logs
  BY <1>4, SettleType DEF Statuses
<1> HIDE DEF synced
<1>6. settled \in Logs
  BY <1>5, SettleType DEF Statuses, Queued
<1> HIDE DEF settled
<1>7. Delete(settled, SupersededEdits(settled, Held(log, ConfirmedBy(c), c.claim)))
        \in Logs
  BY <1>6, DeleteType
<1> QED
  BY <1>7 DEF SettledBy, settled, synced, dead, conflict

\* The initial state is well-formed.
LEMMA TypeInit == Init => TypeOK
<1> SUFFICES ASSUME Init PROVE TypeOK
  OBVIOUS
<1> USE OperationLogAssumption
<1>1. AbsentRow \in Row
  BY DEF AbsentRow, Row, Statuses, Kinds, Claims
<1> QED
  BY <1>1, NoCycleType DEF Init, TypeOK, Tokens, NoToken, Bridge, Requests

\* The user's choices keep the types.
LEMMA TypeChoices ==
  ASSUME TypeOK, NEW k \in Keys, NEW kind \in RowKinds,
         KeepLocal(k, kind) \/ KeepBridge(k, kind)
  PROVE  TypeOK'
<1>1. CASE KeepLocal(k, kind)
  <2>1. log' \in [RowIds -> Row]
    BY <1>1 DEF KeepLocal, TypeOK, Row, Statuses, Queued
  <2>2. token' \in [Keys -> Tokens]
    BY <1>1 DEF KeepLocal, TypeOK, Tokens, NoToken
  <2> QED
    BY <1>1, <2>1, <2>2 DEF KeepLocal, TypeOK
<1>2. CASE KeepBridge(k, kind)
  <2>1. log' \in [RowIds -> Row]
    <3>1. \A i \in RowIds : [log[i] EXCEPT !.status = "deleted", !.claim = NoClaim] \in Row
      BY DEF TypeOK, Row, Statuses, Claims
    <3> QED
      BY <1>2, <3>1 DEF KeepBridge, TypeOK
  <2>2. FetchedTokens(k) \subseteq Tokens
    BY DEF FetchedTokens, TypeOK, Bridge, Tokens
  <2>3. token' \in [Keys -> Tokens]
    BY <1>2, <2>2 DEF KeepBridge, TypeOK
  <2> QED
    BY <1>2, <2>1, <2>3 DEF KeepBridge, TypeOK
<1> QED
  BY <1>1, <1>2

\* The user, the clock and the bridge keep the types.
LEMMA TypeEnvironment ==
  ASSUME TypeOK, Environment
  PROVE  TypeOK'
<1>1. ASSUME NEW k \in Keys, NEW kind \in RowKinds, LocalEdit(k, kind)
      PROVE  TypeOK'
  BY <1>1, OutboxAssumption DEF LocalEdit, TypeOK, Row, Statuses, Queued, Claims
<1>2. CASE Tick
  BY <1>2 DEF Tick, TypeOK
<1>3. ASSUME NEW k \in Keys, BridgeEdit(k)
      PROVE  TypeOK'
  <2>1. bridge' \in Bridge
    <3>1. bridge.feed + 1 \in Nat /\ bridge \in Bridge
      BY DEF TypeOK, Bridge
    <3> QED
      BY <1>3, <3>1 DEF BridgeEdit, Bridge
  <2> QED
    BY <1>3, <2>1 DEF BridgeEdit, TypeOK
<1>4. CASE StrayArrives
  <2>1. PICK q \in stray : StrayArrives!(q)
    BY <1>4 DEF StrayArrives
  <2>2. q.send \subseteq RowIds
    BY DEF TypeOK, Requests
  <2>3. PICK taken \in SUBSET Updates(q.send) :
          bridge' = [Applied(taken) EXCEPT !.history = @ \cup RatingsOf(q.send)]
    BY <2>1
  <2>4. Applied(taken) \in Bridge
    BY <2>2, AppliedType DEF Updates
  <2>5. bridge' \in Bridge
    BY <2>2, <2>3, <2>4 DEF Bridge, RatingsOf
  <2> QED
    BY <1>4, <2>5 DEF StrayArrives, TypeOK
<1> QED
  BY <1>1, <1>2, <1>3, <1>4, TypeChoices DEF Environment

\* The reconcile half of a cycle keeps the types.
LEMMA TypeSend ==
  ASSUME TypeOK, NEW r \in Runtimes, Send(r)
  PROVE  TypeOK'
<1> DEFINE c == cyc[r]
<1>0. c \in Cycle
  BY RowSets
<1>a. NoBase \in [Keys -> Tokens] /\ NoAnswer.cursor \in Nat
      /\ NoAnswer \in [verdict : [RowIds -> Verdicts],
                       token : [Keys -> Tokens], cursor : Nat]
  BY DEF NoBase, NoAnswer, Tokens, NoToken, Verdicts
<1>1. CASE BeginSend(r)
  <2>1. cyc' \in [Runtimes -> Cycle]
    <3> DEFINE sent == IF r = "js" THEN Held(log, c.edits, c.claim) ELSE c.edits
    <3>1. sent \in SUBSET RowIds
      BY <1>0 DEF Cycle, Held
    <3>2. [c EXCEPT !.pc = "checked", !.edits = {}, !.send = sent] \in Cycle
      BY <1>0, <3>1 DEF Cycle
    <3> QED
      BY <1>1, <3>2, ContinueType DEF BeginSend
  <2> QED
    BY <1>1, <2>1 DEF BeginSend, TypeOK
<1>2. CASE IsolateNext(r)
  <2>1. cyc' \in [Runtimes -> Cycle]
    BY <1>0, <1>2, ContinueType DEF IsolateNext, Cycle
  <2> QED
    BY <1>2, <2>1 DEF IsolateNext, TypeOK
<1>3. CASE ReadTokens(r)
  <2>1. cyc' \in [Runtimes -> Cycle]
    BY <1>0, <1>3, ContinueType DEF ReadTokens, Cycle, TypeOK, Tokens, NoToken
  <2> QED
    BY <1>3, <2>1 DEF ReadTokens, TypeOK
<1>4. CASE FetchMissing(r)
  <2>1. cyc' \in [Runtimes -> Cycle]
    <3>1. PICK found, gone \in SUBSET {k \in KeysOf(c.send) : c.base[k] = NoToken} :
            Continue(r, [c EXCEPT !.pc = "fetched", !.gone = gone,
              !.base = [k \in Keys |-> IF k \in found THEN bridge.at[k]
                                                       ELSE c.base[k]]])
      BY <1>4 DEF FetchMissing
    <3>2. KeysOf(c.send) \subseteq Keys
      BY <1>0 DEF KeysOf, Cycle, TypeOK, Row
    <3>3. [k \in Keys |-> IF k \in found THEN bridge.at[k] ELSE c.base[k]]
            \in [Keys -> Tokens]
      BY <1>0 DEF Cycle, TypeOK, Bridge, Tokens
    <3>4. [c EXCEPT !.pc = "fetched", !.gone = gone,
             !.base = [k \in Keys |-> IF k \in found THEN bridge.at[k]
                                                      ELSE c.base[k]]] \in Cycle
      BY <1>0, <3>2, <3>3 DEF Cycle
    <3> QED
      BY <3>1, <3>4, ContinueType
  <2> QED
    BY <1>4, <2>1 DEF FetchMissing, TypeOK
<1>5. CASE StoreFetched(r)
  <2>1. AfterFetch(c) \in Logs
    BY SettleType, GiveKeysUpType DEF AfterFetch, TypeOK, Logs, Statuses, Queued
  <2>2. Sendable(c) \in SUBSET RowIds
    BY <1>0 DEF Sendable, Held, Cycle
  <2>3. cyc' \in [Runtimes -> Cycle]
    BY <1>0, <1>5, <2>2, ContinueType DEF StoreFetched, Cycle
  <2>4. token' \in [Keys -> Tokens]
    BY <1>0, <1>5 DEF StoreFetched, FetchedToken, TypeOK, Cycle
  <2> QED
    BY <1>5, <2>1, <2>3, <2>4 DEF StoreFetched, TypeOK, Logs
<1>6. CASE BridgeAnswers(r)
  <2>1. PICK taken \in SUBSET c.send, verdict \in [c.send -> Verdicts \ {"none"}] :
          /\ bridge' = [Applied(taken) EXCEPT !.shown = @ \cup {i \in c.send : verdict[i] = "shown"}]
          /\ Continue(r, [c EXCEPT !.pc = "answered",
                                   !.answer = Answer(c, verdict, Applied(taken))])
    BY <1>6 DEF BridgeAnswers
  <2> DEFINE after == Applied(taken)
  <2>2. after \in Bridge
    BY <1>0, AppliedType DEF Cycle
  <2> HIDE DEF after
  <2>3. Answer(c, verdict, after)
          \in [verdict : [RowIds -> Verdicts], token : [Keys -> Tokens], cursor : Nat]
    BY <2>2 DEF Answer, Bridge, Tokens, NoToken, Verdicts
  <2>4. cyc' \in [Runtimes -> Cycle]
    <3> DEFINE answer == Answer(c, verdict, after)
    <3>1. Continue(r, [c EXCEPT !.pc = "answered", !.answer = answer])
      BY <2>1 DEF after
    <3> HIDE DEF answer
    <3> QED
      BY <1>0, <2>3, <3>1, ContinueType DEF Cycle, answer
  <2>5. bridge' \in Bridge
    BY <1>0, <2>1, <2>2 DEF after, Bridge, Cycle
  <2> QED
    BY <1>6, <2>4, <2>5 DEF BridgeAnswers, TypeOK
<1>7. CASE ApplyResponse(r)
  <2> DEFINE next == Successors(SettledBy(c),
                       KeysOf(Held(log, ConfirmedBy(c), c.claim)), c.claim)
  <2>1. next \in SUBSET RowIds
    BY SuccessorsType
  <2>2. log' = Take(SettledBy(c), next, c.claim)
        /\ Continue(r, [c EXCEPT !.pc = IF c.isolating THEN "isolating" ELSE "rating",
             !.delivered = c.isolating, !.since = Since(c.answer.cursor),
             !.mine = c.mine \cup next, !.next = c.next \cup next, !.send = {},
             !.base = NoBase, !.answer = NoAnswer])
        /\ token' = [k \in Keys |-> IF k \in TokenKeys(c) THEN c.answer.token[k]
                                                         ELSE token[k]]
    BY <1>7 DEF ApplyResponse
  <2> HIDE DEF next
  <2>3. log' \in Logs
    BY <1>0, <2>2, SettledByType, TakeType DEF Cycle
  <2>4. cyc' \in [Runtimes -> Cycle]
    <3> DEFINE since == Since(c.answer.cursor)
    <3>1. since \in Nat
      BY <1>0 DEF Since, Cycle
    <3>2. Continue(r, [c EXCEPT !.pc = IF c.isolating THEN "isolating" ELSE "rating",
             !.delivered = c.isolating, !.since = since,
             !.mine = c.mine \cup next, !.next = c.next \cup next, !.send = {},
             !.base = NoBase, !.answer = NoAnswer])
      BY <2>2
    <3> HIDE DEF since
    <3> QED
      BY <1>0, <1>a, <2>1, <3>1, <3>2, ContinueType, ZenonT(40) DEF Cycle
  <2>5. token' \in [Keys -> Tokens]
    BY <1>0, <2>2 DEF Cycle, TypeOK
  <2>6. cursor' \in Nat
    BY <1>0, <1>7 DEF ApplyResponse, CursorAfter, Cycle, TypeOK
  <2> QED
    BY <1>7, <2>3, <2>4, <2>5, <2>6 DEF ApplyResponse, TypeOK, Logs
<1>8. CASE RejectRound(r)
  <2>1. cyc' \in [Runtimes -> Cycle]
    BY <1>0, <1>a, <1>8, ContinueType DEF RejectRound, Cycle
  <2> QED
    BY <1>8, <2>1 DEF RejectRound, TypeOK
<1>9. CASE RejectIsolated(r)
  <2>1. cyc' \in [Runtimes -> Cycle]
    BY <1>0, <1>a, <1>9, ContinueType DEF RejectIsolated, Cycle
  <2>2. log' \in Logs
    BY <1>9, SettleType DEF RejectIsolated, TypeOK, Logs, Statuses, GivenUp
  <2> QED
    BY <1>9, <2>1, <2>2 DEF RejectIsolated, TypeOK, Logs
<1>10. CASE RejectLone(r)
  <2>1. cyc' \in [Runtimes -> Cycle]
    BY <1>10, NoCycleType, ContinueType DEF RejectLone
  <2>2. log' \in Logs
    BY <1>10, SettleType DEF RejectLone, TypeOK, Logs, Statuses, Queued, GivenUp
  <2> QED
    BY <1>10, <2>1, <2>2 DEF RejectLone, TypeOK, Logs
<1>11. CASE EndIsolation(r)
  <2>1. cyc' \in [Runtimes -> Cycle]
    BY <1>0, <1>11, ContinueType DEF EndIsolation, Cycle
  <2> QED
    BY <1>11, <2>1 DEF EndIsolation, TypeOK
<1> QED
  BY <1>1, <1>2, <1>3, <1>4, <1>5, <1>6, <1>7, <1>8, <1>9, <1>10, <1>11 DEF Send

\* The season ratings and the end of a cycle keep the types.
LEMMA TypeRate ==
  ASSUME TypeOK, NEW r \in Runtimes, Rate(r)
  PROVE  TypeOK'
<1> DEFINE c == cyc[r]
<1>0. c \in Cycle /\ log \in Logs
  BY RowSets DEF TypeOK, Logs
<1>1. CASE RatingCheck(r)
  <2>1. cyc' \in [Runtimes -> Cycle]
    BY <1>0, <1>1, ContinueType DEF RatingCheck, Cycle
  <2> QED
    BY <1>1, <2>1 DEF RatingCheck, TypeOK
<1>2. CASE RatingArrives(r)
  <2>1. cyc' \in [Runtimes -> Cycle]
    BY <1>0, <1>2, ContinueType DEF RatingArrives, Cycle
  <2>2. bridge' \in Bridge
    BY <1>0, <1>2 DEF RatingArrives, Bridge, Cycle, TypeOK
  <2> QED
    BY <1>2, <2>1, <2>2 DEF RatingArrives, TypeOK
<1>3. CASE RatingDelivered(r)
  <2> DEFINE held   == Held(log, c.send, c.claim)
             synced == Settle(log, c.send, c.claim, "synced")
             after  == Delete(synced, SupersededRatings(synced, held))
             next   == Successors(after, KeysOf(held), c.claim)
  <2>1. next \in SUBSET RowIds
    BY SuccessorsType
  <2>2. after \in Logs
    BY <1>0, SettleType, DeleteType DEF Statuses
  <2>3. log' = Take(after, next, c.claim)
        /\ Continue(r, [c EXCEPT !.pc = "rating", !.send = {},
             !.mine = c.mine \cup next, !.next = c.next \cup next])
    BY <1>3 DEF RatingDelivered
  <2> HIDE DEF next, after
  <2>4. log' \in Logs
    BY <1>0, <2>2, <2>3, TakeType DEF Cycle
  <2>5. cyc' \in [Runtimes -> Cycle]
    BY <1>0, <2>1, <2>3, ContinueType DEF Cycle
  <2> QED
    BY <1>3, <2>4, <2>5 DEF RatingDelivered, TypeOK, Logs
<1>4. CASE RatingRefused(r)
  <2>1. cyc' \in [Runtimes -> Cycle]
    BY <1>0, <1>4, ContinueType DEF RatingRefused, Cycle
  <2>2. log' \in Logs
    BY <1>0, <1>4, SettleType DEF RatingRefused, Statuses, GivenUp
  <2> QED
    BY <1>4, <2>1, <2>2 DEF RatingRefused, TypeOK, Logs
<1>5. CASE RatingUnsettled(r)
  <2>1. cyc' \in [Runtimes -> Cycle]
    BY <1>0, <1>5, ContinueType DEF RatingUnsettled, Cycle
  <2>2. log' \in Logs
    BY <1>0, <1>5, SettleType DEF RatingUnsettled, Statuses, Queued
  <2> QED
    BY <1>5, <2>1, <2>2, AbandonedType DEF RatingUnsettled, TypeOK, Logs
<1> QED
  BY <1>1, <1>2, <1>3, <1>4, <1>5 DEF Rate

\* Every step of a runtime keeps the state well-formed.
LEMMA TypeRuntime ==
  ASSUME TypeOK, NEW r \in Runtimes, Advance(r) \/ EarlyThrow(r) \/ Crash(r)
  PROVE  TypeOK'
<1> DEFINE c == cyc[r]
<1>0. c \in Cycle /\ log \in Logs
  BY RowSets DEF TypeOK, Logs
<1>1. CASE NativeSweep(r)
  <2>1. cyc' \in [Runtimes -> Cycle]
    <3>1. Since(cursor) \in Nat
      BY DEF Since, TypeOK
    <3> QED
      BY <1>0, <1>1, <3>1, ContinueType DEF NativeSweep, Cycle
  <2> QED
    BY <1>0, <1>1, <2>1, ReturnOrphansType DEF NativeSweep, TypeOK, Logs
<1>2. CASE ClaimBatch(r)
  <2> DEFINE claim == [owner |-> r, at |-> clock]
             ids   == Backlog(log, clock)
  <2>1. claim \in Claims
    BY DEF TypeOK, Claims
  <2>2. ids \in SUBSET RowIds
    BY DEF Backlog, OldestQueued
  <2>3. log' \in Logs
    BY <1>0, <1>2, <2>1, TakeType DEF ClaimBatch
  <2> DEFINE since == IF r = "native" THEN cyc[r].since ELSE Since(cursor)
  <2>4. [NoCycle EXCEPT !.pc = "round", !.claim = claim, !.mine = ids,
          !.first = TRUE, !.since = since,
          !.edits = Updates(ids), !.ratings = RatingsOf(ids)]
           \in Cycle
    <3>1. since \in Nat
      BY <1>0 DEF Since, TypeOK, Cycle
    <3> HIDE DEF since, ids, claim
    <3> QED
      BY <2>1, <2>2, <3>1, NoCycleType, RowSets DEF Cycle
  <2>5. cyc' \in [Runtimes -> Cycle]
    BY <1>2, <2>4, ContinueType DEF ClaimBatch
  <2> QED
    BY <1>2, <2>3, <2>5 DEF ClaimBatch, TypeOK, Logs
<1>3. CASE EarlyThrow(r)
  BY <1>3, NoCycleType, ContinueType DEF EarlyThrow, TypeOK
<1>4. CASE EndRound(r)
  <2>1. cyc' \in [Runtimes -> Cycle]
    <3>1. Updates(c.next) \in SUBSET RowIds /\ RatingsOf(c.next) \in SUBSET RowIds
      BY <1>0, RowSets DEF Cycle
    <3>2. [c EXCEPT !.pc = IF Updates(c.next) = {} THEN "rating" ELSE "round",
             !.first = FALSE, !.next = {}, !.edits = Updates(c.next),
             !.ratings = RatingsOf(c.next)] \in Cycle
      BY <1>0, <3>1 DEF Cycle
    <3> QED
      BY <1>4, <3>2, NoCycleType, ContinueType DEF EndRound
  <2> QED
    BY <1>4, <2>1 DEF EndRound, TypeOK
<1>5. CASE FailCycle(r)
  <2>1. log' \in Logs
    BY <1>0, <1>5, SettleType DEF FailCycle, Statuses, Queued
  <2> QED
    BY <1>5, <2>1, NoCycleType, ContinueType, AbandonedType DEF FailCycle, TypeOK, Logs
<1>6. CASE Crash(r)
  BY <1>6, NoCycleType, ContinueType, AbandonedType DEF Crash, TypeOK
<1> QED
  BY <1>1, <1>2, <1>3, <1>4, <1>5, <1>6, TypeSend, TypeRate DEF Advance

\* Every step keeps the types.
LEMMA TypeNext == TypeOK /\ [Next]_vars => TypeOK'
<1> SUFFICES ASSUME TypeOK, [Next]_vars PROVE TypeOK'
  OBVIOUS
<1>1. CASE Next
  BY <1>1, TypeEnvironment, TypeRuntime DEF Next
<1>2. CASE UNCHANGED vars
  BY <1>2 DEF vars, TypeOK
<1> QED
  BY <1>1, <1>2

\* Type correctness: whatever the bridge answers and however the two runtimes
\* interleave, a row's claim has both its parts or neither, and every cycle,
\* answer and abandoned request speaks of rows and tokens that exist.
THEOREM TypeCorrect == Spec => []TypeOK
BY TypeInit, TypeNext, PTL DEF Spec

-----------------------------------------------------------------------------
(* The order of the queue, as a property of one log.  OldestFirst and       *)
(* InOrder are not inductive alone: an insert keeps them only because ids   *)
(* are given out in order, which FillsUp says.  Nor do they hold once the    *)
(* user may queue given-up rows again: an older row then waits behind one    *)
(* whose claim expired and whose answer may still come.                      *)

OldestFirstIn(l) ==
  \A i, j \in RowIds :
    (/\ l[i].status = "processing" /\ l[j].status \in Queued
     /\ l[i].key = l[j].key) => i <= j

InOrderIn(l) ==
  \A i, j \in RowIds :
    (i < j /\ l[i].key = l[j].key /\ l[j].status = "synced")
      => l[i].status \notin Queued

FillsUp(l) ==
  \A i, j \in RowIds : (i < j /\ l[i].status = "absent") => l[j].status = "absent"

BudgetIn(l) == \A i \in RowIds : l[i].status \in Queued => l[i].conflicts < ConflictCap

NeverRequeues == "keep_local" \notin Choices

Ordered(l) == /\ NeverRequeues => OldestFirstIn(l) /\ InOrderIn(l)
              /\ FillsUp(l) /\ BudgetIn(l)

\* What a release may do to a row: let go of one being sent, give up a waiting
\* one, delete one (given up, or any the user gives up on).  No row becomes
\* `processing`.
LetsGo(l, m) ==
  \A i \in RowIds :
    /\ m[i].key = l[i].key
    /\ \/ m[i].conflicts = l[i].conflicts
       \/ m[i].status \in Queued => m[i].conflicts < ConflictCap
    /\ \/ m[i].status = l[i].status
       \/ l[i].status = "processing" /\ m[i].status \in {"pending", "synced"} \cup GivenUp
       \/ l[i].status = "pending" /\ m[i].status \in GivenUp
       \/ l[i].status \in Queued \cup GivenUp /\ m[i].status = "deleted"

\* A row let go of was the oldest of its key, so confirming it is in order.
LEMMA LetsGoOrdered ==
  ASSUME NEW l \in Logs, NEW m \in Logs, Ordered(l), LetsGo(l, m)
  PROVE  Ordered(m)
<1>1. NeverRequeues => OldestFirstIn(m)
  BY DEF Ordered, OldestFirstIn, LetsGo, Queued, GivenUp
<1>2. ASSUME NeverRequeues PROVE InOrderIn(m)
  <2> SUFFICES ASSUME NEW i \in RowIds, NEW j \in RowIds,
                      i < j, m[i].key = m[j].key, m[j].status = "synced"
               PROVE  m[i].status \notin Queued
    BY DEF InOrderIn
  <2>1. l[i].key = l[j].key /\ l[j].status \in {"synced", "processing"}
    BY DEF LetsGo, GivenUp
  <2>2. l[i].status \notin Queued
    <3>1. ~(j <= i)
      BY OperationLogAssumption DEF RowIds
    <3> QED
      BY <1>2, <2>1, <3>1 DEF Ordered, InOrderIn, OldestFirstIn, Queued
  <2> QED
    BY <2>2 DEF LetsGo, Queued, GivenUp
<1>3. FillsUp(m)
  BY DEF Ordered, FillsUp, LetsGo, Queued, GivenUp
<1>4. BudgetIn(m)
  BY DEF Ordered, BudgetIn, LetsGo, Queued, GivenUp
<1> QED
  BY <1>1, <1>2, <1>3, <1>4 DEF Ordered

\* Claiming the oldest queued row of some keys keeps the order.
LEMMA TakeOrdered ==
  ASSUME NEW l \in Logs, Ordered(l), NEW ids \in SUBSET OldestQueued(l), NEW claim
  PROVE  Ordered(Take(l, ids, claim))
<1> DEFINE m == Take(l, ids, claim)
<1>1. \A i \in RowIds :
        /\ m[i].key = l[i].key
        /\ m[i].conflicts = l[i].conflicts
        /\ m[i].status = IF i \in ids THEN "processing" ELSE l[i].status
  BY DEF Take, Logs, Row
<1>2. \A i \in ids : l[i].status \in Queued
  BY DEF OldestQueued
<1>3. \A i \in RowIds : m[i].status \in Queued <=> l[i].status \in Queued
  BY <1>1, <1>2 DEF Queued
<1> HIDE DEF m
<1>4. NeverRequeues => OldestFirstIn(m)
  BY <1>1, <1>3 DEF Ordered, OldestFirstIn, OldestQueued
<1>5. NeverRequeues => InOrderIn(m)
  BY <1>1, <1>3 DEF Ordered, InOrderIn
<1>6. FillsUp(m)
  BY <1>1, <1>2 DEF Ordered, FillsUp, Queued
<1>7. BudgetIn(m)
  BY <1>1, <1>3 DEF Ordered, BudgetIn
<1> QED
  BY <1>4, <1>5, <1>6, <1>7 DEF Ordered, m

\* The statements that let go of rows.
LEMMA SettleLetsGo ==
  ASSUME NEW l \in Logs, NEW ids, NEW claim,
         NEW status \in {"pending", "synced"} \cup GivenUp
  PROVE  LetsGo(l, Settle(l, ids, claim, status))
BY DEF LetsGo, Settle, Held, Logs, Row

\* Writing conflict outcomes only lets rows go.
LEMMA SettleConflictLetsGo ==
  ASSUME NEW l \in Logs, NEW ids, NEW claim, NEW outcome,
         \A i \in ids : outcome[i] \in Outcomes
  PROVE  LetsGo(l, SettleConflict(l, ids, claim, outcome))
<1> SUFFICES ASSUME NEW i \in RowIds
             PROVE  LET m == SettleConflict(l, ids, claim, outcome)
                    IN  /\ m[i].key = l[i].key
                        /\ \/ m[i].conflicts = l[i].conflicts
                           \/ m[i].status \in Queued => m[i].conflicts < ConflictCap
                        /\ \/ m[i].status = l[i].status
                           \/ /\ l[i].status = "processing"
                              /\ m[i].status \in {"pending", "synced"} \cup GivenUp
  BY DEF LetsGo
<1>1. CASE i \in Held(l, ids, claim)
  <2>1. l[i].status = "processing" /\ l[i] \in Row
        /\ outcome[i] \in Outcomes
    BY <1>1 DEF Held, Logs
  <2> QED
    BY <1>1, <2>1 DEF SettleConflict, Outcomes, Row, Queued, GivenUp
<1>2. CASE i \notin Held(l, ids, claim)
  BY <1>2 DEF SettleConflict
<1> QED
  BY <1>1, <1>2

\* Giving keys up only lets rows go.
LEMMA GiveKeysUpLetsGo ==
  ASSUME NEW l \in Logs, NEW keys, NEW ids, NEW claim
  PROVE  LetsGo(l, GiveKeysUp(l, keys, ids, claim))
BY DEF LetsGo, GiveKeysUp, Held, Logs, Row, GivenUp

\* Deleting superseded rows only lets rows go.
LEMMA DeleteLetsGo ==
  ASSUME NEW l \in Logs, NEW ids, \A i \in ids : l[i].status \in GivenUp
  PROVE  LetsGo(l, Delete(l, ids))
BY DEF LetsGo, Delete, Logs, Row

\* The recovery sweep only lets rows go.
LEMMA ReturnOrphansLetsGo ==
  ASSUME NEW l \in Logs, NEW now
  PROVE  LetsGo(l, ReturnOrphans(l, now))
BY DEF LetsGo, ReturnOrphans, Logs, Row

-----------------------------------------------------------------------------
(* The order of the queue, step by step.                                    *)

\* The statements of one answer, in the order the code writes them.
LEMMA SettledByOrdered ==
  ASSUME TypeOK, NEW r \in Runtimes, Ordered(log)
  PROVE  Ordered(SettledBy(cyc[r]))
<1> DEFINE c        == cyc[r]
           outcome  == [i \in Said(c, "conflict") |->
                          ConflictOutcome(log[i], c.base[log[i].key],
                                          c.answer.token[log[i].key])]
           conflict == SettleConflict(log, Said(c, "conflict"), c.claim, outcome)
           dead     == Settle(conflict, Said(c, "unsupported"), c.claim, "dead_letter")
           synced   == Settle(dead, ConfirmedBy(c), c.claim, "synced")
           settled  == Settle(synced, Said(c, "silent"), c.claim, "pending")
           old      == SupersededEdits(settled, Held(log, ConfirmedBy(c), c.claim))
<1>1. log \in Logs
  BY DEF TypeOK, Logs
<1>2. \A i \in Said(c, "conflict") : outcome[i] \in Outcomes
  <2> TAKE i \in Said(c, "conflict")
  <2>1. log[i] \in Row
    BY DEF TypeOK, Said, Cycle
  <2> QED
    BY <2>1, OutcomeType
<1>3. conflict \in Logs /\ Ordered(conflict)
  <2> HIDE DEF outcome
  <2> QED
    BY <1>1, <1>2, SettleConflictType, SettleConflictLetsGo, LetsGoOrdered
<1> HIDE DEF conflict
<1>4. dead \in Logs /\ Ordered(dead)
  BY <1>3, SettleType, SettleLetsGo, LetsGoOrdered DEF Statuses, GivenUp
<1> HIDE DEF dead
<1>5. synced \in Logs /\ Ordered(synced)
  BY <1>4, SettleType, SettleLetsGo, LetsGoOrdered DEF Statuses
<1> HIDE DEF synced
<1>6. settled \in Logs /\ Ordered(settled)
  BY <1>5, SettleType, SettleLetsGo, LetsGoOrdered DEF Statuses, Queued
<1> HIDE DEF settled
<1>7. Ordered(Delete(settled, old))
  <2>1. \A i \in old : settled[i].status \in GivenUp
    BY DEF SupersededEdits
  <2> HIDE DEF old
  <2> QED
    BY <1>6, <2>1, DeleteType, DeleteLetsGo, LetsGoOrdered
<1> QED
  BY <1>7 DEF SettledBy, settled, synced, dead, conflict

\* The chain claims the oldest queued row of each key it goes on with.
LEMMA SuccessorsOldest ==
  ASSUME NEW l, NEW keys, NEW claim
  PROVE  Successors(l, keys, claim) \in SUBSET OldestQueued(l)
BY DEF Successors, ChainSuccessors

\* The reconcile half of a cycle keeps the queue ordered.
LEMMA OrderedSend ==
  ASSUME TypeOK, Ordered(log), NEW r \in Runtimes, Send(r)
  PROVE  Ordered(log')
<1> DEFINE c == cyc[r]
<1>0. log \in Logs
  BY DEF TypeOK, Logs
<1>1. CASE StoreFetched(r)
  <2> DEFINE unreachable == {i \in c.send : /\ c.base[log[i].key] = NoToken
                                           /\ log[i].key \notin c.gone}
             back == Settle(log, unreachable, c.claim, "pending")
  <2>1. back \in Logs /\ Ordered(back)
    <3> HIDE DEF unreachable
    <3> QED
      BY <1>0, SettleType, SettleLetsGo, LetsGoOrdered DEF Statuses, Queued
  <2> HIDE DEF back
  <2>2. Ordered(GiveKeysUp(back, c.gone, c.send, c.claim))
    BY <2>1, GiveKeysUpType, GiveKeysUpLetsGo, LetsGoOrdered
  <2> QED
    BY <1>1, <2>2 DEF StoreFetched, AfterFetch, back
<1>2. CASE ApplyResponse(r)
  BY <1>2, SettledByType, SettledByOrdered, SuccessorsOldest, TakeOrdered
     DEF ApplyResponse
<1>3. CASE RejectIsolated(r)
  BY <1>0, <1>3, SettleType, SettleLetsGo, LetsGoOrdered
     DEF RejectIsolated, Statuses, GivenUp
<1>4. CASE RejectLone(r)
  <2> DEFINE dead == Settle(log, c.send, c.claim, "dead_letter")
  <2>1. dead \in Logs /\ Ordered(dead)
    BY <1>0, SettleType, SettleLetsGo, LetsGoOrdered DEF Statuses, GivenUp
  <2>2. log' = Settle(dead, c.mine, c.claim, "pending")
    BY <1>4 DEF RejectLone
  <2> HIDE DEF dead
  <2> QED
    BY <2>1, <2>2, SettleType, SettleLetsGo, LetsGoOrdered DEF Statuses, Queued
<1>5. CASE BeginSend(r) \/ IsolateNext(r) \/ ReadTokens(r) \/ FetchMissing(r)
           \/ BridgeAnswers(r) \/ RejectRound(r) \/ EndIsolation(r)
  BY <1>5 DEF BeginSend, IsolateNext, ReadTokens, FetchMissing, BridgeAnswers,
              RejectRound, EndIsolation
<1> QED
  BY <1>1, <1>2, <1>3, <1>4, <1>5 DEF Send

\* The season ratings and the end of a cycle keep the queue ordered.
LEMMA OrderedRate ==
  ASSUME TypeOK, Ordered(log), NEW r \in Runtimes, Rate(r)
  PROVE  Ordered(log')
<1> DEFINE c == cyc[r]
<1>0. log \in Logs
  BY DEF TypeOK, Logs
<1>1. CASE RatingDelivered(r)
  <2> DEFINE held   == Held(log, c.send, c.claim)
             synced == Settle(log, c.send, c.claim, "synced")
             old    == SupersededRatings(synced, held)
             after  == Delete(synced, old)
  <2>1. synced \in Logs /\ Ordered(synced)
    BY <1>0, SettleType, SettleLetsGo, LetsGoOrdered DEF Statuses
  <2>2. \A i \in old : synced[i].status \in GivenUp
    BY DEF SupersededRatings, GivenUp
  <2>3. log' = Take(after, Successors(after, KeysOf(held), c.claim), c.claim)
    BY <1>1 DEF RatingDelivered
  <2> HIDE DEF synced, old
  <2>4. after \in Logs /\ Ordered(after)
    BY <2>1, <2>2, DeleteType, DeleteLetsGo, LetsGoOrdered
  <2> HIDE DEF after, held
  <2> QED
    BY <2>3, <2>4, SuccessorsOldest, TakeOrdered
<1>2. CASE RatingRefused(r)
  BY <1>0, <1>2, SettleType, SettleLetsGo, LetsGoOrdered
     DEF RatingRefused, Statuses, GivenUp
<1>3. CASE RatingUnsettled(r)
  BY <1>0, <1>3, SettleType, SettleLetsGo, LetsGoOrdered
     DEF RatingUnsettled, Statuses, Queued
<1>4. CASE RatingCheck(r) \/ RatingArrives(r)
  BY <1>4 DEF RatingCheck, RatingArrives
<1> QED
  BY <1>1, <1>2, <1>3, <1>4 DEF Rate

\* Every step of a runtime keeps the queue ordered.
LEMMA OrderedRuntime ==
  ASSUME TypeOK, Ordered(log), NEW r \in Runtimes,
         Advance(r) \/ EarlyThrow(r) \/ Crash(r)
  PROVE  Ordered(log')
<1>0. log \in Logs
  BY DEF TypeOK, Logs
<1>1. CASE NativeSweep(r)
  BY <1>0, <1>1, ReturnOrphansType, ReturnOrphansLetsGo, LetsGoOrdered DEF NativeSweep
<1>2. CASE ClaimBatch(r)
  <2>1. Backlog(log, clock) \in SUBSET OldestQueued(log)
    BY DEF Backlog
  <2> QED
    BY <1>0, <1>2, <2>1, TakeOrdered DEF ClaimBatch
<1>3. CASE FailCycle(r)
  BY <1>0, <1>3, SettleType, SettleLetsGo, LetsGoOrdered DEF FailCycle, Statuses, Queued
<1>4. CASE EndRound(r) \/ EarlyThrow(r) \/ Crash(r)
  BY <1>4 DEF EndRound, EarlyThrow, Crash
<1> QED
  BY <1>1, <1>2, <1>3, <1>4, OrderedSend, OrderedRate DEF Advance

\* A new row is behind every other row, so it is older than none.
LEMMA OrderedEdit ==
  ASSUME TypeOK, Ordered(log), NEW k \in Keys, NEW kind \in RowKinds, LocalEdit(k, kind)
  PROVE  Ordered(log')
<1>1. PICK i \in RowIds :
        /\ log[i].status = "absent"
        /\ \A j \in RowIds : log[j].status = "absent" => i <= j
        /\ log' = [log EXCEPT ![i] = [status |-> "pending", key |-> k,
                     kind |-> kind, claim |-> NoClaim, conflicts |-> 0]]
  BY DEF LocalEdit
<1>2. \A j \in RowIds : j # i => log'[j] = log[j]
  BY <1>1 DEF TypeOK
<1>3. log'[i].status = "pending" /\ log'[i].key = k /\ log'[i].conflicts = 0
  BY <1>1 DEF TypeOK
<1>4. \A j \in RowIds : j # i /\ log[j].status # "absent" => j < i
  BY <1>1, OperationLogAssumption DEF Ordered, FillsUp, RowIds
<1>5. \A j \in RowIds : log[j].status \in {"synced", "processing"} => j < i
  BY <1>1, <1>4
<1>6. NeverRequeues => OldestFirstIn(log')
  BY <1>2, <1>3, <1>5, OperationLogAssumption DEF Ordered, OldestFirstIn, RowIds
<1>7. NeverRequeues => InOrderIn(log')
  BY <1>2, <1>3, <1>5, OperationLogAssumption DEF Ordered, InOrderIn, RowIds
<1>8. FillsUp(log')
  BY <1>1, <1>2, <1>3, OperationLogAssumption DEF Ordered, FillsUp, RowIds
<1>9. BudgetIn(log')
  BY <1>2, <1>3, OperationLogAssumption DEF Ordered, BudgetIn
<1> QED
  BY <1>6, <1>7, <1>8, <1>9 DEF Ordered

\* Keeping the bridge's state only lets rows go; keeping the local intent queues
\* rows again with a fresh count, behind whatever is queued.
LEMMA OrderedChoices ==
  ASSUME TypeOK, Ordered(log), NEW k \in Keys, NEW kind \in RowKinds,
         KeepLocal(k, kind) \/ KeepBridge(k, kind)
  PROVE  Ordered(log')
<1>0. log \in Logs /\ log' \in Logs
  BY TypeChoices DEF TypeOK, Logs
<1>1. CASE KeepLocal(k, kind)
  <2>1. ~NeverRequeues
    BY <1>1 DEF KeepLocal, NeverRequeues
  <2>2. \A i \in RowIds : \/ log'[i] = log[i]
                          \/ /\ log[i].status \in GivenUp /\ log'[i].status = "pending"
                             /\ log'[i].conflicts = 0
    BY <1>0, <1>1 DEF KeepLocal, Logs, Row
  <2>3. FillsUp(log')
    BY <2>2 DEF Ordered, FillsUp, GivenUp
  <2>4. BudgetIn(log')
    BY <2>2, OperationLogAssumption DEF Ordered, BudgetIn
  <2> QED
    BY <2>1, <2>3, <2>4 DEF Ordered
<1>2. CASE KeepBridge(k, kind)
  <2>1. LetsGo(log, log')
    BY <1>0, <1>2 DEF KeepBridge, LetsGo, Logs, Row
  <2> QED
    BY <1>0, <2>1, LetsGoOrdered
<1> QED
  BY <1>1, <1>2

\* The inductive invariant behind the order of the queue.
QueueOrdered == Ordered(log)

\* The empty queue is ordered.
LEMMA OrderedInit == Init => QueueOrdered
BY DEF QueueOrdered, Init, Ordered, OldestFirstIn, InOrderIn, FillsUp, BudgetIn, AbsentRow, Queued

\* Every step keeps the queue ordered.
LEMMA OrderedNext == TypeOK /\ QueueOrdered /\ [Next]_vars => QueueOrdered'
<1> SUFFICES ASSUME TypeOK, Ordered(log), [Next]_vars PROVE Ordered(log')
  BY DEF QueueOrdered
<1>1. CASE Environment
  <2>1. CASE UNCHANGED log
    BY <2>1
  <2> QED
    BY <1>1, <2>1, OrderedEdit, OrderedChoices DEF Environment, Tick, BridgeEdit, StrayArrives
<1>2. CASE UNCHANGED vars
  BY <1>2 DEF vars
<1> QED
  BY <1>1, <1>2, OrderedRuntime DEF Next

\* R-14: at any time at most one row of an anime is being sent, and it is the
\* oldest one queued, whichever runtime holds it and whatever expired, as long
\* as the user does not queue given-up rows again.
THEOREM SendsOldestFirst ==
  ASSUME "keep_local" \notin Choices
  PROVE  Spec => []OldestFirst
<1>1. QueueOrdered => OldestFirst
  BY DEF NeverRequeues, QueueOrdered, Ordered, OldestFirstIn, OldestFirst
<1> QED
  BY <1>1, TypeInit, TypeNext, OrderedInit, OrderedNext, PTL DEF Spec

\* R-14: no row is confirmed while an older row of its anime still waits, as long
\* as the user does not queue given-up rows again.
THEOREM ConfirmsInOrder ==
  ASSUME "keep_local" \notin Choices
  PROVE  Spec => []InOrder
<1>1. QueueOrdered => InOrder
  BY DEF NeverRequeues, QueueOrdered, Ordered, InOrderIn, InOrder
<1> QED
  BY <1>1, TypeInit, TypeNext, OrderedInit, OrderedNext, PTL DEF Spec

\* R-15: a row that keeps conflicting on one token is never tried again once
\* its count reached the cap, across cycles, claims and runtimes, until the user
\* queues it again with a fresh count.
THEOREM ConflictsAreBounded == Spec => []ConflictBudget
<1>1. QueueOrdered => ConflictBudget
  BY DEF QueueOrdered, Ordered, BudgetIn, ConflictBudget
<1> QED
  BY <1>1, TypeInit, TypeNext, OrderedInit, OrderedNext, PTL DEF Spec

-----------------------------------------------------------------------------
(* The changelog cursor.                                                    *)

\* No step takes the cursor back.
LEMMA CursorStep == TypeOK /\ [Next]_vars => cursor' >= cursor
<1> SUFFICES ASSUME TypeOK, [Next]_vars PROVE cursor' >= cursor
  OBVIOUS
<1>1. cursor \in Nat
  BY DEF TypeOK
<1>2. ASSUME NEW r \in Runtimes, ApplyResponse(r) PROVE cursor' >= cursor
  <2>1. cyc[r].answer.cursor \in Nat
    BY DEF TypeOK, Cycle
  <2> QED
    BY <1>1, <1>2, <2>1 DEF ApplyResponse, CursorAfter
<1>3. ASSUME NEW r \in Runtimes, Send(r), ~ApplyResponse(r) PROVE cursor' = cursor
  BY <1>3 DEF Send, BeginSend, IsolateNext, ReadTokens, FetchMissing, StoreFetched,
              BridgeAnswers, RejectRound, RejectIsolated, RejectLone, EndIsolation
<1>4. ASSUME NEW r \in Runtimes, Rate(r) PROVE cursor' = cursor
  BY <1>4 DEF Rate, RatingCheck, RatingArrives, RatingDelivered, RatingRefused,
              RatingUnsettled
<1>5. ASSUME NEW r \in Runtimes,
             \/ NativeSweep(r) \/ ClaimBatch(r) \/ EndRound(r) \/ FailCycle(r)
             \/ EarlyThrow(r) \/ Crash(r)
      PROVE  cursor' = cursor
  BY <1>5 DEF NativeSweep, ClaimBatch, EndRound, FailCycle, EarlyThrow, Crash
<1>6. ASSUME Environment PROVE cursor' = cursor
  BY <1>6 DEF Environment, LocalEdit, KeepLocal, KeepBridge, Tick, BridgeEdit, StrayArrives
<1>7. ASSUME UNCHANGED vars PROVE cursor' = cursor
  BY <1>7 DEF vars
<1> QED
  BY <1>1, <1>2, <1>3, <1>4, <1>5, <1>6, <1>7 DEF Next, Advance

\* R-6: no step of either runtime, however stale the answer it applies, takes
\* the changelog cursor back.
THEOREM CursorNeverBack == Spec => CursorForwardOnly
<1>1. TypeOK /\ [Next]_vars => [cursor' >= cursor]_vars
  BY CursorStep
<1> QED
  BY <1>1, TypeInit, TypeNext, PTL DEF Spec, CursorForwardOnly

=============================================================================
