------------------------- MODULE OutboxBridgeProofs -------------------------
(* What the outbox and the bridge promise each other, for any number of     *)
(* animes, rows, tokens and cycles, as long as the user leaves rows that    *)
(* were given up alone. No answer takes the token of an anime back. No edit *)
(* the bridge applies replaces a newer one, and whoever sends a row holds   *)
(* it, where no runtime is frozen between its reads and the rounds native   *)
(* chains carry only edits, none of them refused: beside ratings native     *)
(* sends without looking again.                                             *)
EXTENDS OutboxCycleProofs

-----------------------------------------------------------------------------
(* What no step does to the rows, as long as the user leaves those that were *)
(* given up alone: a choice queues rows again and sets tokens back.          *)

LeftAlone == QueueInv /\ Choices = {}

\* The user then only edits.
LEMMA Bystanders ==
  ASSUME LeftAlone, Environment
  PROVE  \/ \E k \in Keys, kind \in RowKinds : LocalEdit(k, kind)
         \/ Tick \/ (\E k \in Keys : BridgeEdit(k)) \/ StrayArrives
<1>1. ASSUME NEW k, NEW kind PROVE ~KeepLocal(k, kind) /\ ~KeepBridge(k, kind)
  BY DEF LeftAlone, KeepLocal, KeepBridge
<1> QED BY <1>1 DEF Environment

\* So a step keeps the invariant.
LEMMA LeftAloneNext == LeftAlone /\ [Next]_vars => LeftAlone'
<1>1. LeftAlone => OldestFirstIn(log)
  BY DEF LeftAlone, QueueInv, QueueOrdered, Ordered, NeverRequeues
<1> QED
  BY <1>1, ShapeNext, OrderedNext, RatingsNext DEF LeftAlone, QueueInv, CycleInv, QueueOrdered

\* From log l to log m no row is lost or changes its anime, none that was dealt with is queued
\* again, and a new row is behind the others.
Stays(l, m) ==
  \A i \in RowIds :
    /\ l[i].status # "absent" =>
         SameIntent(l, m, i) /\ m[i].status # "absent"
         /\ (l[i].status \notin Queued => m[i].status \notin Queued)
    /\ l[i].status = "absent" /\ m[i].status # "absent" =>
         \A j \in RowIds : l[j].status # "absent" => j < i

\* Row j has left the older rows of its anime behind it: none of them waits.
Overtakes(l, j) ==
  /\ l[j].status # "absent"
  /\ \A i \in RowIds : i < j /\ l[i].key = l[j].key => l[i].status \notin Queued

\* Such a row stays ahead: what is behind it is not queued again, and new rows are younger.
LEMMA OvertakesStays ==
  ASSUME NEW l, NEW m, Stays(l, m), NEW j \in RowIds, Overtakes(l, j)
  PROVE  Overtakes(m, j) /\ SameIntent(l, m, j)
<1>1. l[j].status # "absent" /\ SameIntent(l, m, j) /\ m[j].status # "absent"
  BY DEF Stays, Overtakes
<1>2. ASSUME NEW i \in RowIds, i < j, m[i].key = m[j].key
      PROVE  m[i].status \notin Queued
  <2>1. CASE l[i].status = "absent"
    <3>1. m[i].status = "absent"
      BY <1>1, <1>2, <2>1 DEF Stays, RowIds
    <3> QED BY <3>1 DEF Queued
  <2>2. CASE l[i].status # "absent"
    <3>1. l[i].key = l[j].key
      BY <1>1, <1>2, <2>2 DEF Stays, SameIntent
    <3> QED BY <1>2, <2>2, <3>1 DEF Stays, Overtakes
  <2> QED BY <2>1, <2>2
<1> QED BY <1>1, <1>2 DEF Overtakes

\* Every step is one of these.
LEMMA StaysNext == LeftAlone /\ TypeOK' /\ [Next]_vars => Stays(log, log')
<1> SUFFICES ASSUME LeftAlone, TypeOK', [Next]_vars PROVE Stays(log, log')
  OBVIOUS
<1>0. CycleInv /\ TypeOK /\ Ordered(log) /\ OldestFirstIn(log) /\ RatingsAreDeadLetters(log)
  BY DEF LeftAlone, QueueInv, CycleInv, QueueOrdered, Ordered, NeverRequeues
<1>1. CASE UNCHANGED log
  BY <1>1 DEF Stays, SameIntent
<1>2. ASSUME NEW r \in Runtimes, Advance(r) \/ EarlyThrow(r) \/ Crash(r)
      PROVE  Stays(log, log')
  <2>1. QueueStep(log, log')
    BY <1>0, <1>2, RuntimeQueueStep
  <2>2. ASSUME NEW i \in RowIds, log[i].status # "absent"
        PROVE  /\ SameIntent(log, log', i) /\ log'[i].status # "absent"
               /\ log[i].status \notin Queued => log'[i].status \notin Queued
    <3>1. log[i].key \in Keys
      BY <1>0 DEF TypeOK, Row
    <3>2. CASE Fades(log, log', i)
      BY <2>2, <3>2 DEF Fades, SameFate, Queued, GivenUp
    <3>3. ASSUME NEW d \in RowIds, ConfirmsRow(log, log', log[i].key, d)
          PROVE  log'[i].status # "absent" /\ (log[i].status \notin Queued => log'[i].status \notin Queued)
      <4>1. CASE i = d
        BY <3>3, <4>1 DEF ConfirmsRow, Queued
      <4>2. CASE i # d
        BY <2>2, <3>3, <4>2 DEF ConfirmsRow, SameFate, Queued, GivenUp
      <4> QED BY <4>1, <4>2
    <3> QED BY <2>1, <3>1, <3>2, <3>3 DEF QueueStep
  <2> QED BY <2>1, <2>2 DEF QueueStep, Stays
<1>3. ASSUME NEW k \in Keys, NEW kind \in RowKinds, LocalEdit(k, kind) PROVE Stays(log, log')
  <2>1. PICK i \in RowIds :
          /\ log[i].status = "absent"
          /\ \A j \in RowIds : log[j].status = "absent" => i <= j
          /\ log' = [log EXCEPT ![i] = [status |-> "pending", key |-> k,
                       kind |-> kind, claim |-> NoClaim, conflicts |-> 0]]
    BY <1>3 DEF LocalEdit
  <2>2. \A j \in RowIds \ {i} : log'[j] = log[j]
    BY <2>1, <1>0 DEF TypeOK
  <2>3. \A j \in RowIds : log[j].status # "absent" => j < i
    BY <1>0, <2>1, OperationLogAssumption DEF Ordered, FillsUp, RowIds
  <2> QED BY <2>1, <2>2, <2>3 DEF Stays, SameIntent
<1>4. CASE Environment
  BY <1>1, <1>3, <1>4, Bystanders DEF Tick, BridgeEdit, StrayArrives
<1>5. CASE UNCHANGED vars
  BY <1>1, <1>5 DEF vars
<1> QED BY <1>2, <1>4, <1>5 DEF Next

-----------------------------------------------------------------------------
(* R-13: the token of an anime.                                             *)

\* Nothing on the device is ahead of the bridge.
TokensKnown ==
  \A k \in Keys :
    /\ token[k] <= bridge.at[k] /\ bridge.at[k] <= bridge.feed
    /\ \A r \in Runtimes : cyc[r].base[k] <= bridge.at[k] /\ cyc[r].answer.token[k] <= bridge.at[k]
    /\ \A q \in stray : q.base[k] <= bridge.at[k]

\* While a cycle holds a row it has an answer for, the stored token of its anime is none the
\* bridge gave after that answer.
AnswersNewer ==
  \A r \in Runtimes : cyc[r].pc = "answered" =>
    \A i \in Held(log, cyc[r].send, cyc[r].claim) :
       token[log[i].key] <= cyc[r].answer.token[log[i].key]

TokenInv == LeftAlone /\ TokensKnown /\ AnswersNewer

\* Two runtimes hold no two rows of one anime.
LEMMA OneHolder ==
  ASSUME OldestFirstIn(log), NEW i \in RowIds, NEW j \in RowIds,
         log[i].status = "processing", log[j].status = "processing",
         log[i].key = log[j].key
  PROVE  log[i].claim = log[j].claim
<1>1. i <= j /\ j <= i
  BY DEF OldestFirstIn, Queued
<1>2. i = j
  BY <1>1 DEF RowIds
<1> QED BY <1>2

\* A step of r leaves the cycle of the other runtime alone and gives it no row.
LEMMA OtherKeeps ==
  ASSUME CycleInv, CycleInv', NEW r \in Runtimes, Advance(r) \/ EarlyThrow(r) \/ Crash(r),
         NEW q \in Runtimes \ {r}
  PROVE  /\ cyc'[q] = cyc[q]
         /\ cyc[q].pc \notin {"idle", "swept"} =>
              \A i \in cyc[q].send : (log'[i].status = "processing" /\ log'[i].claim = cyc[q].claim)
                 => (log[i].status = "processing" /\ log[i].claim = cyc[q].claim)
<1>1. cyc'[q] = cyc[q]
  <2>1. \E d : Continue(r, d)
    BY DEF Advance, Send, Rate, NativeSweep, ClaimBatch, BeginSend, IsolateNext, ReadTokens,
                    FetchMissing, StoreFetched, BridgeAnswers, ApplyResponse, RejectRound,
                    RejectIsolated, RejectLone, EndIsolation, RatingCheck, RatingArrives,
                    RatingDelivered, RatingRefused, RatingUnsettled, EndRound, FailCycle,
                    EarlyThrow, Crash
  <2> QED BY <2>1 DEF Continue, CycleInv, TypeOK
<1>2. HeldAsBeforeOrByOwn(r)
  <2>1. CASE EarlyThrow(r) \/ Crash(r)
    BY <2>1 DEF EarlyThrow, Crash, HeldAsBeforeOrByOwn
  <2> QED BY <2>1, TakenIsOwn DEF CycleInv
<1>3. cyc[q].pc \notin {"idle", "swept"} => cyc[q].claim.owner = q
  BY DEF CycleInv, InShape, KeepsItsLists
<1>4. cyc'[r].mine # {} => cyc'[r].claim.owner = r
  BY DEF CycleInv, InShape, KeepsItsLists
<1>5. cyc[q].send \subseteq RowIds
  BY DEF CycleInv, TypeOK, Cycle
<1> QED BY <1>1, <1>2, <1>3, <1>4, <1>5 DEF HeldAsBeforeOrByOwn

\* A runtime moves the token of an anime only forward, only to what the bridge gave, and only
\* while it holds a row of it.
LEMMA TokenMoves ==
  ASSUME TokenInv, NEW r \in Runtimes, Advance(r) \/ EarlyThrow(r) \/ Crash(r),
         NEW k \in Keys, token'[k] # token[k]
  PROVE  /\ cyc[r].pc \in {"fetched", "answered"}
         /\ \E i \in RowIds : /\ log[i].status = "processing" /\ log[i].claim = cyc[r].claim
                              /\ log[i].key = k
                              /\ cyc[r].pc = "answered" => i \in cyc[r].send
         /\ cyc[r].pc = "fetched" => token[k] = NoToken
         /\ token[k] <= token'[k] /\ token'[k] <= bridge.at[k]
<1> DEFINE c == cyc[r]
<1>0. CycleInv /\ TypeOK /\ c \in Cycle
  BY DEF TokenInv, LeftAlone, QueueInv, CycleInv, TypeOK
<1>1. StoreFetched(r) \/ ApplyResponse(r)
  BY DEF Advance, Send, Rate, NativeSweep, ClaimBatch, BeginSend, IsolateNext, ReadTokens,
         FetchMissing, BridgeAnswers, RejectRound,
         RejectIsolated, RejectLone, EndIsolation, RatingCheck, RatingArrives,
         RatingDelivered, RatingRefused, RatingUnsettled, EndRound, FailCycle,
         EarlyThrow, Crash
<1>2. token[k] \in Tokens /\ c.base[k] \in Tokens /\ c.answer.token[k] \in Tokens /\ bridge.at[k] \in Nat
  BY <1>0 DEF TypeOK, Cycle, Bridge
<1>3. CASE StoreFetched(r)
  <2>1. c.pc = "fetched" /\ token'[k] = FetchedToken(c, k)
    BY <1>3 DEF StoreFetched
  <2>2. token[k] = NoToken /\ HoldsKey(c, k) /\ token'[k] = c.base[k]
    BY <2>1 DEF FetchedToken
  <2>3. c.base[k] <= bridge.at[k]
    BY DEF TokenInv, TokensKnown
  <2> QED BY <1>2, <2>1, <2>2, <2>3 DEF HoldsKey, Tokens, NoToken
<1>4. CASE ApplyResponse(r)
  <2>1. c.pc = "answered" /\ k \in TokenKeys(c) /\ token'[k] = c.answer.token[k]
    BY <1>4 DEF ApplyResponse
  <2>2. PICK i \in Held(log, Said(c, "applied") \cup Said(c, "conflict"), c.claim) : log[i].key = k
    BY <2>1 DEF TokenKeys, KeysOf
  <2>3. i \in c.send /\ i \in RowIds /\ log[i].status = "processing" /\ log[i].claim = c.claim
    BY <1>0, <2>2 DEF Held, Said, Cycle
  <2>4. token[k] <= c.answer.token[k]
    BY <2>1, <2>2, <2>3 DEF TokenInv, AnswersNewer, Held
  <2>5. c.answer.token[k] <= bridge.at[k]
    BY DEF TokenInv, TokensKnown
  <2> QED BY <2>1, <2>2, <2>3, <2>4, <2>5 DEF NoToken
<1> QED BY <1>1, <1>3, <1>4

\* What the bridge takes in moves its tokens forward, to the end of its feed.
LEMMA AppliedForward ==
  ASSUME TypeOK, NEW ids \in SUBSET RowIds, \A k \in Keys : bridge.at[k] <= bridge.feed,
         NEW k \in Keys
  PROVE  LET after == Applied(ids)
         IN  bridge.at[k] <= after.at[k] /\ after.at[k] <= after.feed
<1> DEFINE written == {i \in ids : ~IsRepeat(i)}
           rowOf(x) == {i \in written : log[i].key = x}
<1>1. bridge.feed \in Nat /\ bridge.at[k] \in Nat /\ bridge.at[k] <= bridge.feed
  BY DEF TypeOK, Bridge
<1>2. written = {} => rowOf(k) = {}
  OBVIOUS
<1>3. /\ Applied(ids).feed = IF written = {} THEN bridge.feed ELSE bridge.feed + 1
      /\ Applied(ids).at[k] = IF rowOf(k) = {} THEN bridge.at[k] ELSE bridge.feed + 1
  BY DEF Applied
<1> HIDE DEF written, rowOf
<1> QED BY <1>1, <1>2, <1>3

\* So does whatever else happens to it.
LEMMA BridgeForward ==
  ASSUME TypeOK, \A k \in Keys : bridge.at[k] <= bridge.feed, [Next]_vars, NEW k \in Keys
  PROVE  bridge.at[k] <= bridge'.at[k] /\ bridge'.at[k] <= bridge'.feed
<1>0. bridge \in Bridge /\ bridge.feed \in Nat /\ bridge.at[k] \in Nat /\ bridge.at[k] <= bridge.feed
  BY DEF TypeOK, Bridge
<1>1. CASE bridge'.at = bridge.at /\ bridge'.feed = bridge.feed
  BY <1>0, <1>1
<1>2. ASSUME NEW x \in Keys, BridgeEdit(x)
      PROVE  bridge.at[k] <= bridge'.at[k] /\ bridge'.at[k] <= bridge'.feed
  <2>1. bridge'.feed = bridge.feed + 1 /\ bridge'.at = [bridge.at EXCEPT ![x] = bridge.feed + 1]
    BY <1>0, <1>2 DEF BridgeEdit, Bridge
  <2> QED BY <1>0, <2>1 DEF Bridge
<1>3. CASE StrayArrives
  <2>1. PICK q \in stray : \E taken \in SUBSET Updates(q.send) :
          bridge' = [Applied(taken) EXCEPT !.history = @ \cup RatingsOf(q.send)]
    BY <1>3 DEF StrayArrives
  <2>2. PICK taken \in SUBSET Updates(q.send) :
          bridge' = [Applied(taken) EXCEPT !.history = @ \cup RatingsOf(q.send)]
    BY <2>1
  <2>3. taken \in SUBSET RowIds
    BY DEF TypeOK, Requests, Updates
  <2>4. bridge'.at = Applied(taken).at /\ bridge'.feed = Applied(taken).feed
    BY <2>2 DEF Applied
  <2> QED BY <2>3, <2>4, AppliedForward
<1>4. ASSUME NEW r \in Runtimes, BridgeAnswers(r)
      PROVE  bridge.at[k] <= bridge'.at[k] /\ bridge'.at[k] <= bridge'.feed
  <2>1. PICK taken, shown \in SUBSET cyc[r].send : bridge' = [Applied(taken) EXCEPT !.shown = @ \cup shown]
    BY <1>4 DEF BridgeAnswers
  <2>2. taken \in SUBSET RowIds
    BY DEF TypeOK, Cycle
  <2>3. bridge'.at = Applied(taken).at /\ bridge'.feed = Applied(taken).feed
    BY <2>1 DEF Applied
  <2> QED BY <2>2, <2>3, AppliedForward
<1>5. ASSUME NEW r \in Runtimes, RatingArrives(r)
      PROVE  bridge'.at = bridge.at /\ bridge'.feed = bridge.feed
  BY <1>0, <1>5 DEF RatingArrives, Bridge
<1>6. ASSUME NEW r \in Runtimes, Advance(r) \/ EarlyThrow(r) \/ Crash(r),
             ~BridgeAnswers(r), ~RatingArrives(r)
      PROVE  bridge' = bridge
  BY <1>6 DEF Advance, Send, Rate, NativeSweep, ClaimBatch, BeginSend, IsolateNext, ReadTokens,
              FetchMissing, StoreFetched, ApplyResponse, RejectRound,
              RejectIsolated, RejectLone, EndIsolation, RatingCheck,
              RatingDelivered, RatingRefused, RatingUnsettled, EndRound, FailCycle,
              EarlyThrow, Crash
<1>7. ASSUME NEW r \in Runtimes, Advance(r) \/ EarlyThrow(r) \/ Crash(r)
      PROVE  bridge.at[k] <= bridge'.at[k] /\ bridge'.at[k] <= bridge'.feed
  BY <1>1, <1>4, <1>5, <1>6, <1>7
<1>8. CASE UNCHANGED bridge
  BY <1>1, <1>8
<1> QED BY <1>2, <1>3, <1>7, <1>8 DEF Next, Environment, KeepLocal, KeepBridge, LocalEdit, Tick, vars

\* The tokens a runtime has read, fetched or been given are known to the bridge.
LEMMA CycleTokens ==
  ASSUME TokenInv, TypeOK', NEW r \in Runtimes, Advance(r) \/ EarlyThrow(r) \/ Crash(r), NEW k \in Keys
  PROVE  cyc'[r].base[k] <= bridge'.at[k] /\ cyc'[r].answer.token[k] <= bridge'.at[k]
<1> DEFINE c == cyc[r]
<1>0. TypeOK /\ c \in Cycle /\ r \in DOMAIN cyc /\ [Next]_vars
  BY DEF TokenInv, LeftAlone, QueueInv, CycleInv, TypeOK, Next
<1>1. /\ bridge.at[k] \in Nat /\ bridge'.at[k] \in Nat /\ bridge.at[k] <= bridge'.at[k]
      /\ c.base[k] <= bridge.at[k] /\ c.answer.token[k] <= bridge.at[k] /\ token[k] <= bridge.at[k]
      /\ c.base[k] \in Tokens /\ c.answer.token[k] \in Tokens /\ token[k] \in Tokens
      /\ NoToken <= bridge'.at[k] /\ NoToken <= bridge.at[k]
  <2>1. bridge.at[k] <= bridge'.at[k]
    BY <1>0, BridgeForward DEF TokenInv, TokensKnown
  <2>2. bridge.at[k] \in Nat /\ bridge'.at[k] \in Nat
    BY <1>0 DEF TypeOK, Bridge
  <2>3. c.base[k] \in Tokens /\ c.answer.token[k] \in Tokens /\ token[k] \in Tokens
    BY <1>0 DEF TypeOK, Cycle
  <2> QED BY <2>1, <2>2, <2>3 DEF TokenInv, TokensKnown, NoToken
<1>2. ASSUME cyc'[r].base[k] \in {c.base[k], token[k], bridge.at[k], NoToken},
             cyc'[r].answer.token[k] \in {c.answer.token[k], bridge'.at[k], NoToken}
      PROVE  cyc'[r].base[k] <= bridge'.at[k] /\ cyc'[r].answer.token[k] <= bridge'.at[k]
  BY <1>1, <1>2 DEF Tokens, NoToken
<1>3. NoCycle.base[k] = NoToken /\ NoCycle.answer.token[k] = NoToken /\ NoBase[k] = NoToken
      /\ NoAnswer.token[k] = NoToken
  BY DEF NoCycle, NoBase, NoAnswer
<1>4. CASE Continue(r, NoCycle)
  <2>1. cyc'[r] = NoCycle
    BY <1>0, <1>4 DEF Continue
  <2> QED BY <1>2, <1>3, <2>1
<1>5. ASSUME NEW d, Continue(r, d), d.base = c.base, d.answer = c.answer
      PROVE  cyc'[r].base[k] <= bridge'.at[k] /\ cyc'[r].answer.token[k] <= bridge'.at[k]
  <2>1. cyc'[r] = d
    BY <1>0, <1>5 DEF Continue
  <2> QED BY <1>2, <1>5, <2>1
<1>6. CASE NativeSweep(r) \/ BeginSend(r) \/ StoreFetched(r) \/ EndIsolation(r) \/ RatingArrives(r)
           \/ RatingRefused(r) \/ RatingUnsettled(r)
  <2>1. CASE NativeSweep(r)
    <3>1. cyc'[r].base = c.base /\ cyc'[r].answer = c.answer
      BY <1>0, <2>1 DEF Continue, Cycle, NativeSweep
    <3> QED BY <1>2, <3>1
  <2>2. CASE BeginSend(r)
    <3>1. cyc'[r].base = c.base /\ cyc'[r].answer = c.answer
      BY <1>0, <2>2 DEF Continue, Cycle, BeginSend
    <3> QED BY <1>2, <3>1
  <2>3. CASE StoreFetched(r)
    <3>1. cyc'[r].base = c.base /\ cyc'[r].answer = c.answer
      BY <1>0, <2>3 DEF Continue, Cycle, StoreFetched
    <3> QED BY <1>2, <3>1
  <2>4. CASE EndIsolation(r)
    <3>1. cyc'[r].base = c.base /\ cyc'[r].answer = c.answer
      BY <1>0, <2>4 DEF Continue, Cycle, EndIsolation
    <3> QED BY <1>2, <3>1
  <2>5. CASE RatingArrives(r)
    <3>1. cyc'[r].base = c.base /\ cyc'[r].answer = c.answer
      BY <1>0, <2>5 DEF Continue, Cycle, RatingArrives
    <3> QED BY <1>2, <3>1
  <2>6. CASE RatingRefused(r)
    <3>1. cyc'[r].base = c.base /\ cyc'[r].answer = c.answer
      BY <1>0, <2>6 DEF Continue, Cycle, RatingRefused
    <3> QED BY <1>2, <3>1
  <2>7. CASE RatingUnsettled(r)
    <3>1. cyc'[r].base = c.base /\ cyc'[r].answer = c.answer
      BY <1>0, <2>7 DEF Continue, Cycle, RatingUnsettled
    <3> QED BY <1>2, <3>1
  <2> QED BY <1>6, <2>1, <2>2, <2>3, <2>4, <2>5, <2>6, <2>7
<1>7. CASE ClaimBatch(r)
  <2>1. cyc'[r].base = NoCycle.base /\ cyc'[r].answer = NoCycle.answer
    <3> DEFINE claim == [owner |-> r, at |-> clock]
               ids == Backlog(log, clock)
               d == [NoCycle EXCEPT !.pc = "round", !.claim = claim, !.mine = ids, !.first = TRUE, !.since = IF r = "native" THEN c.since ELSE Since(cursor),
                                  !.edits = Updates(ids), !.ratings = RatingsOf(ids)]
    <3>1. Continue(r, d)
      BY <1>7 DEF ClaimBatch
    <3> HIDE DEF claim, ids
    <3>2. d.base = NoCycle.base /\ d.answer = NoCycle.answer
      BY DEF NoCycle
    <3> QED BY <1>0, <3>1, <3>2 DEF Continue
  <2> QED BY <1>2, <1>3, <2>1
<1>8. CASE IsolateNext(r) \/ RatingCheck(r) \/ RatingDelivered(r)
  <2>1. CASE IsolateNext(r)
    <3>1. PICK i, pc, send : Continue(r, [c EXCEPT !.edits = c.edits \ {i}, !.pc = pc, !.send = send])
      BY <2>1 DEF IsolateNext
    <3>2. cyc'[r].base = c.base /\ cyc'[r].answer = c.answer
      BY <1>0, <3>1 DEF Continue, Cycle
    <3> QED BY <1>2, <3>2
  <2>2. CASE RatingCheck(r)
    <3>1. PICK i, pc, send : Continue(r, [c EXCEPT !.ratings = c.ratings \ {i}, !.pc = pc, !.send = send])
      BY <2>2 DEF RatingCheck
    <3>2. cyc'[r].base = c.base /\ cyc'[r].answer = c.answer
      BY <1>0, <3>1 DEF Continue, Cycle
    <3> QED BY <1>2, <3>2
  <2>3. CASE RatingDelivered(r)
    <3>1. PICK mine, next : Continue(r, [c EXCEPT !.pc = "rating", !.send = {}, !.mine = mine, !.next = next])
      BY <2>3 DEF RatingDelivered
    <3>2. cyc'[r].base = c.base /\ cyc'[r].answer = c.answer
      BY <1>0, <3>1 DEF Continue, Cycle
    <3> QED BY <1>2, <3>2
  <2> QED BY <1>8, <2>1, <2>2, <2>3
<1>9. CASE ReadTokens(r)
  <2>1. /\ cyc'[r].base[k] = IF k \in KeysOf(c.send) THEN token[k] ELSE NoToken
        /\ cyc'[r].answer = c.answer
    BY <1>0, <1>9 DEF ReadTokens, Continue, Cycle
  <2> QED BY <1>2, <2>1
<1>10. CASE FetchMissing(r)
  <2>1. PICK found, gone : Continue(r, [c EXCEPT !.pc = "fetched", !.gone = gone,
                !.base = [x \in Keys |-> IF x \in found THEN bridge.at[x] ELSE c.base[x]]])
    BY <1>10 DEF FetchMissing
  <2>2. /\ cyc'[r].base[k] = IF k \in found THEN bridge.at[k] ELSE c.base[k]
        /\ cyc'[r].answer = c.answer
    BY <1>0, <2>1 DEF Continue, Cycle
  <2> QED BY <1>2, <2>2
<1>11. CASE BridgeAnswers(r)
  <2>1. PICK verdict, cursor2 :
          Continue(r, [c EXCEPT !.pc = "answered", !.answer =
                    [verdict |-> verdict,
                     token   |-> [x \in Keys |-> IF x \in KeysOf(c.send) THEN bridge'.at[x] ELSE NoToken],
                     cursor  |-> cursor2]])
    <3>1. PICK taken, shown, verdict :
            /\ bridge' = [Applied(taken) EXCEPT !.shown = @ \cup shown]
            /\ Continue(r, [c EXCEPT !.pc = "answered", !.answer = Answer(c, verdict, Applied(taken))])
      BY <1>11 DEF BridgeAnswers
    <3>2. bridge'.at = Applied(taken).at
      BY <3>1 DEF Applied
    <3> QED BY <3>1, <3>2 DEF Answer
  <2>2. /\ cyc'[r].base = c.base
        /\ cyc'[r].answer.token[k] = IF k \in KeysOf(c.send) THEN bridge'.at[k] ELSE NoToken
    BY <1>0, <2>1 DEF Continue, Cycle
  <2> QED BY <1>2, <2>2
<1>12. CASE ApplyResponse(r)
  <2>1. PICK pc, since, mine, next :
          Continue(r, [c EXCEPT !.pc = pc, !.delivered = c.isolating, !.since = since, !.mine = mine,
                   !.next = next, !.send = {}, !.base = NoBase, !.answer = NoAnswer])
    BY <1>12 DEF ApplyResponse
  <2>2. cyc'[r].base = NoBase /\ cyc'[r].answer = NoAnswer
    BY <1>0, <2>1 DEF Continue, Cycle
  <2> QED BY <1>2, <1>3, <2>2
<1>13. CASE RejectRound(r) \/ RejectIsolated(r)
  <2>1. CASE RejectRound(r)
    <3>1. cyc'[r].base = NoBase /\ cyc'[r].answer = c.answer
      BY <1>0, <2>1 DEF RejectRound, Continue, Cycle
    <3> QED BY <1>2, <1>3, <3>1
  <2>2. CASE RejectIsolated(r)
    <3>1. cyc'[r].base = NoBase /\ cyc'[r].answer = c.answer
      BY <1>0, <2>2 DEF RejectIsolated, Continue, Cycle
    <3> QED BY <1>2, <1>3, <3>1
  <2> QED BY <1>13, <2>1, <2>2
<1>14. CASE EndRound(r)
  <2>1. CASE c.next = {}
    BY <1>4, <1>14, <2>1 DEF EndRound
  <2>2. CASE c.next # {}
    <3>1. Continue(r, [c EXCEPT !.pc = IF Updates(c.next) = {} THEN "rating" ELSE "round",
                       !.first = FALSE, !.next = {},
                       !.edits = Updates(c.next), !.ratings = RatingsOf(c.next)])
      BY <1>14, <2>2 DEF EndRound
    <3>2. cyc'[r].base = c.base /\ cyc'[r].answer = c.answer
      BY <1>0, <3>1 DEF Continue, Cycle
    <3> QED BY <1>2, <3>2
  <2> QED BY <2>1, <2>2
<1>15. CASE RejectLone(r) \/ FailCycle(r) \/ EarlyThrow(r) \/ Crash(r)
  BY <1>4, <1>15 DEF RejectLone, FailCycle, EarlyThrow, Crash
<1> QED
  BY <1>6, <1>7, <1>8, <1>9, <1>10, <1>11, <1>12, <1>13, <1>14, <1>15 DEF Advance, Send, Rate

\* A step of r that ends with an answer at hand is the one that got it from the bridge.
LEMMA AnswerIsNew ==
  ASSUME CycleInv, NEW r \in Runtimes, Advance(r) \/ EarlyThrow(r) \/ Crash(r), cyc'[r].pc = "answered"
  PROVE  BridgeAnswers(r)
<1> DEFINE c == cyc[r]
<1>0. TypeOK /\ c \in Cycle /\ r \in DOMAIN cyc /\ NoCycle.pc = "idle"
  BY DEF CycleInv, TypeOK, NoCycle
<1>1. ASSUME Continue(r, NoCycle) PROVE FALSE
  BY <1>0, <1>1 DEF Continue
<1>2. CASE RejectLone(r) \/ FailCycle(r) \/ EarlyThrow(r) \/ Crash(r)
  BY <1>1, <1>2 DEF RejectLone, FailCycle, EarlyThrow, Crash
<1>3. CASE NativeSweep(r)
  BY <1>0, <1>3 DEF NativeSweep, Continue, Cycle
<1>4. CASE ClaimBatch(r)
  <2>1. PICK claim, ids, since : Continue(r, [NoCycle EXCEPT !.pc = "round", !.claim = claim, !.mine = ids,
                                 !.first = TRUE, !.since = since, !.edits = Updates(ids), !.ratings = RatingsOf(ids)])
    BY <1>4 DEF ClaimBatch
  <2> QED BY <1>0, <2>1, NoCycleType DEF Continue, Cycle
<1>5. CASE BeginSend(r)
  <2>1. PICK send : Continue(r, [c EXCEPT !.pc = "checked", !.edits = {}, !.send = send])
    BY <1>5 DEF BeginSend
  <2> QED BY <1>0, <2>1 DEF Continue, Cycle
<1>6. CASE IsolateNext(r)
  <2>1. PICK i, held, send : Continue(r, [c EXCEPT !.edits = c.edits \ {i},
                                !.pc = IF held THEN "checked" ELSE "isolating", !.send = send])
    BY <1>6 DEF IsolateNext
  <2> QED BY <1>0, <2>1 DEF Continue, Cycle
<1>7. CASE ReadTokens(r)
  <2>1. PICK missing, base : Continue(r, [c EXCEPT !.base = base,
                                !.pc = IF missing THEN "fetching" ELSE "posted"])
    BY <1>7 DEF ReadTokens
  <2> QED BY <1>0, <2>1 DEF Continue, Cycle
<1>8. CASE FetchMissing(r)
  <2>1. PICK gone, base : Continue(r, [c EXCEPT !.pc = "fetched", !.gone = gone, !.base = base])
    BY <1>8 DEF FetchMissing
  <2> QED BY <1>0, <2>1 DEF Continue, Cycle
<1>9. CASE StoreFetched(r)
  BY <1>0, <1>9 DEF StoreFetched, Continue, Cycle
<1>10. CASE ApplyResponse(r)
  <2>1. PICK since, mine, next :
          Continue(r, [c EXCEPT !.pc = IF c.isolating THEN "isolating" ELSE "rating", !.delivered = c.isolating, !.since = since, !.mine = mine,
                   !.next = next, !.send = {}, !.base = NoBase, !.answer = NoAnswer])
    BY <1>10 DEF ApplyResponse
  <2> QED BY <1>0, <2>1 DEF Continue, Cycle
<1>11. CASE RejectRound(r)
  BY <1>0, <1>11 DEF RejectRound, Continue, Cycle
<1>12. CASE RejectIsolated(r)
  BY <1>0, <1>12 DEF RejectIsolated, Continue, Cycle
<1>13. CASE EndIsolation(r)
  BY <1>0, <1>13 DEF EndIsolation, Continue, Cycle
<1>14. CASE RatingCheck(r)
  <2>1. PICK i, held, send : Continue(r, [c EXCEPT !.ratings = c.ratings \ {i},
                                !.pc = IF held THEN "rating_posted" ELSE "rating", !.send = send])
    BY <1>14 DEF RatingCheck
  <2> QED BY <1>0, <2>1 DEF Continue, Cycle
<1>15. CASE RatingArrives(r)
  BY <1>0, <1>15 DEF RatingArrives, Continue, Cycle
<1>16. CASE RatingDelivered(r)
  <2>1. PICK mine, next : Continue(r, [c EXCEPT !.pc = "rating", !.send = {}, !.mine = mine, !.next = next])
    BY <1>16 DEF RatingDelivered
  <2> QED BY <1>0, <2>1 DEF Continue, Cycle
<1>17. CASE RatingRefused(r)
  BY <1>0, <1>17 DEF RatingRefused, Continue, Cycle
<1>18. CASE RatingUnsettled(r)
  BY <1>0, <1>18 DEF RatingUnsettled, Continue, Cycle
<1>19. CASE EndRound(r)
  <2>1. CASE c.next = {}
    BY <1>1, <1>19, <2>1 DEF EndRound
  <2>2. CASE c.next # {}
    <3>1. PICK none, edits, ratings :
            Continue(r, [c EXCEPT !.pc = IF none THEN "rating" ELSE "round", !.first = FALSE,
                       !.next = {}, !.edits = edits, !.ratings = ratings])
      BY <1>19, <2>2 DEF EndRound
    <3> QED BY <1>0, <3>1 DEF Continue, Cycle
  <2> QED BY <2>1, <2>2
<1> QED
  BY <1>2, <1>3, <1>4, <1>5, <1>6, <1>7, <1>8, <1>9, <1>10, <1>11, <1>12, <1>13, <1>14, <1>15, <1>16,
     <1>17, <1>18, <1>19 DEF Advance, Send, Rate

\* What is under way without a sender was under way before, or is what r just left.
LEMMA StrayGrows ==
  ASSUME TypeOK, NEW r \in Runtimes, Advance(r) \/ EarlyThrow(r) \/ Crash(r), NEW q \in stray', q \notin stray
  PROVE  cyc[r].pc \in {"posted", "rating_posted"} /\ q = [send |-> cyc[r].send, base |-> cyc[r].base]
<1>1. stray' = stray \/ stray' = Abandoned(cyc[r])
  BY DEF Advance, Send, Rate, NativeSweep, ClaimBatch, BeginSend, IsolateNext, ReadTokens,
         FetchMissing, StoreFetched, BridgeAnswers, ApplyResponse, RejectRound,
         RejectIsolated, RejectLone, EndIsolation, RatingCheck, RatingArrives,
         RatingDelivered, RatingRefused, RatingUnsettled, EndRound, FailCycle, EarlyThrow, Crash
<1> QED BY <1>1 DEF Abandoned

\* The bridge knows every token of the device after a step, too.
LEMMA KnownNext == TokenInv /\ CycleInv' /\ [Next]_vars => TokensKnown'
<1> SUFFICES ASSUME TokenInv, CycleInv', [Next]_vars, NEW k \in Keys
             PROVE  /\ token'[k] <= bridge'.at[k] /\ bridge'.at[k] <= bridge'.feed
                    /\ \A r \in Runtimes : /\ cyc'[r].base[k] <= bridge'.at[k]
                                           /\ cyc'[r].answer.token[k] <= bridge'.at[k]
                    /\ \A q \in stray' : q.base[k] <= bridge'.at[k]
  BY DEF TokensKnown
<1>0. TypeOK /\ TypeOK' /\ CycleInv
  BY DEF TokenInv, LeftAlone, QueueInv, CycleInv
<1>1. bridge.at[k] <= bridge'.at[k] /\ bridge'.at[k] <= bridge'.feed
  BY <1>0, BridgeForward DEF TokenInv, TokensKnown
<1>2. ASSUME NEW t \in Tokens, t <= bridge.at[k] PROVE t <= bridge'.at[k]
  <2>1. bridge.at[k] \in Nat /\ bridge'.at[k] \in Nat
    BY <1>0 DEF TypeOK, Bridge
  <2> QED BY <1>1, <1>2, <2>1 DEF Tokens, NoToken
<1>3. /\ token[k] \in Tokens /\ token[k] <= bridge.at[k]
      /\ \A r \in Runtimes : /\ cyc[r].base[k] \in Tokens /\ cyc[r].answer.token[k] \in Tokens
                             /\ cyc[r].base[k] <= bridge.at[k] /\ cyc[r].answer.token[k] <= bridge.at[k]
      /\ \A q \in stray : q.base[k] \in Tokens /\ q.base[k] <= bridge.at[k]
  BY <1>0 DEF TypeOK, Cycle, Requests, TokenInv, TokensKnown
<1>4. CASE Environment \/ UNCHANGED vars
  <2>1. token' = token /\ cyc' = cyc /\ stray' \subseteq stray
    BY <1>4, Bystanders DEF TokenInv, LocalEdit, Tick, BridgeEdit, StrayArrives, vars
  <2> QED BY <1>1, <1>2, <1>3, <2>1
<1>5. ASSUME NEW r \in Runtimes, Advance(r) \/ EarlyThrow(r) \/ Crash(r)
      PROVE  /\ token'[k] <= bridge'.at[k]
             /\ \A q \in Runtimes : /\ cyc'[q].base[k] <= bridge'.at[k]
                                    /\ cyc'[q].answer.token[k] <= bridge'.at[k]
             /\ \A q \in stray' : q.base[k] <= bridge'.at[k]
  <2>1. token'[k] <= bridge'.at[k]
    <3>1. CASE token'[k] = token[k]
      BY <1>2, <1>3, <3>1
    <3>2. CASE token'[k] # token[k]
      <4>1. token'[k] <= bridge.at[k]
        BY <1>5, <3>2, TokenMoves
      <4>2. token'[k] \in Tokens
        BY <1>0 DEF TypeOK
      <4> QED BY <1>2, <4>1, <4>2
    <3> QED BY <3>1, <3>2
  <2>2. ASSUME NEW q \in Runtimes
        PROVE  cyc'[q].base[k] <= bridge'.at[k] /\ cyc'[q].answer.token[k] <= bridge'.at[k]
    <3>1. CASE q = r
      BY <1>0, <1>5, <3>1, CycleTokens
    <3>2. CASE q # r
      <4>1. cyc'[q] = cyc[q]
        BY <1>0, <1>5, <3>2, OtherKeeps
      <4> QED BY <1>2, <1>3, <4>1
    <3> QED BY <3>1, <3>2
  <2>3. ASSUME NEW q \in stray' PROVE q.base[k] <= bridge'.at[k]
    <3>1. CASE q \in stray
      BY <1>2, <1>3, <3>1
    <3>2. CASE q \notin stray
      <4>1. q = [send |-> cyc[r].send, base |-> cyc[r].base]
        BY <1>0, <1>5, <2>3, <3>2, StrayGrows
      <4>2. q.base = cyc[r].base
        BY <4>1
      <4> QED BY <1>2, <1>3, <4>2
    <3> QED BY <3>1, <3>2
  <2> QED BY <2>1, <2>2, <2>3
<1> QED BY <1>1, <1>4, <1>5 DEF Next

\* No step puts a stored token ahead of an answer that is still to be applied.
LEMMA AnswersNext == TokenInv /\ LeftAlone' /\ [Next]_vars => AnswersNewer'
<1> SUFFICES ASSUME TokenInv, LeftAlone', [Next]_vars, NEW q \in Runtimes, cyc'[q].pc = "answered",
                    NEW i \in Held(log', cyc'[q].send, cyc'[q].claim)
             PROVE  token'[log'[i].key] <= cyc'[q].answer.token[log'[i].key]
  BY DEF AnswersNewer
<1>0. TypeOK /\ TypeOK' /\ CycleInv /\ CycleInv' /\ LeftAlone
  BY DEF TokenInv, LeftAlone, QueueInv, CycleInv
<1>1. /\ i \in RowIds /\ i \in cyc'[q].send
      /\ log'[i].status = "processing" /\ log'[i].claim = cyc'[q].claim
  BY <1>0 DEF Held, TypeOK, Cycle
<1>2. Stays(log, log')
  BY <1>0, StaysNext
<1>3. ASSUME cyc'[q] = cyc[q], log[i].status = "processing", log[i].claim = cyc[q].claim,
             token'[log[i].key] = token[log[i].key]
      PROVE  token'[log'[i].key] <= cyc'[q].answer.token[log'[i].key]
  <2>1. log'[i].key = log[i].key
    BY <1>1, <1>2, <1>3 DEF Stays, SameIntent
  <2> QED BY <1>1, <1>3, <2>1 DEF TokenInv, AnswersNewer, Held
<1>4. CASE Environment \/ UNCHANGED vars
  <2>1. token' = token /\ cyc' = cyc
    BY <1>0, <1>4, Bystanders DEF LocalEdit, Tick, BridgeEdit, StrayArrives, vars
  <2>2. log'[i] = log[i]
    <3>1. CASE log' = log
      BY <3>1
    <3>2. ASSUME NEW k \in Keys, NEW kind \in RowKinds, LocalEdit(k, kind) PROVE log'[i] = log[i]
      BY <1>0, <1>1, <3>2 DEF LocalEdit, TypeOK
    <3> QED BY <1>0, <1>4, <3>1, <3>2, Bystanders DEF Tick, BridgeEdit, StrayArrives, vars
  <2> QED BY <1>1, <1>3, <2>1, <2>2
<1>5. ASSUME NEW r \in Runtimes, Advance(r) \/ EarlyThrow(r) \/ Crash(r)
      PROVE  token'[log'[i].key] <= cyc'[q].answer.token[log'[i].key]
  <2>1. CASE q = r
    <3>1. BridgeAnswers(r)
      BY <1>0, <1>5, <2>1, AnswerIsNew
    <3>2. token' = token /\ log' = log
      BY <3>1 DEF BridgeAnswers
    <3>3. /\ cyc'[r].send = cyc[r].send
          /\ \A k \in KeysOf(cyc[r].send) : cyc'[r].answer.token[k] = bridge'.at[k]
      <4>1. PICK verdict, cursor2 :
              Continue(r, [cyc[r] EXCEPT !.pc = "answered", !.answer =
                        [verdict |-> verdict,
                         token   |-> [x \in Keys |-> IF x \in KeysOf(cyc[r].send) THEN bridge'.at[x] ELSE NoToken],
                         cursor  |-> cursor2]])
        <5>1. PICK taken, shown, verdict :
                /\ bridge' = [Applied(taken) EXCEPT !.shown = @ \cup shown]
                /\ Continue(r, [cyc[r] EXCEPT !.pc = "answered",
                                              !.answer = Answer(cyc[r], verdict, Applied(taken))])
          BY <3>1 DEF BridgeAnswers
        <5>2. bridge'.at = Applied(taken).at
          BY <5>1 DEF Applied
        <5> QED BY <5>1, <5>2 DEF Answer
      <4>2. KeysOf(cyc[r].send) \subseteq Keys
        BY <1>0 DEF KeysOf, TypeOK, Cycle, Row
      <4>3. cyc[r] \in Cycle /\ r \in DOMAIN cyc
        BY <1>0 DEF TypeOK
      <4>4. /\ cyc'[r].send = cyc[r].send
            /\ cyc'[r].answer.token =
                 [x \in Keys |-> IF x \in KeysOf(cyc[r].send) THEN bridge'.at[x] ELSE NoToken]
        BY <4>1, <4>3 DEF Continue, Cycle
      <4> QED BY <4>2, <4>4
    <3>4. log[i].key \in Keys /\ log[i].key \in KeysOf(cyc[r].send)
      BY <1>0, <1>1, <2>1, <3>2, <3>3 DEF KeysOf, TypeOK, Row
    <3>5. token[log[i].key] <= bridge'.at[log[i].key]
      <4>1. token'[log[i].key] <= bridge'.at[log[i].key]
        BY <1>0, <3>4, KnownNext DEF TokensKnown
      <4> QED BY <3>2, <4>1
    <3> QED BY <2>1, <3>2, <3>3, <3>4, <3>5
  <2>2. CASE q # r
    <3>1. cyc'[q] = cyc[q]
      BY <1>0, <1>5, <2>2, OtherKeeps
    <3>2. log[i].status = "processing" /\ log[i].claim = cyc[q].claim
      BY <1>0, <1>1, <1>5, <2>2, <3>1, OtherKeeps
    <3>3. log[i].key \in Keys
      BY <1>0, <1>1 DEF TypeOK, Row
    <3>4. ASSUME token'[log[i].key] # token[log[i].key] PROVE FALSE
      <4>1. PICK j \in RowIds : /\ log[j].status = "processing" /\ log[j].claim = cyc[r].claim
                                /\ log[j].key = log[i].key
        BY <1>5, <3>3, <3>4, TokenMoves
      <4>2. cyc[r].pc \in {"fetched", "answered"}
        BY <1>5, <3>3, <3>4, TokenMoves
      <4>3. OldestFirstIn(log)
        BY <1>0 DEF LeftAlone, QueueInv, QueueOrdered, Ordered, NeverRequeues
      <4>4. cyc[q].claim = cyc[r].claim
        BY <1>1, <3>2, <4>1, <4>3, OneHolder
      <4>5. cyc[q].claim.owner = q /\ cyc[r].claim.owner = r
        BY <1>0, <3>1, <4>2 DEF CycleInv, InShape, KeepsItsLists
      <4> QED BY <2>2, <4>4, <4>5
    <3> QED BY <1>3, <3>1, <3>2, <3>4
  <2> QED BY <2>1, <2>2
<1> QED BY <1>4, <1>5 DEF Next

\* No step takes a token back.
LEMMA TokenStep == TokenInv /\ [Next]_vars => \A k \in Keys : token'[k] >= token[k]
<1> SUFFICES ASSUME TokenInv, [Next]_vars, NEW k \in Keys PROVE token'[k] >= token[k]
  OBVIOUS
<1>1. token[k] \in Tokens
  BY DEF TokenInv, LeftAlone, QueueInv, CycleInv, TypeOK
<1>2. CASE token'[k] = token[k]
  BY <1>1, <1>2 DEF Tokens, NoToken
<1>3. ASSUME NEW r \in Runtimes, Advance(r) \/ EarlyThrow(r) \/ Crash(r), token'[k] # token[k]
      PROVE  token'[k] >= token[k]
  <2>1. token[k] <= token'[k]
    BY <1>3, TokenMoves
  <2>2. token'[k] \in Tokens
    BY TypeNext DEF TokenInv, LeftAlone, QueueInv, CycleInv, TypeOK
  <2> QED BY <1>1, <2>1, <2>2 DEF Tokens, NoToken
<1>4. CASE Environment \/ UNCHANGED vars
  BY <1>2, <1>4, Bystanders DEF TokenInv, LocalEdit, Tick, BridgeEdit, StrayArrives, vars
<1> QED BY <1>2, <1>3, <1>4 DEF Next

\* Before anything happened the bridge gave no token.
LEMMA TokenInit == Init => TokensKnown /\ AnswersNewer
<1> SUFFICES ASSUME Init PROVE TokensKnown /\ AnswersNewer
  OBVIOUS
<1>1. \A k \in Keys : token[k] \in {NoToken, 0} /\ bridge.at[k] = 0 /\ bridge.feed = 0
  BY DEF Init
<1>2. \A r \in Runtimes : cyc[r] = NoCycle
  BY DEF Init
<1>3. NoCycle.pc = "idle" /\ \A k \in Keys : NoCycle.base[k] = -1 /\ NoCycle.answer.token[k] = -1
  BY DEF NoCycle, NoBase, NoAnswer, NoToken
<1>4. stray = {}
  BY DEF Init
<1>5. TokensKnown
  BY <1>1, <1>2, <1>3, <1>4 DEF TokensKnown, NoToken
<1>6. AnswersNewer
  BY <1>2, <1>3 DEF AnswersNewer
<1> QED BY <1>5, <1>6

\* R-13: the stored token of an anime only moves forward, whichever runtime writes it and however
\* late its answer comes: while an answer can still be written its sender holds the row, and then
\* nobody else writes that token. (A user who keeps the bridge's state, or queues an edit again,
\* sets it back on purpose.)
THEOREM TokensForward ==
  ASSUME Choices = {}
  PROVE  Spec => TokenForwardOnly
<1>1. Init => TokenInv
  BY ShapeInit, OrderedInit, TokenInit DEF TokenInv, LeftAlone, QueueInv, Init, RatingsAreDeadLetters, AbsentRow
<1>2. TokenInv /\ [Next]_vars => TokenInv'
  BY LeftAloneNext, KnownNext, AnswersNext DEF TokenInv, LeftAlone, QueueInv, CycleInv
<1>3. TokenInv /\ [Next]_vars => [\A k \in Keys : token'[k] >= token[k]]_vars
  BY TokenStep
<1> QED BY <1>1, <1>2, <1>3, PTL DEF Spec, TokenForwardOnly

-----------------------------------------------------------------------------
(* What a step does to the lists of its cycle.                              *)

\* Row i is held in log m by cycle d.
Holds(m, d, i) == m[i].status = "processing" /\ m[i].claim = d.claim

StandsStill(c, d) ==
  /\ d.edits = c.edits /\ d.ratings = c.ratings /\ d.send = c.send /\ d.next = c.next
  /\ \/ /\ d.isolating = c.isolating
        /\ <<c.pc, d.pc>> \in {<<"idle", "swept">>, <<"checked", "fetching">>, <<"checked", "posted">>,
             <<"fetching", "fetched">>, <<"posted", "answered">>, <<"rating_posted", "rating_answered">>}
     \/ c.pc = "isolating" /\ d.pc = "rating" /\ ~d.isolating

StartsRound(m, c, d) ==
  /\ d.pc = "round" /\ ~d.isolating /\ d.send = {} /\ d.next = {} /\ d.edits \cap d.ratings = {}
  /\ \A i \in d.edits \cup d.ratings : Holds(m, d, i)

ChoosesEdits(r, m, c, d) ==
  /\ d.ratings = c.ratings /\ d.next = c.next /\ d.isolating = c.isolating
  /\ d.edits \subseteq c.edits /\ d.send \subseteq c.edits \ d.edits
  /\ \/ c.pc = "round" /\ d.pc = "checked"
     \/ c.pc = "isolating" /\ d.pc \in {"checked", "isolating"}
  /\ r # "native" \/ c.pc = "isolating" => \A i \in d.send : Holds(m, d, i)

ChoosesRating(c, d) ==
  /\ c.pc = "rating" /\ d.pc \in {"rating", "rating_posted"} /\ c.ratings # {}
  /\ d.edits = c.edits /\ d.next = c.next /\ d.isolating = c.isolating
  /\ d.ratings \subseteq c.ratings /\ d.send \subseteq c.ratings \ d.ratings

Drops(c, d) ==
  /\ d.edits = c.edits /\ d.ratings = c.ratings /\ d.next = c.next /\ d.isolating = c.isolating
  /\ d.send \subseteq c.send
  /\ \/ c.pc = "fetched" /\ d.pc = "posted"
     \/ c.pc = "posted" /\ d.pc = "isolating" /\ "reject" \in Refusals
     \/ c.pc \in {"rating_posted", "rating_answered"} /\ d.pc = "rating"

SplitsUp(c, d) ==
  /\ "reject" \in Refusals /\ d.pc = "isolating"
  /\ d.edits = c.send /\ d.send = {} /\ d.ratings = c.ratings /\ d.next = c.next

Confirms(m, c, d) ==
  /\ c.pc \in {"answered", "rating_answered"} /\ d.pc \in {"isolating", "rating"}
  /\ d.pc = "isolating" => c.isolating
  /\ d.isolating = c.isolating /\ d.edits = c.edits /\ d.ratings = c.ratings /\ d.send = {}
  /\ \A i \in d.next : i \in c.next \/ (Holds(m, d, i) /\ m[i].key \in KeysOf(c.send))

TurnsOver(c, d) ==
  /\ c.pc = "rating" /\ d.pc \in {"rating", "round"} /\ d.isolating = c.isolating
  /\ d.edits = Updates(c.next) /\ d.ratings = RatingsOf(c.next) /\ d.send = {} /\ d.next = {}

Moves(r, m, c, d) ==
  \/ StandsStill(c, d)
  \/ d = NoCycle
  \/ StartsRound(m, c, d)
  \/ ChoosesEdits(r, m, c, d)
  \/ ChoosesRating(c, d)
  \/ Drops(c, d)
  \/ SplitsUp(c, d)
  \/ Confirms(m, c, d)
  \/ TurnsOver(c, d)

\* A row taken under a claim is held by it.
LEMMA TakeHolds ==
  ASSUME NEW l \in Logs, NEW ids \in SUBSET RowIds, NEW claim, NEW i \in ids
  PROVE  LET m == Take(l, ids, claim)
         IN  m[i].status = "processing" /\ m[i].claim = claim /\ m[i].key = l[i].key
BY DEF Take, Logs, Row

\* Every step of a runtime does one of these.
LEMMA RuntimeMoves ==
  ASSUME CycleInv, TypeOK', NEW r \in Runtimes, Advance(r) \/ EarlyThrow(r) \/ Crash(r)
  PROVE  Moves(r, log', cyc[r], cyc'[r])
<1> DEFINE c == cyc[r]
           d == cyc'[r]
<1>0. /\ TypeOK /\ c \in Cycle /\ r \in DOMAIN cyc /\ log \in Logs /\ NoCycle \in Cycle
      /\ InShape(log, Evidence, r, c)
  BY NoCycleType DEF CycleInv, TypeOK, Logs
<1>1. ASSUME NEW x, Continue(r, x) PROVE d = x
  BY <1>0, <1>1 DEF Continue
<1>2. CASE RejectLone(r) \/ FailCycle(r) \/ EarlyThrow(r) \/ Crash(r)
  <2>1. d = NoCycle
    BY <1>1, <1>2 DEF RejectLone, FailCycle, EarlyThrow, Crash
  <2> QED BY <2>1 DEF Moves
<1>3. CASE NativeSweep(r)
  <2>1. c.pc = "idle" /\ d = [c EXCEPT !.pc = "swept", !.since = Since(cursor)]
    BY <1>1, <1>3 DEF NativeSweep
  <2>2. StandsStill(c, d)
    BY <1>0, <2>1 DEF StandsStill, Cycle
  <2> QED BY <2>2 DEF Moves
<1>4. CASE ClaimBatch(r)
  <2> DEFINE claim == [owner |-> r, at |-> clock]
             ids   == Backlog(log, clock)
             since == IF r = "native" THEN c.since ELSE Since(cursor)
  <2>1. /\ log' = Take(log, ids, claim)
        /\ d = [NoCycle EXCEPT !.pc = "round", !.claim = claim, !.mine = ids, !.first = TRUE,
                               !.since = since, !.edits = Updates(ids), !.ratings = RatingsOf(ids)]
    BY <1>1, <1>4 DEF ClaimBatch
  <2>2. ids \in SUBSET RowIds
    BY DEF Backlog, OldestQueued
  <2>3. \A i \in ids : log'[i].status = "processing" /\ log'[i].claim = claim
    BY <1>0, <2>1, <2>2, TakeHolds
  <2> HIDE DEF claim, ids, since
  <2>4. /\ d.pc = "round" /\ ~d.isolating /\ d.send = {} /\ d.next = {} /\ d.claim = claim
        /\ d.edits = Updates(ids) /\ d.ratings = RatingsOf(ids)
    BY <2>1 DEF NoCycle
  <2>5. StartsRound(log', c, d)
    BY <2>3, <2>4 DEF StartsRound, Holds, Updates, RatingsOf
  <2> QED BY <2>5 DEF Moves
<1>5. CASE BeginSend(r)
  <2> DEFINE send == IF r = "js" THEN Held(log, c.edits, c.claim) ELSE c.edits
  <2>1. c.pc = "round" /\ log' = log /\ d = [c EXCEPT !.pc = "checked", !.edits = {}, !.send = send]
    BY <1>1, <1>5 DEF BeginSend
  <2>2. send \subseteq c.edits /\ (r # "native" => \A i \in send : log[i].status = "processing" /\ log[i].claim = c.claim)
    BY OperationLogAssumption DEF Held
  <2> HIDE DEF send
  <2>3. /\ d.pc = "checked" /\ d.edits = {} /\ d.send = send /\ d.ratings = c.ratings /\ d.next = c.next
        /\ d.isolating = c.isolating /\ d.claim = c.claim
    BY <1>0, <2>1 DEF Cycle
  <2>4. ChoosesEdits(r, log', c, d)
    BY <2>1, <2>2, <2>3 DEF ChoosesEdits, Holds
  <2> QED BY <2>4 DEF Moves
<1>6. CASE IsolateNext(r)
  <2>1. PICK i \in c.edits : LET isHeld == Held(log, {i}, c.claim) # {}
          IN  Continue(r, [c EXCEPT !.edits = c.edits \ {i},
                 !.pc   = IF isHeld THEN "checked" ELSE "isolating",
                 !.send = IF isHeld THEN {i} ELSE {}])
    BY <1>6 DEF IsolateNext
  <2> DEFINE isHeld == Held(log, {i}, c.claim) # {}
             pc     == IF isHeld THEN "checked" ELSE "isolating"
             send   == IF isHeld THEN {i} ELSE {}
  <2>2. d = [c EXCEPT !.edits = c.edits \ {i}, !.pc = pc, !.send = send]
    BY <1>1, <2>1
  <2>3. /\ send \subseteq {i} /\ pc \in {"checked", "isolating"}
        /\ \A x \in send : log[x].status = "processing" /\ log[x].claim = c.claim
    BY DEF Held
  <2> HIDE DEF send, pc
  <2>4. c.pc = "isolating" /\ log' = log
    BY <1>6 DEF IsolateNext
  <2>5. /\ d.pc = pc /\ d.edits = c.edits \ {i} /\ d.send = send /\ d.ratings = c.ratings /\ d.next = c.next
        /\ d.isolating = c.isolating /\ d.claim = c.claim
    BY <1>0, <2>2 DEF Cycle
  <2>6. ChoosesEdits(r, log', c, d)
    BY <2>3, <2>4, <2>5 DEF ChoosesEdits, Holds
  <2> QED BY <2>6 DEF Moves
<1>7. CASE ReadTokens(r)
  <2> DEFINE pc == IF \E k \in KeysOf(c.send) : token[k] = NoToken THEN "fetching" ELSE "posted"
             base == [k \in Keys |-> IF k \in KeysOf(c.send) THEN token[k] ELSE NoToken]
  <2>1. c.pc = "checked" /\ d = [c EXCEPT !.base = base, !.pc = pc]
    BY <1>1, <1>7 DEF ReadTokens
  <2>2. pc \in {"fetching", "posted"}
    OBVIOUS
  <2> HIDE DEF pc, base
  <2>3. StandsStill(c, d)
    BY <1>0, <2>1, <2>2 DEF StandsStill, Cycle
  <2> QED BY <2>3 DEF Moves
<1>8. CASE FetchMissing(r)
  <2>1. PICK gone, base : Continue(r, [c EXCEPT !.pc = "fetched", !.gone = gone, !.base = base])
    BY <1>8 DEF FetchMissing
  <2>2. c.pc = "fetching" /\ d = [c EXCEPT !.pc = "fetched", !.gone = gone, !.base = base]
    BY <1>1, <1>8, <2>1 DEF FetchMissing
  <2>3. StandsStill(c, d)
    BY <1>0, <2>2 DEF StandsStill, Cycle
  <2> QED BY <2>3 DEF Moves
<1>9. CASE StoreFetched(r)
  <2>1. c.pc = "fetched" /\ d = [c EXCEPT !.pc = "posted", !.gone = {}, !.send = Sendable(c)]
    BY <1>1, <1>9 DEF StoreFetched
  <2>2. Sendable(c) \subseteq c.send
    BY DEF Sendable, Held
  <2>3. Drops(c, d)
    BY <1>0, <2>1, <2>2 DEF Drops, Cycle
  <2> QED BY <2>3 DEF Moves
<1>10. CASE BridgeAnswers(r)
  <2>1. PICK answer : Continue(r, [c EXCEPT !.pc = "answered", !.answer = answer])
    BY <1>10 DEF BridgeAnswers
  <2>2. c.pc = "posted" /\ d = [c EXCEPT !.pc = "answered", !.answer = answer]
    BY <1>1, <1>10, <2>1 DEF BridgeAnswers
  <2>3. StandsStill(c, d)
    BY <1>0, <2>2 DEF StandsStill, Cycle
  <2> QED BY <2>3 DEF Moves
<1>11. CASE ApplyResponse(r)
  <2> DEFINE mid  == SettledBy(c)
             keys == KeysOf(Held(log, ConfirmedBy(c), c.claim))
             next == Successors(mid, keys, c.claim)
             pc   == IF c.isolating THEN "isolating" ELSE "rating"
             since == Since(c.answer.cursor)
  <2>1. /\ c.pc = "answered" /\ log' = Take(mid, next, c.claim)
        /\ d = [c EXCEPT !.pc = pc, !.delivered = c.isolating, !.since = since, !.mine = c.mine \cup next,
                         !.next = c.next \cup next, !.send = {}, !.base = NoBase, !.answer = NoAnswer]
    BY <1>1, <1>11 DEF ApplyResponse
  <2>2. mid \in Logs /\ next \in SUBSET RowIds /\ \A i \in next : mid[i].key \in keys
    BY <1>0, SettledByType DEF Successors, ChainSuccessors, OldestQueued, TypeOK
  <2>3. keys \subseteq KeysOf(c.send)
    BY DEF KeysOf, Held, ConfirmedBy, Said
  <2>4. pc \in {"isolating", "rating"} /\ (pc = "isolating" => c.isolating)
    OBVIOUS
  <2> HIDE DEF mid, keys, next, pc, since
  <2>5. \A i \in next : log'[i].status = "processing" /\ log'[i].claim = c.claim /\ log'[i].key \in KeysOf(c.send)
    BY <2>1, <2>2, <2>3, TakeHolds
  <2>6. /\ d.pc = pc /\ d.isolating = c.isolating /\ d.edits = c.edits /\ d.ratings = c.ratings /\ d.send = {}
        /\ d.next = c.next \cup next /\ d.claim = c.claim
    BY <1>0, <2>1 DEF Cycle
  <2>7. Confirms(log', c, d)
    BY <2>1, <2>4, <2>5, <2>6 DEF Confirms, Holds
  <2> QED BY <2>7 DEF Moves
<1>12. CASE RejectRound(r)
  <2>1. /\ "reject" \in Refusals
        /\ d = [c EXCEPT !.pc = "isolating", !.edits = c.send, !.isolating = TRUE, !.send = {}, !.base = NoBase]
    BY <1>1, <1>12 DEF RejectRound
  <2>2. SplitsUp(c, d)
    BY <1>0, <2>1 DEF SplitsUp, Cycle
  <2> QED BY <2>2 DEF Moves
<1>13. CASE RejectIsolated(r)
  <2>1. /\ "reject" \in Refusals /\ c.pc = "posted"
        /\ d = [c EXCEPT !.pc = "isolating", !.send = {}, !.base = NoBase]
    BY <1>1, <1>13 DEF RejectIsolated
  <2>2. Drops(c, d)
    BY <1>0, <2>1 DEF Drops, Cycle
  <2> QED BY <2>2 DEF Moves
<1>14. CASE EndIsolation(r)
  <2>1. c.pc = "isolating" /\ d = [c EXCEPT !.pc = "rating", !.isolating = FALSE, !.delivered = FALSE]
    BY <1>1, <1>14 DEF EndIsolation
  <2>2. StandsStill(c, d)
    BY <1>0, <2>1 DEF StandsStill, Cycle
  <2> QED BY <2>2 DEF Moves
<1>15. CASE RatingCheck(r)
  <2>1. PICK i \in c.ratings : LET isHeld == Held(log, {i}, c.claim) # {}
          IN  Continue(r, [c EXCEPT !.ratings = c.ratings \ {i},
                 !.pc   = IF isHeld THEN "rating_posted" ELSE "rating",
                 !.send = IF isHeld THEN {i} ELSE {}])
    BY <1>15 DEF RatingCheck
  <2> DEFINE isHeld == Held(log, {i}, c.claim) # {}
             pc     == IF isHeld THEN "rating_posted" ELSE "rating"
             send   == IF isHeld THEN {i} ELSE {}
  <2>2. c.pc = "rating" /\ d = [c EXCEPT !.ratings = c.ratings \ {i}, !.pc = pc, !.send = send]
    BY <1>1, <1>15, <2>1 DEF RatingCheck
  <2>3. send \subseteq {i} /\ pc \in {"rating_posted", "rating"}
    OBVIOUS
  <2> HIDE DEF send, pc
  <2>4. /\ d.pc = pc /\ d.ratings = c.ratings \ {i} /\ d.send = send /\ d.edits = c.edits /\ d.next = c.next
        /\ d.isolating = c.isolating
    BY <1>0, <2>2 DEF Cycle
  <2>5. ChoosesRating(c, d)
    BY <2>1, <2>2, <2>3, <2>4 DEF ChoosesRating
  <2> QED BY <2>5 DEF Moves
<1>16. CASE RatingArrives(r)
  <2>1. c.pc = "rating_posted" /\ d = [c EXCEPT !.pc = "rating_answered"]
    BY <1>1, <1>16 DEF RatingArrives
  <2>2. StandsStill(c, d)
    BY <1>0, <2>1 DEF StandsStill, Cycle
  <2> QED BY <2>2 DEF Moves
<1>17. CASE RatingDelivered(r)
  <2> DEFINE held   == Held(log, c.send, c.claim)
             synced == Settle(log, c.send, c.claim, "synced")
             mid    == Delete(synced, SupersededRatings(synced, held))
             next   == Successors(mid, KeysOf(held), c.claim)
  <2>1. /\ c.pc = "rating_answered" /\ log' = Take(mid, next, c.claim)
        /\ d = [c EXCEPT !.pc = "rating", !.send = {}, !.mine = c.mine \cup next, !.next = c.next \cup next]
    BY <1>1, <1>17 DEF RatingDelivered
  <2>2. mid \in Logs /\ next \in SUBSET RowIds /\ \A i \in next : mid[i].key \in KeysOf(held)
    <3>1. synced \in Logs
      BY <1>0, SettleType DEF Statuses
    <3>2. mid \in Logs
      BY <3>1, DeleteType
    <3> QED BY <3>2 DEF Successors, ChainSuccessors, OldestQueued
  <2>3. KeysOf(held) \subseteq KeysOf(c.send)
    BY DEF KeysOf, Held
  <2> HIDE DEF mid, held, next
  <2>5. \A i \in next : log'[i].status = "processing" /\ log'[i].claim = c.claim /\ log'[i].key \in KeysOf(c.send)
    BY <2>1, <2>2, <2>3, TakeHolds
  <2>6. /\ d.pc = "rating" /\ d.isolating = c.isolating /\ d.edits = c.edits /\ d.ratings = c.ratings /\ d.send = {}
        /\ d.next = c.next \cup next /\ d.claim = c.claim
    BY <1>0, <2>1 DEF Cycle
  <2>7. Confirms(log', c, d)
    BY <2>1, <2>5, <2>6 DEF Confirms, Holds
  <2> QED BY <2>7 DEF Moves
<1>18. CASE RatingRefused(r) \/ RatingUnsettled(r)
  <2>1. c.pc \in {"rating_posted", "rating_answered"} /\ d = [c EXCEPT !.pc = "rating", !.send = {}]
    BY <1>1, <1>18 DEF RatingRefused, RatingUnsettled
  <2>2. Drops(c, d)
    BY <1>0, <2>1 DEF Drops, Cycle
  <2> QED BY <2>2 DEF Moves
<1>19. CASE EndRound(r)
  <2>1. CASE c.next = {}
    <3>1. d = NoCycle
      BY <1>1, <1>19, <2>1 DEF EndRound
    <3> QED BY <3>1 DEF Moves
  <2>2. CASE c.next # {}
    <3> DEFINE pc == IF Updates(c.next) = {} THEN "rating" ELSE "round"
    <3>1. c.pc = "rating" /\ d = [c EXCEPT !.pc = pc, !.first = FALSE, !.next = {},
                       !.edits = Updates(c.next), !.ratings = RatingsOf(c.next)]
      BY <1>1, <1>19, <2>2 DEF EndRound
    <3>2. pc \in {"rating", "round"}
      OBVIOUS
    <3> HIDE DEF pc
    <3>3. c.send = {}
      BY <1>0, <3>1 DEF InShape, KeepsItsLists
    <3>4. /\ d.pc = pc /\ d.isolating = c.isolating /\ d.edits = Updates(c.next) /\ d.ratings = RatingsOf(c.next)
          /\ d.send = c.send /\ d.next = {}
      BY <1>0, <3>1 DEF Cycle
    <3>5. TurnsOver(c, d)
      BY <3>1, <3>2, <3>3, <3>4 DEF TurnsOver
    <3> QED BY <3>5 DEF Moves
  <2> QED BY <2>1, <2>2
<1> QED
  BY <1>2, <1>3, <1>4, <1>5, <1>6, <1>7, <1>8, <1>9, <1>10, <1>11, <1>12, <1>13, <1>14, <1>15, <1>16,
     <1>17, <1>18, <1>19 DEF Advance, Send, Rate

-----------------------------------------------------------------------------
(* R-14, R-3: why the bridge keeps the newest edit.                         *)

\* No anime is twice on the lists of a cycle, and no row on two of them.
Apart(l, c) ==
  /\ \A i, j \in ToDo(c) : l[i].key = l[j].key => i = j
  /\ (c.edits \cup c.ratings) \cap c.send = {} /\ c.edits \cap c.ratings = {}
  /\ c.next \cap (c.edits \cup c.ratings \cup c.send) = {}

ListsApart ==
  /\ \A r \in Runtimes : Apart(log, cyc[r])
  /\ \A q \in stray : \A i, j \in q.send : log[i].key = log[j].key => i = j

\* Whatever a cycle works on, an abandoned request carries or the bridge took in has left the
\* older rows of its anime behind it.
ChosenInOrder ==
  /\ \A r \in Runtimes : \A j \in ToDo(cyc[r]) : Overtakes(log, j)
  /\ \A q \in stray : \A j \in q.send : Overtakes(log, j)
  /\ \A j \in bridge.history : Overtakes(log, j)

\* A row a cycle holds has.
LEMMA HeldOvertakes ==
  ASSUME NEW l, OldestFirstIn(l), NEW i \in RowIds, l[i].status = "processing"
  PROVE  Overtakes(l, i)
<1>1. \A j \in RowIds : l[j].status \in Queued /\ l[i].key = l[j].key => i <= j
  BY DEF OldestFirstIn
<1>2. ASSUME NEW j \in RowIds, j < i, l[j].key = l[i].key PROVE l[j].status \notin Queued
  BY <1>1, <1>2 DEF RowIds
<1> QED BY <1>2 DEF Overtakes

\* Two rows of one anime that are being sent are one row.
LEMMA HeldAlone ==
  ASSUME NEW l, OldestFirstIn(l), NEW i \in RowIds, NEW j \in RowIds, l[i].key = l[j].key,
         l[i].status = "processing", l[j].status = "processing"
  PROVE  i = j
<1>1. i <= j /\ j <= i
  BY DEF OldestFirstIn, Queued
<1> QED BY <1>1 DEF RowIds

\* What is on the lists of a cycle after a step was on them before or is held now.
LEMMA ToDoGrows ==
  ASSUME NEW r, NEW m, NEW c \in Cycle, NEW d, Moves(r, m, c, d), NEW i \in ToDo(d), i \notin ToDo(c)
  PROVE  Holds(m, d, i)
<1>1. CASE StandsStill(c, d)
  BY <1>1 DEF StandsStill, ToDo
<1>2. CASE d = NoCycle
  BY <1>2 DEF NoCycle, ToDo
<1>3. CASE StartsRound(m, c, d)
  BY <1>3 DEF StartsRound, ToDo
<1>4. CASE ChoosesEdits(r, m, c, d)
  BY <1>4 DEF ChoosesEdits, ToDo
<1>5. CASE ChoosesRating(c, d)
  BY <1>5 DEF ChoosesRating, ToDo
<1>6. CASE Drops(c, d)
  BY <1>6 DEF Drops, ToDo
<1>7. CASE SplitsUp(c, d)
  BY <1>7 DEF SplitsUp, ToDo
<1>8. CASE Confirms(m, c, d)
  BY <1>8 DEF Confirms, ToDo
<1>9. CASE TurnsOver(c, d)
  BY <1>9 DEF TurnsOver, ToDo, Updates, RatingsOf
<1> QED BY <1>1, <1>2, <1>3, <1>4, <1>5, <1>6, <1>7, <1>8, <1>9 DEF Moves

\* A step keeps the lists of its own cycle apart.
LEMMA ApartOwn ==
  ASSUME NEW r, NEW m, NEW c \in Cycle, NEW d \in Cycle, Moves(r, m, c, d), Apart(log, c), OldestFirstIn(m),
         \A i \in ToDo(c) : m[i].key = log[i].key
  PROVE  Apart(m, d)
<1>0. /\ c.edits \subseteq RowIds /\ c.ratings \subseteq RowIds /\ c.send \subseteq RowIds
      /\ c.next \subseteq RowIds
      /\ d.edits \subseteq RowIds /\ d.ratings \subseteq RowIds /\ d.send \subseteq RowIds
      /\ d.next \subseteq RowIds
  BY DEF Cycle
<1>1. ASSUME ToDo(d) \subseteq ToDo(c)
      PROVE  \A i, j \in ToDo(d) : m[i].key = m[j].key => i = j
  BY <1>1 DEF Apart
<1>2. CASE StandsStill(c, d)
  <2>1. ToDo(d) \subseteq ToDo(c)
    BY <1>2 DEF StandsStill, ToDo
  <2> QED BY <1>1, <1>2, <2>1 DEF StandsStill, Apart
<1>3. CASE d = NoCycle
  BY <1>3 DEF NoCycle, Apart, ToDo
<1>4. CASE StartsRound(m, c, d)
  <2>1. \A i, j \in ToDo(d) : m[i].key = m[j].key => i = j
    BY <1>0, <1>4, HeldAlone DEF StartsRound, ToDo, Holds
  <2> QED BY <1>4, <2>1 DEF StartsRound, Apart
<1>5. CASE ChoosesEdits(r, m, c, d)
  <2>1. ToDo(d) \subseteq ToDo(c)
    BY <1>5 DEF ChoosesEdits, ToDo
  <2> QED BY <1>1, <1>5, <2>1 DEF ChoosesEdits, Apart
<1>6. CASE ChoosesRating(c, d)
  <2>1. ToDo(d) \subseteq ToDo(c)
    BY <1>6 DEF ChoosesRating, ToDo
  <2> QED BY <1>1, <1>6, <2>1 DEF ChoosesRating, Apart
<1>7. CASE Drops(c, d)
  <2>1. ToDo(d) \subseteq ToDo(c)
    BY <1>7 DEF Drops, ToDo
  <2> QED BY <1>1, <1>7, <2>1 DEF Drops, Apart
<1>8. CASE SplitsUp(c, d)
  <2>1. ToDo(d) \subseteq ToDo(c)
    BY <1>8 DEF SplitsUp, ToDo
  <2> QED BY <1>1, <1>8, <2>1 DEF SplitsUp, Apart
<1>9. CASE TurnsOver(c, d)
  <2>1. ToDo(d) \subseteq ToDo(c)
    BY <1>9 DEF TurnsOver, ToDo, Updates, RatingsOf
  <2>2. d.edits \cap d.ratings = {}
    BY <1>9 DEF TurnsOver, Updates, RatingsOf
  <2> QED BY <1>1, <1>9, <2>1, <2>2 DEF TurnsOver, Apart
<1>10. CASE Confirms(m, c, d)
  <2>1. /\ d.edits = c.edits /\ d.ratings = c.ratings /\ d.send = {}
        /\ \A i \in d.next : i \in c.next \/ (Holds(m, d, i) /\ m[i].key \in KeysOf(c.send))
    BY <1>10 DEF Confirms
  <2> DEFINE old == c.edits \cup c.ratings \cup c.next
  <2>2. ASSUME NEW i \in d.next, i \notin c.next, NEW j \in old PROVE m[i].key # m[j].key
    <3>1. PICK x \in c.send : log[x].key = m[i].key
      BY <2>1, <2>2 DEF KeysOf
    <3>2. x \in ToDo(c) /\ j \in ToDo(c) /\ x # j
      BY <3>1 DEF ToDo, Apart
    <3> QED BY <3>1, <3>2 DEF Apart
  <2>3. ASSUME NEW i \in d.next, NEW j \in d.next, i \notin c.next, j \notin c.next, m[i].key = m[j].key
        PROVE  i = j
    BY <1>0, <2>1, <2>3, HeldAlone DEF Holds
  <2>4. old \subseteq ToDo(c) /\ ToDo(d) \subseteq old \cup d.next
    BY <2>1 DEF ToDo
  <2>5. \A i, j \in ToDo(d) : m[i].key = m[j].key => i = j
    <3> TAKE i \in ToDo(d), j \in ToDo(d)
    <3>1. CASE i \in old /\ j \in old
      BY <2>4, <3>1 DEF Apart
    <3> QED BY <2>2, <2>3, <2>4, <3>1
  <2>6. d.next \cap (d.edits \cup d.ratings \cup d.send) = {}
    BY <2>1, <2>2 DEF Apart
  <2> QED BY <2>1, <2>5, <2>6 DEF Apart
<1> QED BY <1>2, <1>3, <1>4, <1>5, <1>6, <1>7, <1>8, <1>9, <1>10 DEF Moves

\* The rows of a request that r leaves behind are on the lists of its cycle.
LEMMA StrayRows ==
  ASSUME TypeOK, NEW r \in Runtimes, Advance(r) \/ EarlyThrow(r) \/ Crash(r), NEW q \in stray'
  PROVE  q \in stray \/ (q.send = cyc[r].send /\ q.base = cyc[r].base /\ cyc[r].pc \in {"posted", "rating_posted"})
<1>1. CASE q \notin stray
  <2>1. /\ cyc[r].pc \in {"posted", "rating_posted"}
        /\ q = [send |-> cyc[r].send, base |-> cyc[r].base]
    BY <1>1, StrayGrows
  <2> QED BY <2>1
<1> QED BY <1>1

\* What the bridge takes in is on the list of a request.
LEMMA HistoryRows ==
  ASSUME TypeOK, [Next]_vars, NEW j \in bridge'.history, j \notin bridge.history
  PROVE  (\E r \in Runtimes : j \in cyc[r].send) \/ (\E q \in stray : j \in q.send)
<1>0. bridge \in Bridge
  BY DEF TypeOK
<1>1. ASSUME NEW k \in Keys, BridgeEdit(k) PROVE FALSE
  BY <1>0, <1>1 DEF BridgeEdit, Bridge
<1>2. CASE StrayArrives
  <2>1. PICK q \in stray : \E taken \in SUBSET Updates(q.send) :
          bridge' = [Applied(taken) EXCEPT !.history = @ \cup RatingsOf(q.send)]
    BY <1>2 DEF StrayArrives
  <2>2. PICK taken \in SUBSET Updates(q.send) :
          bridge' = [Applied(taken) EXCEPT !.history = @ \cup RatingsOf(q.send)]
    BY <2>1
  <2>3. bridge'.history = (bridge.history \cup taken) \cup RatingsOf(q.send)
    BY <2>2 DEF Applied
  <2> QED BY <2>2, <2>3 DEF Updates, RatingsOf
<1>3. ASSUME NEW r \in Runtimes, BridgeAnswers(r) PROVE j \in cyc[r].send
  <2>1. PICK taken, shown \in SUBSET cyc[r].send : bridge' = [Applied(taken) EXCEPT !.shown = @ \cup shown]
    BY <1>3 DEF BridgeAnswers
  <2>2. bridge'.history = bridge.history \cup taken
    BY <2>1 DEF Applied
  <2> QED BY <2>2
<1>4. ASSUME NEW r \in Runtimes, RatingArrives(r) PROVE j \in cyc[r].send
  BY <1>0, <1>4 DEF RatingArrives, Bridge
<1>5. ASSUME NEW r \in Runtimes, Advance(r) \/ EarlyThrow(r) \/ Crash(r),
             ~BridgeAnswers(r), ~RatingArrives(r)
      PROVE  FALSE
  BY <1>5 DEF Advance, Send, Rate, NativeSweep, ClaimBatch, BeginSend, IsolateNext, ReadTokens,
              FetchMissing, StoreFetched, ApplyResponse, RejectRound,
              RejectIsolated, RejectLone, EndIsolation, RatingCheck,
              RatingDelivered, RatingRefused, RatingUnsettled, EndRound, FailCycle,
              EarlyThrow, Crash
<1>6. CASE UNCHANGED bridge
  BY <1>6
<1> QED BY <1>1, <1>2, <1>3, <1>4, <1>5, <1>6 DEF Next, Environment, KeepLocal, KeepBridge, LocalEdit, Tick, vars

\* Every step keeps the lists apart and in order.
LEMMA OrderNext ==
  LeftAlone /\ ChosenInOrder /\ ListsApart /\ LeftAlone' /\ [Next]_vars => ChosenInOrder' /\ ListsApart'
<1> SUFFICES ASSUME LeftAlone, ChosenInOrder, ListsApart, LeftAlone', [Next]_vars
             PROVE  ChosenInOrder' /\ ListsApart'
  OBVIOUS
<1>0. TypeOK /\ TypeOK' /\ CycleInv /\ CycleInv' /\ OldestFirstIn(log')
  BY DEF LeftAlone, QueueInv, CycleInv, QueueOrdered, Ordered, NeverRequeues
<1>1. Stays(log, log')
  BY <1>0, StaysNext
<1>2. ASSUME NEW j \in RowIds, Overtakes(log, j)
      PROVE  Overtakes(log', j) /\ log'[j].key = log[j].key
  BY <1>1, <1>2, OvertakesStays DEF SameIntent
<1>3. /\ \A r \in Runtimes : ToDo(cyc[r]) \subseteq RowIds /\ ToDo(cyc'[r]) \subseteq RowIds
      /\ \A q \in stray : q.send \subseteq RowIds
      /\ bridge.history \subseteq RowIds
  BY <1>0 DEF TypeOK, Cycle, Requests, Bridge, ToDo
<1>4. ASSUME NEW r \in Runtimes
      PROVE  \A i \in ToDo(cyc[r]) : Overtakes(log', i) /\ log'[i].key = log[i].key
  BY <1>2, <1>3 DEF ChosenInOrder
<1>5. ASSUME NEW q \in stray
      PROVE  /\ \A i \in q.send : Overtakes(log', i) /\ log'[i].key = log[i].key
             /\ \A i, j \in q.send : log'[i].key = log'[j].key => i = j
  BY <1>2, <1>3 DEF ChosenInOrder, ListsApart
<1>6. \A j \in bridge'.history : Overtakes(log', j)
  <2> TAKE j \in bridge'.history
  <2>1. CASE j \in bridge.history
    BY <1>2, <1>3, <2>1 DEF ChosenInOrder
  <2>2. CASE j \notin bridge.history
    BY <1>0, <1>4, <1>5, <2>2, HistoryRows DEF ToDo
  <2> QED BY <2>1, <2>2
<1>7. ASSUME NEW q \in Runtimes, cyc'[q] = cyc[q]
      PROVE  Apart(log', cyc'[q]) /\ \A j \in ToDo(cyc'[q]) : Overtakes(log', j)
  BY <1>4, <1>7 DEF ListsApart, Apart
<1>8. CASE Environment \/ UNCHANGED vars
  <2>1. cyc' = cyc /\ stray' \subseteq stray
    BY <1>8 DEF Environment, KeepLocal, KeepBridge, LocalEdit, Tick, BridgeEdit, StrayArrives, vars
  <2> QED BY <1>5, <1>6, <1>7, <2>1 DEF ChosenInOrder, ListsApart
<1>9. ASSUME NEW r \in Runtimes, Advance(r) \/ EarlyThrow(r) \/ Crash(r)
      PROVE  ChosenInOrder' /\ ListsApart'
  <2>0. cyc[r] \in Cycle /\ cyc'[r] \in Cycle /\ Moves(r, log', cyc[r], cyc'[r])
    BY <1>0, <1>9, RuntimeMoves DEF TypeOK
  <2>1. ASSUME NEW q \in Runtimes
        PROVE  Apart(log', cyc'[q]) /\ \A j \in ToDo(cyc'[q]) : Overtakes(log', j)
    <3>1. CASE q = r
      <4>1. Apart(log', cyc'[r])
        BY <1>0, <1>4, <2>0, ApartOwn DEF ListsApart
      <4>2. ASSUME NEW j \in ToDo(cyc'[r]) PROVE Overtakes(log', j)
        <5>1. CASE j \in ToDo(cyc[r])
          BY <1>4, <5>1
        <5>2. CASE j \notin ToDo(cyc[r])
          <6>1. log'[j].status = "processing"
            BY <2>0, <4>2, <5>2, ToDoGrows DEF Holds
          <6> QED BY <1>0, <1>3, <4>2, <6>1, HeldOvertakes
        <5> QED BY <5>1, <5>2
      <4> QED BY <3>1, <4>1, <4>2
    <3>2. CASE q # r
      BY <1>0, <1>7, <1>9, <3>2, OtherKeeps
    <3> QED BY <3>1, <3>2
  <2>2. ASSUME NEW q \in stray'
        PROVE  /\ \A i \in q.send : Overtakes(log', i)
               /\ \A i, j \in q.send : log'[i].key = log'[j].key => i = j
    <3>1. CASE q \in stray
      BY <1>5, <3>1
    <3>2. CASE q.send = cyc[r].send
      <4>1. q.send \subseteq ToDo(cyc[r])
        BY <3>2 DEF ToDo
      <4> QED BY <1>4, <4>1 DEF ListsApart, Apart
    <3> QED BY <1>0, <1>9, <2>2, <3>1, <3>2, StrayRows
  <2> QED BY <1>6, <2>1, <2>2 DEF ChosenInOrder, ListsApart
<1> QED BY <1>8, <1>9 DEF Next

\* What the theorem leaves out: a process frozen between its reads, and, since the native chain
\* does not look again at the rows it holds, ratings and refused requests beside it.
Undisturbed ==
  /\ "suspend" \notin Faults
  /\ "native" \in Runtimes => RowKinds \subseteq {"update"} /\ "reject" \notin Refusals

\* Beside the native runtime every row is an edit, no request is split up, and the rows of the
\* chain wait for the end of their round only.
PlainCycle(c) ==
  /\ ~c.isolating /\ c.pc \notin {"isolating", "rating_posted", "rating_answered"}
  /\ c.pc # "rating" => c.next = {}

Plain ==
  "native" \in Runtimes =>
    /\ \A i \in RowIds : log[i].status # "absent" => log[i].kind = "update"
    /\ \A r \in Runtimes : PlainCycle(cyc[r])

\* The bridge took in a newer edit of the anime of row i.
Newer(i) == \E j \in bridge.history : log[j].kind = "update" /\ log[j].key = log[i].key /\ i < j

\* Cycle c of r sends row i without looking again whether it holds it.
SendsUnseen(r, c, i) ==
  \/ c.pc = "checked" /\ i \in c.send
  \/ r = "native" /\ c.pc = "round" /\ i \in c.edits
  \/ r = "native" /\ c.pc = "rating" /\ i \in c.next

\* A row that goes out with the stored token is the newest of its anime or will conflict, and no
\* answer to the other runtime can put the token right before it goes out.
ReadsInTime ==
  \A r \in Runtimes : \A i \in RowIds : SendsUnseen(r, cyc[r], i) =>
    /\ Newer(i) => token[log[i].key] < bridge.at[log[i].key]
    /\ \A q \in Runtimes \ {r} : cyc[q].pc = "answered" =>
         \A j \in Held(log, cyc[q].send, cyc[q].claim) : log[j].key # log[i].key

\* A request under way carries no base the bridge would take an overtaken edit on.
InFlightLoses ==
  /\ \A r \in Runtimes : cyc[r].pc = "posted" => \A i \in cyc[r].send :
       /\ token[log[i].key] # NoToken
       /\ Newer(i) => cyc[r].base[log[i].key] < bridge.at[log[i].key]
  /\ \A q \in stray : \A i \in q.send : log[i].kind = "update" =>
       /\ token[log[i].key] # NoToken
       /\ Newer(i) => q.base[log[i].key] < bridge.at[log[i].key]

\* The token of an anime the bridge took an edit of is stored, and the edit it holds is one of those.
BridgeKnows ==
  /\ \A j \in bridge.history : log[j].kind = "update" => token[log[j].key] # NoToken
  /\ \A k \in Keys : bridge.last[k] # 0 =>
       /\ bridge.last[k] \in bridge.history /\ log[bridge.last[k]].kind = "update"
       /\ log[bridge.last[k]].key = k

OrderInv == TokenInv /\ ChosenInOrder /\ ListsApart /\ Plain

BridgeInv == OrderInv /\ ReadsInTime /\ InFlightLoses /\ BridgeKnows /\ NoStaleOverwrite

\* A step keeps its cycle plain where no request is refused and no rating waits.
LEMMA PlainOwn ==
  ASSUME NEW r, NEW m, NEW c, NEW d, Moves(r, m, c, d), PlainCycle(c), c.ratings = {}, "reject" \notin Refusals
  PROVE  PlainCycle(d)
<1>1. CASE StandsStill(c, d)
  BY <1>1 DEF StandsStill, PlainCycle
<1>2. CASE d = NoCycle
  BY <1>2 DEF NoCycle, PlainCycle
<1>3. CASE StartsRound(m, c, d)
  BY <1>3 DEF StartsRound, PlainCycle
<1>4. CASE ChoosesEdits(r, m, c, d)
  BY <1>4 DEF ChoosesEdits, PlainCycle
<1>5. CASE ChoosesRating(c, d)
  BY <1>5 DEF ChoosesRating
<1>6. CASE Drops(c, d)
  BY <1>6 DEF Drops, PlainCycle
<1>7. CASE SplitsUp(c, d)
  BY <1>7 DEF SplitsUp
<1>8. CASE Confirms(m, c, d)
  BY <1>8 DEF Confirms, PlainCycle
<1>9. CASE TurnsOver(c, d)
  BY <1>9 DEF TurnsOver, PlainCycle
<1> QED BY <1>1, <1>2, <1>3, <1>4, <1>5, <1>6, <1>7, <1>8, <1>9 DEF Moves

\* Rows stay edits, and cycles plain.
LEMMA PlainNext == Undisturbed /\ LeftAlone /\ Plain /\ LeftAlone' /\ [Next]_vars => Plain'
<1> SUFFICES ASSUME Undisturbed, LeftAlone, Plain, LeftAlone', [Next]_vars, "native" \in Runtimes
             PROVE  /\ \A i \in RowIds : log'[i].status # "absent" => log'[i].kind = "update"
                    /\ \A r \in Runtimes : PlainCycle(cyc'[r])
  BY DEF Plain
<1>0. TypeOK /\ TypeOK' /\ CycleInv /\ CycleInv' /\ OldestFirstIn(log) /\ RatingsAreDeadLetters(log)
  BY DEF LeftAlone, QueueInv, CycleInv, QueueOrdered, Ordered, NeverRequeues
<1>1. /\ RowKinds \subseteq {"update"} /\ "reject" \notin Refusals
      /\ \A i \in RowIds : log[i].status # "absent" => log[i].kind = "update"
      /\ \A r \in Runtimes : PlainCycle(cyc[r])
  BY DEF Undisturbed, Plain
<1>2. Stays(log, log')
  BY <1>0, StaysNext
<1>3. ASSUME NEW i \in RowIds, log[i].status = "absent", log'[i].status # "absent"
      PROVE  log'[i].kind = "update"
  <2>1. ASSUME NEW k \in Keys, NEW kind \in RowKinds, LocalEdit(k, kind) PROVE log'[i].kind = "update"
    <3>1. PICK x \in RowIds : log' = [log EXCEPT ![x] = [status |-> "pending", key |-> k,
                       kind |-> kind, claim |-> NoClaim, conflicts |-> 0]]
      BY <2>1 DEF LocalEdit
    <3> QED BY <1>0, <1>1, <1>3, <3>1 DEF TypeOK
  <2>2. ASSUME NEW r \in Runtimes, Advance(r) \/ EarlyThrow(r) \/ Crash(r) PROVE FALSE
    <3>1. QueueStep(log, log')
      BY <1>0, <2>2, RuntimeQueueStep
    <3> QED BY <1>3, <3>1 DEF QueueStep
  <2>3. CASE log' = log
    BY <1>3, <2>3
  <2> QED BY <2>1, <2>2, <2>3, Bystanders DEF Next, Tick, BridgeEdit, StrayArrives, vars
<1>4. \A i \in RowIds : log'[i].status # "absent" => log'[i].kind = "update"
  BY <1>1, <1>2, <1>3 DEF Stays, SameIntent
<1>5. CASE cyc' = cyc
  BY <1>1, <1>4, <1>5
<1>6. ASSUME NEW r \in Runtimes, Advance(r) \/ EarlyThrow(r) \/ Crash(r), NEW q \in Runtimes
      PROVE  PlainCycle(cyc'[q])
  <2>1. CASE q # r
    BY <1>0, <1>1, <1>6, <2>1, OtherKeeps
  <2>2. CASE q = r
    <3>1. PlainCycle(cyc[r]) /\ Moves(r, log', cyc[r], cyc'[r])
      BY <1>0, <1>1, <1>6, RuntimeMoves
    <3>2. cyc[r].ratings = {}
      <4>1. /\ cyc[r].ratings \subseteq RowIds
            /\ \A i \in cyc[r].ratings : log[i].kind = "season_rating" /\ log[i].status # "absent"
        BY <1>0 DEF TypeOK, Cycle, CycleInv, InShape, KnowsItsRows, ToDo
      <4> QED BY <1>1, <4>1
    <3> QED BY <1>1, <2>2, <3>1, <3>2, PlainOwn
  <2> QED BY <2>1, <2>2
<1> QED BY <1>4, <1>5, <1>6 DEF Next, Environment, KeepLocal, KeepBridge, LocalEdit, Tick, BridgeEdit, StrayArrives, vars

\* What a cycle sends unseen after a step it did before, or it has just been seen to hold it.
LEMMA UnseenOwn ==
  ASSUME NEW r, NEW m, NEW c, NEW d, Moves(r, m, c, d), r = "native" => PlainCycle(c),
         NEW i, SendsUnseen(r, d, i)
  PROVE  SendsUnseen(r, c, i) \/ Holds(m, d, i)
<1>1. CASE StandsStill(c, d)
  BY <1>1 DEF StandsStill, SendsUnseen, PlainCycle
<1>2. CASE d = NoCycle
  BY <1>2 DEF NoCycle, SendsUnseen
<1>3. CASE StartsRound(m, c, d)
  BY <1>3 DEF StartsRound, SendsUnseen
<1>4. CASE ChoosesEdits(r, m, c, d)
  BY <1>4 DEF ChoosesEdits, SendsUnseen
<1>5. CASE ChoosesRating(c, d)
  BY <1>5 DEF ChoosesRating, SendsUnseen
<1>6. CASE Drops(c, d)
  BY <1>6 DEF Drops, SendsUnseen, PlainCycle
<1>7. CASE SplitsUp(c, d)
  BY <1>7 DEF SplitsUp, SendsUnseen
<1>8. CASE Confirms(m, c, d)
  BY <1>8 DEF Confirms, SendsUnseen, PlainCycle
<1>9. CASE TurnsOver(c, d)
  BY <1>9 DEF TurnsOver, SendsUnseen, Updates
<1> QED BY <1>1, <1>2, <1>3, <1>4, <1>5, <1>6, <1>7, <1>8, <1>9 DEF Moves

\* The bridge takes in the edits of `ids` and the ratings of `more`: each edit it already holds,
\* or no newer one of the anime is at the bridge.
TakesIn(ids, more) ==
  /\ LET after == Applied(ids)
     IN  /\ bridge'.at = after.at /\ bridge'.last = after.last /\ bridge'.feed = after.feed
         /\ bridge'.history = after.history \cup more
  /\ \A i \in more : log[i].kind = "season_rating"
  /\ \A i \in ids : /\ log[i].kind = "update" /\ token[log[i].key] # NoToken
                    /\ IsRepeat(i) \/ ~Newer(i)
  /\ \A i, j \in ids : log[i].key = log[j].key => i = j

\* Each token below its bridge's is a different one.
LEMMA NotFresh ==
  ASSUME TypeOK, NEW k \in Keys, NEW t \in Tokens, t < bridge.at[k]
  PROVE  t # bridge.at[k]
BY DEF TypeOK, Bridge, Tokens, NoToken

\* Every step of the bridge is the user's other device editing, or such a taking in.
LEMMA BridgeTakesIn ==
  ASSUME OrderInv, InFlightLoses, [Next]_vars, bridge' # bridge
  PROVE  /\ log' = log /\ token' = token
         /\ \/ \E k \in Keys : BridgeEdit(k)
            \/ \E ids, more \in SUBSET RowIds : TakesIn(ids, more)
<1>0. /\ TypeOK /\ CycleInv /\ ListsApart
      /\ \A r \in Runtimes : cyc[r] \in Cycle /\ cyc[r].send \subseteq RowIds
      /\ \A q \in stray : q.send \subseteq RowIds /\ q.base \in [Keys -> Tokens]
      /\ \A i \in RowIds : log[i].key \in Keys
  BY DEF OrderInv, TokenInv, LeftAlone, QueueInv, CycleInv, TypeOK, Cycle, Requests, Row
<1>1. ASSUME NEW k \in Keys, BridgeEdit(k) PROVE log' = log /\ token' = token
  BY <1>1 DEF BridgeEdit
<1>2. CASE StrayArrives
  <2>1. PICK q \in stray : \E taken \in SUBSET Updates(q.send) :
          /\ \A i \in taken : MayTake(i, q.base)
          /\ bridge' = [Applied(taken) EXCEPT !.history = @ \cup RatingsOf(q.send)]
    BY <1>2 DEF StrayArrives
  <2>2. PICK taken \in SUBSET Updates(q.send) :
          /\ \A i \in taken : MayTake(i, q.base)
          /\ bridge' = [Applied(taken) EXCEPT !.history = @ \cup RatingsOf(q.send)]
    BY <2>1
  <2> DEFINE more == RatingsOf(q.send)
  <2>3. taken \in SUBSET RowIds /\ more \in SUBSET RowIds /\ taken \subseteq q.send
    BY <1>0, <2>2 DEF Updates, RatingsOf
  <2>4. ASSUME NEW i \in taken
        PROVE  log[i].kind = "update" /\ token[log[i].key] # NoToken /\ (IsRepeat(i) \/ ~Newer(i))
    <3>1. log[i].kind = "update" /\ i \in q.send /\ i \in RowIds
      BY <2>2, <2>3 DEF Updates
    <3>2. token[log[i].key] # NoToken /\ (Newer(i) => q.base[log[i].key] < bridge.at[log[i].key])
      BY <3>1 DEF InFlightLoses
    <3>3. IsRepeat(i) \/ q.base[log[i].key] = bridge.at[log[i].key]
      BY <2>2 DEF MayTake
    <3>4. q.base[log[i].key] \in Tokens /\ log[i].key \in Keys
      BY <1>0, <3>1
    <3> QED BY <1>0, <3>1, <3>2, <3>3, <3>4, NotFresh
  <2>5. \A i \in more : log[i].kind = "season_rating"
    BY DEF RatingsOf
  <2>6. \A i, j \in taken : log[i].key = log[j].key => i = j
    BY <1>0, <2>3 DEF ListsApart
  <2>7. LET after == Applied(taken)
        IN  /\ bridge'.at = after.at /\ bridge'.last = after.last /\ bridge'.feed = after.feed
            /\ bridge'.history = after.history \cup more
    BY <2>2 DEF Applied
  <2>8. TakesIn(taken, more)
    BY <2>4, <2>5, <2>6, <2>7 DEF TakesIn
  <2>9. log' = log /\ token' = token
    BY <1>2 DEF StrayArrives
  <2> QED BY <2>3, <2>8, <2>9
<1>3. ASSUME NEW r \in Runtimes, BridgeAnswers(r)
      PROVE  \E ids, more \in SUBSET RowIds : TakesIn(ids, more)
  <2>1. PICK taken, shown \in SUBSET cyc[r].send :
          /\ \A i \in taken : MayTake(i, cyc[r].base)
          /\ bridge' = [Applied(taken) EXCEPT !.shown = @ \cup shown]
    BY <1>3 DEF BridgeAnswers
  <2>2. taken \in SUBSET RowIds
    BY <1>0
  <2>3. cyc[r].pc = "posted"
    BY <1>3 DEF BridgeAnswers
  <2>4. ASSUME NEW i \in taken
        PROVE  log[i].kind = "update" /\ token[log[i].key] # NoToken /\ (IsRepeat(i) \/ ~Newer(i))
    <3>1. log[i].kind = "update" /\ i \in RowIds
      BY <1>0, <2>2, <2>3 DEF CycleInv, InShape, KnowsItsRows, Reconciling
    <3>2. token[log[i].key] # NoToken /\ (Newer(i) => cyc[r].base[log[i].key] < bridge.at[log[i].key])
      BY <2>3 DEF InFlightLoses
    <3>3. IsRepeat(i) \/ cyc[r].base[log[i].key] = bridge.at[log[i].key]
      BY <2>1 DEF MayTake
    <3>4. cyc[r].base[log[i].key] \in Tokens /\ log[i].key \in Keys
      BY <1>0, <3>1 DEF Cycle
    <3> QED BY <1>0, <3>1, <3>2, <3>3, <3>4, NotFresh
  <2>5. \A i, j \in taken : log[i].key = log[j].key => i = j
    BY <1>0 DEF ListsApart, Apart, ToDo
  <2>6. LET after == Applied(taken)
        IN  /\ bridge'.at = after.at /\ bridge'.last = after.last /\ bridge'.feed = after.feed
            /\ bridge'.history = after.history
    BY <2>1 DEF Applied
  <2>7. TakesIn(taken, {})
    BY <2>4, <2>5, <2>6 DEF TakesIn
  <2> QED BY <2>2, <2>7
<1>4. ASSUME NEW r \in Runtimes, RatingArrives(r)
      PROVE  \E ids, more \in SUBSET RowIds : TakesIn(ids, more)
  <2>1. cyc[r].pc = "rating_posted" /\ bridge' = [bridge EXCEPT !.history = @ \cup cyc[r].send]
    BY <1>4 DEF RatingArrives
  <2>2. \A i \in cyc[r].send : log[i].kind = "season_rating"
    BY <1>0, <2>1 DEF CycleInv, InShape, KnowsItsRows, Rating
  <2>3. LET after == Applied({})
        IN  /\ after.feed = bridge.feed /\ after.at = bridge.at /\ after.last = bridge.last
            /\ after.history = bridge.history
    <3>1. bridge.at = [k \in Keys |-> bridge.at[k]] /\ bridge.last = [k \in Keys |-> bridge.last[k]]
      BY <1>0 DEF TypeOK, Bridge
    <3>2. \A k \in Keys : {i \in {i \in {} : ~IsRepeat(i)} : log[i].key = k} = {}
      OBVIOUS
    <3> QED BY <3>1, <3>2 DEF Applied
  <2>4. TakesIn({}, cyc[r].send)
    BY <1>0, <2>1, <2>2, <2>3 DEF TakesIn, TypeOK, Bridge
  <2> QED BY <1>0, <2>4
<1>5. ASSUME NEW r \in Runtimes, Advance(r) \/ EarlyThrow(r) \/ Crash(r),
             ~BridgeAnswers(r), ~RatingArrives(r)
      PROVE  FALSE
  BY <1>5 DEF Advance, Send, Rate, NativeSweep, ClaimBatch, BeginSend, IsolateNext, ReadTokens,
              FetchMissing, StoreFetched, ApplyResponse, RejectRound,
              RejectIsolated, RejectLone, EndIsolation, RatingCheck,
              RatingDelivered, RatingRefused, RatingUnsettled, EndRound, FailCycle,
              EarlyThrow, Crash
<1>6. ASSUME NEW r \in Runtimes, BridgeAnswers(r) \/ RatingArrives(r) PROVE log' = log /\ token' = token
  BY <1>6 DEF BridgeAnswers, RatingArrives
<1> QED BY <1>1, <1>2, <1>3, <1>4, <1>5, <1>6 DEF Next, Environment, KeepLocal, KeepBridge, LocalEdit, Tick, vars

\* What taking in does to one anime.
LEMMA AppliedAt ==
  ASSUME NEW ids, NEW k \in Keys
  PROVE  LET after == Applied(ids)
         IN  \/ /\ \A i \in ids : log[i].key = k => IsRepeat(i)
                /\ after.at[k] = bridge.at[k] /\ after.last[k] = bridge.last[k]
             \/ \E i \in ids : /\ log[i].key = k /\ ~IsRepeat(i)
                               /\ after.last[k] = i /\ after.at[k] = bridge.feed + 1
<1> DEFINE written == {i \in ids : ~IsRepeat(i)}
           rowOf(x) == {i \in written : log[i].key = x}
<1>1. /\ Applied(ids).at[k] = IF rowOf(k) = {} THEN bridge.at[k] ELSE bridge.feed + 1
      /\ Applied(ids).last[k] = IF rowOf(k) = {} THEN bridge.last[k] ELSE CHOOSE i \in rowOf(k) : TRUE
  BY DEF Applied
<1>2. CASE rowOf(k) = {}
  BY <1>1, <1>2
<1>3. CASE rowOf(k) # {}
  <2>1. (CHOOSE i \in rowOf(k) : TRUE) \in rowOf(k)
    BY <1>3
  <2> QED BY <1>1, <1>3, <2>1
<1> QED BY <1>2, <1>3

\* An edit that is new at the bridge moved its token.
LEMMA NewMovesToken ==
  ASSUME OrderInv, InFlightLoses, BridgeKnows, [Next]_vars,
         NEW j \in bridge'.history, j \notin bridge.history, log[j].kind = "update"
  PROVE  /\ log' = log /\ token' = token /\ token[log[j].key] # NoToken
         /\ log[j].key \in Keys /\ bridge.at[log[j].key] < bridge'.at[log[j].key]
<1>0. TypeOK /\ bridge' # bridge
  BY DEF OrderInv, TokenInv, LeftAlone, QueueInv, CycleInv
<1>1. log' = log /\ token' = token
  BY <1>0, BridgeTakesIn
<1>2. ASSUME NEW k \in Keys, BridgeEdit(k) PROVE FALSE
  BY <1>0, <1>2 DEF BridgeEdit, TypeOK, Bridge
<1>3. PICK ids, more \in SUBSET RowIds : TakesIn(ids, more)
  BY <1>0, <1>2, BridgeTakesIn
<1>4. bridge'.history = (bridge.history \cup ids) \cup more /\ bridge'.at = Applied(ids).at
  BY <1>3 DEF TakesIn, Applied
<1>5. j \in ids /\ j \in RowIds /\ token[log[j].key] # NoToken
  BY <1>3, <1>4 DEF TakesIn
<1>6. log[j].key \in Keys /\ bridge.at[log[j].key] <= bridge.feed
      /\ bridge.at[log[j].key] \in Nat /\ bridge.feed \in Nat
  BY <1>0, <1>5 DEF TypeOK, Row, Bridge, OrderInv, TokenInv, TokensKnown
<1>7. ~IsRepeat(j)
  <2>1. ASSUME IsRepeat(j) PROVE FALSE
    <3>1. bridge.last[log[j].key] = j /\ j # 0
      BY <1>5, <2>1 DEF IsRepeat, RowIds
    <3> QED BY <1>6, <3>1 DEF BridgeKnows
  <2> QED BY <2>1
<1>8. bridge'.at[log[j].key] = bridge.feed + 1
  BY <1>4, <1>5, <1>6, <1>7, AppliedAt
<1> QED BY <1>1, <1>5, <1>6, <1>8

\* What is at the bridge keeps its anime and kind.
LEMMA HistoryStays ==
  ASSUME OrderInv, Stays(log, log'), NEW j \in bridge.history
  PROVE  j \in RowIds /\ SameIntent(log, log', j) /\ log[j].key \in Keys
BY DEF OrderInv, ChosenInOrder, Overtakes, Stays, TokenInv, LeftAlone, QueueInv, CycleInv, TypeOK, Bridge, Row

\* A stored token is not lost.
LEMMA TokenStays ==
  ASSUME OrderInv, [Next]_vars, NEW k \in Keys, token[k] # NoToken
  PROVE  token'[k] # NoToken
<1>1. token'[k] >= token[k]
  BY TokenStep DEF OrderInv
<1>2. token[k] \in Tokens /\ token'[k] \in Tokens
  BY TypeNext DEF OrderInv, TokenInv, LeftAlone, QueueInv, CycleInv, TypeOK
<1> QED BY <1>1, <1>2 DEF Tokens, NoToken

\* The edits at the bridge stay known.
LEMMA KnowsNext ==
  BridgeInv /\ LeftAlone' /\ [Next]_vars => BridgeKnows' /\ NoStaleOverwrite'
<1> SUFFICES ASSUME BridgeInv, LeftAlone', [Next]_vars PROVE BridgeKnows' /\ NoStaleOverwrite'
  OBVIOUS
<1>0. OrderInv /\ InFlightLoses /\ BridgeKnows /\ NoStaleOverwrite /\ TypeOK /\ TypeOK' /\ Stays(log, log')
  BY StaysNext DEF BridgeInv, OrderInv, TokenInv, LeftAlone, QueueInv, CycleInv
<1>1. ASSUME NEW j \in bridge'.history, log'[j].kind = "update" PROVE token'[log'[j].key] # NoToken
  <2>1. CASE j \in bridge.history
    <3>1. SameIntent(log, log', j) /\ log[j].key \in Keys
      BY <1>0, <2>1, HistoryStays
    <3>2. token[log[j].key] # NoToken
      BY <1>0, <1>1, <2>1, <3>1 DEF BridgeKnows, SameIntent
    <3> QED BY <1>0, <3>1, <3>2, TokenStays DEF SameIntent
  <2>2. CASE j \notin bridge.history
    <3>1. log' = log
      BY <1>0, <1>1, <2>2, BridgeTakesIn
    <3> QED BY <1>0, <1>1, <2>2, <3>1, NewMovesToken
  <2> QED BY <2>1, <2>2
<1>2. ASSUME NEW k \in Keys, bridge'.last[k] = bridge.last[k], bridge'.last[k] # 0
      PROVE  /\ bridge'.last[k] \in bridge.history /\ log'[bridge'.last[k]].kind = "update"
             /\ log'[bridge'.last[k]].key = k
             /\ \A j \in bridge.history : log'[j].kind = "update" /\ log'[j].key = k => j <= bridge'.last[k]
  <2>1. /\ bridge.last[k] \in bridge.history /\ log[bridge.last[k]].kind = "update"
        /\ log[bridge.last[k]].key = k
    BY <1>0, <1>2 DEF BridgeKnows
  <2>2. \A j \in bridge.history : SameIntent(log, log', j)
    BY <1>0, HistoryStays
  <2>3. \A j \in bridge.history : log[j].kind = "update" /\ log[j].key = k => j <= bridge.last[k]
    BY <1>0, <1>2 DEF NoStaleOverwrite, Updates
  <2> QED BY <1>2, <2>1, <2>2, <2>3 DEF SameIntent
<1>3. ASSUME NEW k \in Keys, bridge'.last[k] # 0
      PROVE  /\ bridge'.last[k] \in bridge'.history /\ log'[bridge'.last[k]].kind = "update"
             /\ log'[bridge'.last[k]].key = k
             /\ \A j \in bridge'.history : log'[j].kind = "update" /\ log'[j].key = k => j <= bridge'.last[k]
  <2>1. CASE bridge' = bridge
    BY <1>2, <1>3, <2>1
  <2>2. ASSUME NEW x \in Keys, BridgeEdit(x)
        PROVE  bridge'.last[k] = bridge.last[k] /\ bridge'.history = bridge.history
    BY <1>0, <1>3, <2>2 DEF BridgeEdit, TypeOK, Bridge
  <2>3. ASSUME NEW ids \in SUBSET RowIds, NEW more \in SUBSET RowIds, TakesIn(ids, more), log' = log
        PROVE  /\ bridge'.last[k] \in bridge'.history /\ log'[bridge'.last[k]].kind = "update"
               /\ log'[bridge'.last[k]].key = k
               /\ \A j \in bridge'.history : log'[j].kind = "update" /\ log'[j].key = k => j <= bridge'.last[k]
    <3>1. bridge'.history = (bridge.history \cup ids) \cup more /\ bridge'.last = Applied(ids).last
      BY <2>3 DEF TakesIn, Applied
    <3>2. \A j \in more : log[j].kind # "update"
      BY <2>3 DEF TakesIn
    <3>3. CASE /\ \A i \in ids : log[i].key = k => IsRepeat(i)
               /\ bridge'.last[k] = bridge.last[k]
      <4>1. \A j \in ids : log[j].key = k => j = bridge'.last[k]
        BY <3>3 DEF IsRepeat
      <4>2. /\ bridge'.last[k] \in bridge.history /\ log'[bridge'.last[k]].kind = "update"
            /\ log'[bridge'.last[k]].key = k
            /\ \A j \in bridge.history : log'[j].kind = "update" /\ log'[j].key = k => j <= bridge'.last[k]
        BY <1>2, <1>3, <3>3
      <4>3. \A j \in RowIds : j <= j
        BY DEF RowIds
      <4> QED BY <2>3, <3>1, <3>2, <4>1, <4>2, <4>3
    <3>4. ASSUME NEW i \in ids, log[i].key = k, ~IsRepeat(i), bridge'.last[k] = i
          PROVE  /\ bridge'.last[k] \in bridge'.history /\ log'[bridge'.last[k]].kind = "update"
                 /\ log'[bridge'.last[k]].key = k
                 /\ \A j \in bridge'.history : log'[j].kind = "update" /\ log'[j].key = k => j <= bridge'.last[k]
      <4>1. log[i].kind = "update" /\ ~Newer(i)
        BY <2>3, <3>4 DEF TakesIn
      <4>2. ASSUME NEW j \in bridge.history, log[j].kind = "update", log[j].key = k PROVE j <= i
        <5>1. ~(i < j) /\ j \in RowIds /\ i \in RowIds
          BY <1>0, <2>3, <3>4, <4>1, <4>2, HistoryStays DEF Newer
        <5> QED BY <5>1 DEF RowIds
      <4>3. ASSUME NEW j \in ids, log[j].key = k PROVE j <= i
        <5>1. j = i /\ j \in RowIds
          BY <2>3, <3>4, <4>3 DEF TakesIn
        <5> QED BY <5>1 DEF RowIds
      <4> QED BY <2>3, <3>1, <3>2, <3>4, <4>1, <4>2, <4>3
    <3> QED BY <3>1, <3>3, <3>4, AppliedAt
  <2> QED BY <1>0, <1>2, <1>3, <2>1, <2>2, <2>3, BridgeTakesIn
<1> QED BY <1>1, <1>3 DEF BridgeKnows, NoStaleOverwrite, Updates

\* An answered request whose sender holds a row was answered with that row held, or just now.
LEMMA AnsweredHeld ==
  ASSUME LeftAlone, LeftAlone', [Next]_vars, NEW q \in Runtimes, cyc'[q].pc = "answered",
         NEW i \in Held(log', cyc'[q].send, cyc'[q].claim)
  PROVE  /\ i \in RowIds /\ log'[i].status = "processing" /\ log'[i].claim = cyc'[q].claim
         /\ \/ BridgeAnswers(q)
            \/ cyc'[q] = cyc[q] /\ i \in Held(log, cyc[q].send, cyc[q].claim)
<1>0. TypeOK /\ TypeOK' /\ CycleInv /\ CycleInv'
  BY DEF LeftAlone, QueueInv, CycleInv
<1>1. /\ i \in RowIds /\ i \in cyc'[q].send
      /\ log'[i].status = "processing" /\ log'[i].claim = cyc'[q].claim
  BY <1>0 DEF Held, TypeOK, Cycle
<1>2. CASE Environment \/ UNCHANGED vars
  <2>1. cyc' = cyc
    BY <1>2 DEF Environment, KeepLocal, KeepBridge, LocalEdit, Tick, BridgeEdit, StrayArrives, vars
  <2>2. log'[i] = log[i]
    <3>1. CASE log' = log
      BY <3>1
    <3>2. ASSUME NEW k \in Keys, NEW kind \in RowKinds, LocalEdit(k, kind) PROVE log'[i] = log[i]
      BY <1>0, <1>1, <3>2 DEF LocalEdit, TypeOK
    <3> QED BY <1>2, <3>1, <3>2, Bystanders DEF Tick, BridgeEdit, StrayArrives, vars
  <2> QED BY <1>1, <2>1, <2>2 DEF Held
<1>3. ASSUME NEW r \in Runtimes, Advance(r) \/ EarlyThrow(r) \/ Crash(r)
      PROVE  BridgeAnswers(q) \/ (cyc'[q] = cyc[q] /\ i \in Held(log, cyc[q].send, cyc[q].claim))
  <2>1. CASE q = r
    BY <1>0, <1>3, <2>1, AnswerIsNew
  <2>2. CASE q # r
    <3>1. cyc'[q] = cyc[q]
      BY <1>0, <1>3, <2>2, OtherKeeps
    <3> QED BY <1>0, <1>1, <1>3, <2>2, <3>1, OtherKeeps DEF Held
  <2> QED BY <2>1, <2>2
<1> QED BY <1>1, <1>2, <1>3 DEF Next

\* So it is for every cycle at every step.
LEMMA UnseenStep ==
  ASSUME OrderInv, TypeOK', CycleInv', [Next]_vars, NEW r \in Runtimes, NEW i, SendsUnseen(r, cyc'[r], i)
  PROVE  SendsUnseen(r, cyc[r], i) \/ Holds(log', cyc'[r], i)
<1>0. CycleInv /\ (r = "native" => PlainCycle(cyc[r]))
  BY DEF OrderInv, TokenInv, LeftAlone, QueueInv, Plain
<1>1. CASE cyc'[r] = cyc[r]
  BY <1>1
<1>2. ASSUME NEW x \in Runtimes, Advance(x) \/ EarlyThrow(x) \/ Crash(x), cyc'[r] # cyc[r]
      PROVE  SendsUnseen(r, cyc[r], i) \/ Holds(log', cyc'[r], i)
  <2>1. x = r
    BY <1>0, <1>2, OtherKeeps
  <2>2. Moves(r, log', cyc[r], cyc'[r])
    BY <1>0, <1>2, <2>1, RuntimeMoves
  <2> QED BY <1>0, <2>2, UnseenOwn
<1> QED BY <1>1, <1>2 DEF Next, Environment, KeepLocal, KeepBridge, LocalEdit, Tick, BridgeEdit, StrayArrives, vars

\* A row sent unseen is a row of the log, and its cycle is in its reads.
LEMMA UnseenIsRead ==
  ASSUME OrderInv, NEW r \in Runtimes, NEW i \in RowIds, SendsUnseen(r, cyc[r], i)
  PROVE  log[i].status # "absent" /\ InReads(r) /\ cyc[r].pc \notin {"fetched", "answered"}
<1>1. i \in ToDo(cyc[r])
  BY DEF SendsUnseen, ToDo
<1> QED BY <1>1 DEF OrderInv, TokenInv, LeftAlone, QueueInv, CycleInv, InShape, KnowsItsRows, SendsUnseen, InReads

\* Every row is read in time after a step.
LEMMA ReadsNext ==
  Undisturbed /\ BridgeInv /\ OrderInv' /\ [Next]_vars => ReadsInTime'
<1> SUFFICES ASSUME Undisturbed, BridgeInv, OrderInv', [Next]_vars, NEW r \in Runtimes, NEW i \in RowIds,
                    SendsUnseen(r, cyc'[r], i)
             PROVE  /\ Newer(i)' => token'[log'[i].key] < bridge'.at[log'[i].key]
                    /\ \A q \in Runtimes \ {r} : cyc'[q].pc = "answered" =>
                         \A j \in Held(log', cyc'[q].send, cyc'[q].claim) : log'[j].key # log'[i].key
  BY DEF ReadsInTime, SendsUnseen
<1>0. /\ OrderInv /\ ReadsInTime /\ InFlightLoses /\ BridgeKnows /\ LeftAlone /\ LeftAlone' /\ CycleInv /\ CycleInv'
      /\ TokenInv /\ TypeOK /\ TypeOK' /\ OldestFirstIn(log') /\ ChosenInOrder' /\ Stays(log, log')
  BY StaysNext
  DEF BridgeInv, OrderInv, TokenInv, LeftAlone, QueueInv, CycleInv, QueueOrdered, Ordered, NeverRequeues
<1>1. CASE Holds(log', cyc'[r], i)
  <2>1. ASSUME NEW j \in bridge'.history, log'[j].key = log'[i].key, i < j PROVE FALSE
    <3>1. Overtakes(log', j)
      BY <1>0, <2>1 DEF ChosenInOrder
    <3> QED BY <1>1, <2>1, <3>1 DEF Overtakes, Holds, Queued
  <2>2. ASSUME NEW q \in Runtimes \ {r}, cyc'[q].pc = "answered",
               NEW j \in Held(log', cyc'[q].send, cyc'[q].claim), log'[j].key = log'[i].key
        PROVE  FALSE
    <3>1. j \in RowIds /\ log'[j].status = "processing" /\ log'[j].claim = cyc'[q].claim
      BY <1>0, <2>2, AnsweredHeld
    <3>2. i = j
      BY <1>0, <1>1, <2>2, <3>1, HeldAlone DEF Holds
    <3>3. cyc'[q].claim.owner = q /\ cyc'[r].claim.owner = r
      <4>1. cyc'[r].pc \notin {"idle", "swept"}
        BY DEF SendsUnseen
      <4> QED BY <1>0, <2>2, <4>1 DEF CycleInv, InShape, KeepsItsLists
    <3> QED BY <1>1, <2>2, <3>1, <3>2, <3>3 DEF Holds
  <2> QED BY <2>1, <2>2 DEF Newer
<1>2. CASE SendsUnseen(r, cyc[r], i)
  <2> DEFINE k == log[i].key
  <2>1. /\ log[i].status # "absent" /\ InReads(r) /\ cyc[r].pc \notin {"fetched", "answered"}
        /\ k \in Keys /\ log'[i].key = k
    BY <1>0, <1>2, UnseenIsRead DEF Stays, SameIntent, TypeOK, Row
  <2>2. /\ Newer(i) => token[k] < bridge.at[k]
        /\ \A q \in Runtimes \ {r} : cyc[q].pc = "answered" =>
             \A j \in Held(log, cyc[q].send, cyc[q].claim) : log[j].key # k
    BY <1>0, <1>2 DEF ReadsInTime
  <2>3. /\ bridge.at[k] <= bridge'.at[k] /\ token[k] <= bridge.at[k]
        /\ bridge.at[k] \in Nat /\ bridge'.at[k] \in Nat /\ token[k] \in Tokens
    <3>1. bridge.at[k] <= bridge'.at[k]
      BY <1>0, <2>1, BridgeForward DEF TokenInv, TokensKnown
    <3> QED BY <1>0, <2>1, <3>1 DEF TokenInv, TokensKnown, TypeOK, Bridge
  <2>4. ASSUME NEW j \in bridge'.history, log'[j].kind = "update", log'[j].key = k, i < j
        PROVE  token'[k] < bridge'.at[k]
    <3>1. CASE j \in bridge.history
      <4>1. log[j].kind = "update" /\ log[j].key = k
        BY <1>0, <2>4, <3>1, HistoryStays DEF SameIntent
      <4>2. token[k] # NoToken /\ token[k] < bridge.at[k]
        BY <1>0, <2>2, <2>4, <3>1, <4>1 DEF BridgeKnows, Newer
      <4>3. ASSUME token'[k] # token[k] PROVE FALSE
        <5>1. PICK x \in Runtimes : Advance(x) \/ EarlyThrow(x) \/ Crash(x)
          BY <1>0, <4>3, Bystanders DEF Next, OrderInv, TokenInv, LocalEdit, Tick, BridgeEdit, StrayArrives, vars
        <5>2. cyc[x].pc = "answered"
          BY <1>0, <2>1, <4>2, <4>3, <5>1, TokenMoves
        <5>3. \E h \in RowIds : /\ log[h].status = "processing" /\ log[h].claim = cyc[x].claim
                                /\ log[h].key = k /\ h \in cyc[x].send
          BY <1>0, <2>1, <4>3, <5>1, <5>2, TokenMoves
        <5>4. x # r
          BY <2>1, <5>2
        <5> QED BY <2>2, <5>2, <5>3, <5>4 DEF Held
      <4>4. token'[k] = token[k]
        BY <4>3
      <4> QED BY <2>3, <4>2, <4>4 DEF Tokens, NoToken
    <3>2. CASE j \notin bridge.history
      <4>1. log' = log
        BY <1>0, <3>2, <2>4, BridgeTakesIn
      <4>2. token' = token /\ bridge.at[k] < bridge'.at[k]
        BY <1>0, <2>4, <3>2, <4>1, NewMovesToken
      <4> QED BY <2>3, <4>2 DEF Tokens, NoToken
    <3> QED BY <3>1, <3>2
  <2>5. ASSUME NEW q \in Runtimes \ {r}, cyc'[q].pc = "answered",
               NEW j \in Held(log', cyc'[q].send, cyc'[q].claim), log'[j].key = k
        PROVE  FALSE
    <3>1. ~BridgeAnswers(q)
      BY <2>1, <2>5 DEF BridgeAnswers, TimeMayPass, Undisturbed
    <3>2. cyc'[q] = cyc[q] /\ j \in Held(log, cyc[q].send, cyc[q].claim) /\ j \in RowIds
      BY <1>0, <2>5, <3>1, AnsweredHeld
    <3>3. log[j].key = k
      BY <1>0, <2>5, <3>2 DEF Held, Stays, SameIntent
    <3> QED BY <2>2, <2>5, <3>2, <3>3
  <2> QED BY <2>1, <2>4, <2>5 DEF Newer
<1> QED BY <1>0, <1>1, <1>2, UnseenStep

\* A request goes out right after the tokens were read, or after the missing ones were stored.
LEMMA PostedFrom ==
  ASSUME CycleInv, TypeOK', NEW r \in Runtimes, Advance(r) \/ EarlyThrow(r) \/ Crash(r), cyc'[r].pc = "posted"
  PROVE  ReadTokens(r) \/ StoreFetched(r)
<1>1. cyc[r].pc \in {"checked", "fetched"}
  <2>1. Moves(r, log', cyc[r], cyc'[r])
    BY RuntimeMoves
  <2> QED BY <2>1 DEF Moves, StandsStill, NoCycle, StartsRound, ChoosesEdits, ChoosesRating, Drops,
                      SplitsUp, Confirms, TurnsOver
<1>2. ASSUME FailCycle(r) \/ Crash(r) PROVE FALSE
  <2>1. Continue(r, NoCycle)
    BY <1>2 DEF FailCycle, Crash
  <2>2. cyc'[r] = NoCycle
    BY <2>1 DEF Continue, CycleInv, TypeOK
  <2> QED BY <2>2 DEF NoCycle
<1> QED BY <1>1, <1>2 DEF Advance, Send, Rate, NativeSweep, ClaimBatch, BeginSend, IsolateNext,
         FetchMissing, BridgeAnswers, ApplyResponse, RejectRound,
         RejectIsolated, RejectLone, EndIsolation, RatingCheck, RatingArrives,
         RatingDelivered, RatingRefused, RatingUnsettled, EndRound, EarlyThrow

\* Every row that goes out after the missing tokens were stored is held and has a base.
LEMMA SendableHasBase ==
  ASSUME TypeOK, NEW c \in Cycle, NEW i \in Sendable(c)
  PROVE  /\ i \in c.send /\ log[i].status = "processing" /\ log[i].claim = c.claim
         /\ AfterFetch(c)[i].status = "processing" /\ AfterFetch(c)[i].claim = c.claim
         /\ AfterFetch(c)[i].key = log[i].key /\ c.base[log[i].key] # NoToken
<1> DEFINE unreachable == {x \in c.send : /\ c.base[log[x].key] = NoToken
                                          /\ log[x].key \notin c.gone}
           back == Settle(log, unreachable, c.claim, "pending")
           done == GiveKeysUp(back, c.gone, c.send, c.claim)
<1>1. AfterFetch(c) = done
  BY DEF AfterFetch
<1>2. i \in c.send /\ i \in RowIds /\ done[i].status = "processing" /\ done[i].claim = c.claim
  BY <1>1 DEF Sendable, Held, Cycle
<1>3. log \in Logs /\ unreachable \subseteq c.send
  BY DEF TypeOK, Logs
<1> HIDE DEF unreachable
<1>4. back[i] = IF i \in Held(log, unreachable, c.claim)
                  THEN [log[i] EXCEPT !.status = "pending", !.claim = NoClaim] ELSE log[i]
  BY <1>2 DEF Settle
<1>5. back[i] \in Row
  BY <1>2, <1>3, <1>4 DEF Logs, Row, Statuses, Queued, Claims
<1> HIDE DEF back
<1>6. ~(i \in Held(back, c.send, c.claim) /\ back[i].key \in c.gone) /\ done[i] = back[i]
  <2>1. \/ done[i] = [back[i] EXCEPT !.status = "dead_letter", !.claim = NoClaim]
        \/ ~(i \in Held(back, c.send, c.claim) /\ back[i].key \in c.gone) /\ done[i] = back[i]
    BY <1>2 DEF GiveKeysUp
  <2>2. [back[i] EXCEPT !.status = "dead_letter", !.claim = NoClaim].status = "dead_letter"
    BY <1>5 DEF Row
  <2> QED BY <1>2, <2>1, <2>2
<1>7. back[i] = log[i] /\ i \notin Held(log, unreachable, c.claim)
  <2>1. i \in Held(log, unreachable, c.claim) => back[i].status = "pending"
    BY <1>2, <1>3, <1>4 DEF Logs, Row
  <2> QED BY <1>2, <1>4, <1>6, <2>1
<1>8. log[i].key \notin c.gone /\ i \notin unreachable
  BY <1>2, <1>6, <1>7 DEF Held
<1> QED BY <1>1, <1>2, <1>6, <1>7, <1>8 DEF unreachable

\* What lost stays lost: a base below the bridge's token of an overtaken edit.
LEMMA LosesOn ==
  ASSUME BridgeInv, OrderInv', [Next]_vars, NEW i \in RowIds, Overtakes(log, i), NEW base \in [Keys -> Tokens],
         \A k \in Keys : base[k] <= bridge.at[k],
         token[log[i].key] # NoToken, Newer(i) => base[log[i].key] < bridge.at[log[i].key]
  PROVE  /\ log'[i].key = log[i].key /\ log'[i].kind = log[i].kind /\ token'[log'[i].key] # NoToken
         /\ Newer(i)' => base[log'[i].key] < bridge'.at[log'[i].key]
<1> DEFINE k == log[i].key
<1>0. /\ OrderInv /\ InFlightLoses /\ BridgeKnows /\ TypeOK /\ TypeOK' /\ TokenInv /\ Stays(log, log')
      /\ k \in Keys
  BY StaysNext DEF BridgeInv, OrderInv, TokenInv, LeftAlone, QueueInv, CycleInv, TypeOK, Row
<1>1. log'[i].key = k /\ log'[i].kind = log[i].kind
  BY <1>0 DEF Overtakes, Stays, SameIntent
<1>2. token'[k] # NoToken
  BY <1>0, TokenStays
<1>3. /\ bridge.at[k] <= bridge'.at[k] /\ base[k] <= bridge.at[k]
      /\ bridge.at[k] \in Nat /\ bridge'.at[k] \in Nat /\ base[k] \in Tokens
  <2>1. bridge.at[k] <= bridge'.at[k]
    BY <1>0, BridgeForward DEF TokenInv, TokensKnown
  <2> QED BY <1>0, <2>1 DEF TypeOK, Bridge
<1>4. ASSUME NEW j \in bridge'.history, log'[j].kind = "update", log'[j].key = k, i < j
      PROVE  base[k] < bridge'.at[k]
  <2>1. CASE j \in bridge.history
    <3>1. log[j].kind = "update" /\ log[j].key = k
      BY <1>0, <1>4, <2>1, HistoryStays DEF SameIntent
    <3>2. base[k] < bridge.at[k]
      BY <1>4, <2>1, <3>1 DEF Newer
    <3> QED BY <1>3, <3>2 DEF Tokens, NoToken
  <2>2. CASE j \notin bridge.history
    <3>1. log' = log
      BY <1>0, <2>2, <1>4, BridgeTakesIn
    <3>2. bridge.at[k] < bridge'.at[k]
      BY <1>0, <1>4, <2>2, <3>1, NewMovesToken
    <3> QED BY <1>3, <3>2 DEF Tokens, NoToken
  <2> QED BY <2>1, <2>2
<1> QED BY <1>1, <1>2, <1>4 DEF Newer

\* No request under way can replace a newer edit after a step.
LEMMA InFlightNext ==
  BridgeInv /\ OrderInv' /\ [Next]_vars => InFlightLoses'
<1> SUFFICES ASSUME BridgeInv, OrderInv', [Next]_vars PROVE InFlightLoses'
  OBVIOUS
<1>0. /\ OrderInv /\ ReadsInTime /\ InFlightLoses /\ LeftAlone /\ LeftAlone' /\ CycleInv /\ CycleInv'
      /\ TokenInv /\ TypeOK /\ TypeOK' /\ ChosenInOrder /\ ChosenInOrder'
  BY DEF BridgeInv, OrderInv, TokenInv, LeftAlone, QueueInv, CycleInv
<1>1. /\ \A r \in Runtimes : /\ cyc[r] \in Cycle /\ cyc'[r] \in Cycle /\ cyc[r].send \subseteq RowIds
                             /\ cyc'[r].send \subseteq RowIds /\ cyc[r].base \in [Keys -> Tokens]
      /\ \A q \in stray : q.send \subseteq RowIds /\ q.base \in [Keys -> Tokens]
      /\ \A i \in RowIds : log[i].key \in Keys /\ log'[i].key \in Keys
  BY <1>0 DEF TypeOK, Cycle, Requests, Row
<1>2. ASSUME NEW r \in Runtimes, cyc[r].pc = "posted", NEW i \in cyc[r].send
      PROVE  /\ token'[log'[i].key] # NoToken
             /\ Newer(i)' => cyc[r].base[log'[i].key] < bridge'.at[log'[i].key]
  <2>1. Overtakes(log, i) /\ \A k \in Keys : cyc[r].base[k] <= bridge.at[k]
    BY <1>0, <1>2 DEF ChosenInOrder, ToDo, TokenInv, TokensKnown
  <2>2. token[log[i].key] # NoToken /\ (Newer(i) => cyc[r].base[log[i].key] < bridge.at[log[i].key])
    BY <1>0, <1>2 DEF InFlightLoses
  <2> QED BY <1>1, <1>2, <2>1, <2>2, LosesOn
<1>3. ASSUME NEW q \in stray, NEW i \in q.send, log'[i].kind = "update"
      PROVE  /\ token'[log'[i].key] # NoToken
             /\ Newer(i)' => q.base[log'[i].key] < bridge'.at[log'[i].key]
  <2>1. Overtakes(log, i) /\ \A k \in Keys : q.base[k] <= bridge.at[k]
    BY <1>0, <1>3 DEF ChosenInOrder, TokenInv, TokensKnown
  <2>2. log[i].kind = "update"
    <3>1. Stays(log, log')
      BY <1>0, StaysNext
    <3> QED BY <1>1, <1>3, <2>1, <3>1 DEF Stays, SameIntent, Overtakes
  <2>3. token[log[i].key] # NoToken /\ (Newer(i) => q.base[log[i].key] < bridge.at[log[i].key])
    BY <1>0, <1>3, <2>2 DEF InFlightLoses
  <2> QED BY <1>1, <1>3, <2>1, <2>3, LosesOn
<1>4. ASSUME NEW r \in Runtimes, cyc'[r].pc = "posted", NEW i \in cyc'[r].send
      PROVE  /\ token'[log'[i].key] # NoToken
             /\ Newer(i)' => cyc'[r].base[log'[i].key] < bridge'.at[log'[i].key]
  <2>1. CASE cyc'[r] = cyc[r]
    BY <1>2, <1>4, <2>1
  <2>2. CASE cyc'[r] # cyc[r]
    <3>0. Advance(r) \/ EarlyThrow(r) \/ Crash(r)
      <4>1. PICK x \in Runtimes : Advance(x) \/ EarlyThrow(x) \/ Crash(x)
        BY <2>2 DEF Next, Environment, KeepLocal, KeepBridge, LocalEdit, Tick, BridgeEdit, StrayArrives, vars
      <4>2. x = r
        BY <1>0, <2>2, <4>1, OtherKeeps
      <4> QED BY <4>1, <4>2
    <3>1. CASE ReadTokens(r)
      <4> DEFINE base == [k \in Keys |-> IF k \in KeysOf(cyc[r].send) THEN token[k] ELSE NoToken]
                 pc   == IF \E k \in KeysOf(cyc[r].send) : token[k] = NoToken THEN "fetching" ELSE "posted"
      <4>1. /\ cyc[r].pc = "checked" /\ log' = log /\ token' = token /\ bridge' = bridge
            /\ cyc'[r] = [cyc[r] EXCEPT !.base = base, !.pc = pc]
        BY <1>0, <3>1 DEF ReadTokens, Continue, TypeOK
      <4> HIDE DEF base, pc
      <4>2. cyc'[r].send = cyc[r].send /\ cyc'[r].base = base /\ cyc'[r].pc = pc
        BY <1>1, <4>1 DEF Cycle
      <4>3. log[i].key \in KeysOf(cyc[r].send) /\ i \in RowIds
        BY <1>1, <1>4, <4>2 DEF KeysOf
      <4>4. token[log[i].key] # NoToken /\ base[log[i].key] = token[log[i].key]
        BY <1>1, <1>4, <4>2, <4>3 DEF pc, base
      <4>5. Newer(i) => token[log[i].key] < bridge.at[log[i].key]
        BY <1>0, <1>4, <4>1, <4>2, <4>3 DEF ReadsInTime, SendsUnseen
      <4> QED BY <4>1, <4>2, <4>4, <4>5 DEF Newer
    <3>2. CASE StoreFetched(r)
      <4> DEFINE c == cyc[r]
      <4>1. /\ log' = AfterFetch(c) /\ token' = [k \in Keys |-> FetchedToken(c, k)]
            /\ cyc'[r] = [c EXCEPT !.pc = "posted", !.gone = {}, !.send = Sendable(c)]
        BY <1>0, <3>2 DEF StoreFetched, Continue, TypeOK
      <4>2. cyc'[r].send = Sendable(c) /\ cyc'[r].base = c.base
        BY <1>1, <4>1 DEF Cycle
      <4>3. /\ i \in RowIds /\ log[i].status = "processing" /\ log[i].claim = c.claim
            /\ log'[i].status = "processing" /\ log'[i].key = log[i].key /\ c.base[log[i].key] # NoToken
        BY <1>0, <1>1, <1>4, <4>1, <4>2, SendableHasBase
      <4>4. token'[log[i].key] # NoToken
        BY <1>1, <4>1, <4>3 DEF FetchedToken, HoldsKey
      <4>5. ASSUME NEW j \in bridge'.history, log'[j].key = log'[i].key, i < j PROVE FALSE
        <5>1. Overtakes(log', j)
          BY <1>0, <4>5 DEF ChosenInOrder
        <5> QED BY <4>3, <4>5, <5>1 DEF Overtakes, Queued
      <4> QED BY <4>3, <4>4, <4>5 DEF Newer
    <3> QED BY <1>0, <1>4, <3>0, <3>1, <3>2, PostedFrom
  <2> QED BY <2>1, <2>2
<1>5. ASSUME NEW q \in stray', NEW i \in q.send, log'[i].kind = "update"
      PROVE  /\ token'[log'[i].key] # NoToken
             /\ Newer(i)' => q.base[log'[i].key] < bridge'.at[log'[i].key]
  <2>1. CASE q \in stray
    BY <1>3, <1>5, <2>1
  <2>2. CASE q \notin stray
    <3>1. PICK r \in Runtimes : Advance(r) \/ EarlyThrow(r) \/ Crash(r)
      BY <1>5, <2>2 DEF Next, Environment, KeepLocal, KeepBridge, LocalEdit, Tick, BridgeEdit, StrayArrives, vars
    <3>2. q.send = cyc[r].send /\ q.base = cyc[r].base /\ cyc[r].pc \in {"posted", "rating_posted"}
      BY <1>0, <1>5, <2>2, <3>1, StrayRows
    <3>3. CASE cyc[r].pc = "posted"
      BY <1>2, <1>5, <3>2, <3>3
    <3>4. CASE cyc[r].pc = "rating_posted"
      <4>1. log[i].kind = "season_rating" /\ log[i].status # "absent" /\ i \in RowIds
        BY <1>0, <1>1, <1>5, <3>2, <3>4 DEF CycleInv, InShape, KnowsItsRows, Rating, ToDo
      <4>2. Stays(log, log')
        BY <1>0, StaysNext
      <4> QED BY <1>5, <4>1, <4>2 DEF Stays, SameIntent
    <3> QED BY <3>2, <3>3, <3>4
  <2> QED BY <2>1, <2>2
<1> QED BY <1>4, <1>5 DEF InFlightLoses

\* At first nothing was sent.
LEMMA BridgeInit == Choices = {} /\ Init => BridgeInv
<1> SUFFICES ASSUME Choices = {}, Init PROVE BridgeInv
  OBVIOUS
<1>1. /\ \A r \in Runtimes : cyc[r] = NoCycle
      /\ stray = {} /\ bridge.history = {} /\ \A k \in Keys : bridge.last[k] = 0
      /\ \A i \in RowIds : log[i].status = "absent"
  BY DEF Init, AbsentRow
<1>2. NoCycle.pc = "idle" /\ ~NoCycle.isolating /\ NoCycle.next = {} /\ NoCycle.edits = {}
      /\ NoCycle.ratings = {} /\ NoCycle.send = {}
  BY DEF NoCycle
<1>3. TokenInv
  BY ShapeInit, OrderedInit, TokenInit DEF TokenInv, LeftAlone, QueueInv, Init, RatingsAreDeadLetters, AbsentRow
<1>4. ChosenInOrder
  BY <1>1, <1>2 DEF ChosenInOrder, ToDo
<1>5. ListsApart
  BY <1>1, <1>2 DEF ListsApart, Apart, ToDo
<1>6. Plain
  BY <1>1, <1>2 DEF Plain, PlainCycle
<1>7. ReadsInTime
  BY <1>1, <1>2 DEF ReadsInTime, SendsUnseen
<1>8. InFlightLoses
  BY <1>1, <1>2 DEF InFlightLoses
<1>9. BridgeKnows /\ NoStaleOverwrite
  BY <1>1 DEF BridgeKnows, NoStaleOverwrite
<1> QED BY <1>3, <1>4, <1>5, <1>6, <1>7, <1>8, <1>9 DEF BridgeInv, OrderInv

\* The tokens stay known and newer.
LEMMA TokenNext == TokenInv /\ [Next]_vars => TokenInv'
BY LeftAloneNext, KnownNext, AnswersNext DEF TokenInv, LeftAlone, QueueInv, CycleInv

\* R-3 and R-14, the point of sending in order with a base on every edit: at the bridge, an edit of
\* this device never replaces a newer edit of the same anime.  It holds for every number of rows,
\* anime and faults with processes that are not frozen between their reads; beside the native
\* runtime, with edits alone and no request refused, as its chain sends rows it may have lost; and
\* while the user queues no edit that was given up again: that one is sent after the newer ones.
THEOREM KeepsTheNewest ==
  ASSUME Undisturbed, Choices = {}
  PROVE  Spec => []NoStaleOverwrite
<1>1. BridgeInv /\ [Next]_vars => BridgeInv'
  <2> SUFFICES ASSUME BridgeInv, [Next]_vars PROVE BridgeInv'
    OBVIOUS
  <2>1. TokenInv' /\ LeftAlone'
    BY TokenNext DEF BridgeInv, OrderInv, TokenInv
  <2>2. OrderInv'
    BY <2>1, OrderNext, PlainNext DEF BridgeInv, OrderInv, TokenInv
  <2> QED BY <2>1, <2>2, KnowsNext, ReadsNext, InFlightNext DEF BridgeInv
<1>2. BridgeInv => NoStaleOverwrite
  BY DEF BridgeInv
<1> QED BY <1>1, <1>2, BridgeInit, PTL DEF Spec

-----------------------------------------------------------------------------
(* R-13: whoever sends a row holds it.                                      *)

\* From log l to log m no row that another claim than this one holds is touched.
Spares(l, m, claim) ==
  \A i \in RowIds : l[i].status = "processing" /\ l[i].claim # claim => m[i] = l[i]

\* Sparing one statement after the other.
LEMMA SparesAgain ==
  ASSUME NEW l, NEW m, NEW n, NEW claim, Spares(l, m, claim), Spares(m, n, claim)
  PROVE  Spares(l, n, claim)
BY DEF Spares

\* Every status write is guarded by its claim.
LEMMA SettleSpares ==
  ASSUME NEW l, NEW ids, NEW claim, NEW status
  PROVE  Spares(l, Settle(l, ids, claim, status), claim)
BY DEF Spares, Settle, Held

\* So is the one that counts conflicts.
LEMMA SettleConflictSpares ==
  ASSUME NEW l, NEW ids, NEW claim, NEW outcome
  PROVE  Spares(l, SettleConflict(l, ids, claim, outcome), claim)
BY DEF Spares, SettleConflict, Held

\* Deleting rows that were given up touches none that is being sent.
LEMMA DeleteSpares ==
  ASSUME NEW l, NEW ids, NEW claim, \A i \in ids : l[i].status \in GivenUp
  PROVE  Spares(l, Delete(l, ids), claim)
BY DEF Spares, Delete, GivenUp

\* Giving keys up takes the rows of the claim and rows that wait.
LEMMA GiveKeysUpSpares ==
  ASSUME NEW l, NEW keys, NEW ids, NEW claim
  PROVE  Spares(l, GiveKeysUp(l, keys, ids, claim), claim)
BY DEF Spares, GiveKeysUp, Held

\* The chain takes rows that wait.
LEMMA TakeSpares ==
  ASSUME NEW l, NEW ids, NEW claim, \A i \in ids : l[i].status = "pending"
  PROVE  Spares(l, Take(l, ids, claim), claim)
BY DEF Spares, Take

\* The statements of one answer spare what others hold.
LEMMA SettledBySpares ==
  ASSUME NEW c
  PROVE  Spares(log, SettledBy(c), c.claim)
<1> DEFINE outcome  == [i \in Said(c, "conflict") |->
                          ConflictOutcome(log[i], c.base[log[i].key],
                                          c.answer.token[log[i].key])]
           conflict == SettleConflict(log, Said(c, "conflict"), c.claim, outcome)
           dead     == Settle(conflict, Said(c, "unsupported"), c.claim, "dead_letter")
           synced   == Settle(dead, ConfirmedBy(c), c.claim, "synced")
           settled  == Settle(synced, Said(c, "silent"), c.claim, "pending")
           old      == SupersededEdits(settled, Held(log, ConfirmedBy(c), c.claim))
<1>1. Spares(log, conflict, c.claim)
  <2> HIDE DEF outcome
  <2> QED BY SettleConflictSpares
<1> HIDE DEF conflict
<1>2. Spares(conflict, dead, c.claim)
  BY SettleSpares
<1> HIDE DEF dead
<1>3. Spares(dead, synced, c.claim)
  BY SettleSpares
<1> HIDE DEF synced
<1>4. Spares(synced, settled, c.claim)
  BY SettleSpares
<1> HIDE DEF settled
<1>5. Spares(settled, Delete(settled, old), c.claim)
  <2>1. \A i \in old : settled[i].status \in GivenUp
    BY DEF SupersededEdits
  <2> HIDE DEF old
  <2> QED BY <2>1, DeleteSpares
<1> HIDE DEF old
<1>6. Spares(log, Delete(settled, old), c.claim)
  BY <1>1, <1>2, <1>3, <1>4, <1>5, SparesAgain
<1> QED BY <1>6 DEF SettledBy, old, settled, synced, dead, conflict

\* No step of a runtime touches a row the other holds under a live claim.
LEMMA LiveIsLeft ==
  ASSUME CycleInv, NEW r \in Runtimes, Advance(r) \/ EarlyThrow(r) \/ Crash(r),
         NEW i \in RowIds, log[i].status = "processing", log[i].claim.owner \in Runtimes \ {r},
         IsLive(log[i].claim, clock)
  PROVE  log'[i] = log[i]
<1> DEFINE c == cyc[r]
<1>1. CASE log' = log
  BY <1>1
<1>2. CASE ClaimBatch(r)
  <2>1. i \notin Backlog(log, clock)
    BY DEF Backlog, KeyIsClaimed
  <2>2. \E claim : log' = Take(log, Backlog(log, clock), claim)
    BY <1>2 DEF ClaimBatch
  <2> HIDE DEF c
  <2> QED BY <2>1, <2>2 DEF Take
<1>3. CASE NativeSweep(r)
  <2>1. log' = ReturnOrphans(log, clock)
    BY <1>3 DEF NativeSweep
  <2> QED BY <2>1 DEF ReturnOrphans
<1>4. ASSUME c.pc \notin {"idle", "swept"}, Spares(log, log', c.claim) PROVE log'[i] = log[i]
  <2>1. c.claim.owner = r
    BY <1>4 DEF CycleInv, InShape, KeepsItsLists
  <2> QED BY <1>4, <2>1 DEF Spares
<1>5. CASE StoreFetched(r)
  <2>1. log' = AfterFetch(c) /\ c.pc = "fetched"
    BY <1>5 DEF StoreFetched
  <2>2. Spares(log, AfterFetch(c), c.claim)
    BY SettleSpares, GiveKeysUpSpares, SparesAgain DEF AfterFetch
  <2> QED BY <1>4, <2>1, <2>2
<1>6. CASE RejectIsolated(r) \/ FailCycle(r) \/ RatingRefused(r) \/ RatingUnsettled(r)
  <2>1. c.pc \notin {"idle", "swept"} /\ \E ids, status : log' = Settle(log, ids, c.claim, status)
    BY <1>6 DEF RejectIsolated, FailCycle, RatingRefused, RatingUnsettled
  <2> QED BY <1>4, <2>1, SettleSpares
<1>7. CASE RejectLone(r)
  <2>1. /\ c.pc \notin {"idle", "swept"}
        /\ log' = Settle(Settle(log, c.send, c.claim, "dead_letter"), c.mine, c.claim, "pending")
    BY <1>7 DEF RejectLone
  <2>2. Spares(log, log', c.claim)
    BY <2>1, SettleSpares, SparesAgain
  <2> QED BY <1>4, <2>1, <2>2
<1>8. CASE ApplyResponse(r)
  <2> DEFINE mid  == SettledBy(c)
             next == Successors(mid, KeysOf(Held(log, ConfirmedBy(c), c.claim)), c.claim)
  <2>1. log' = Take(mid, next, c.claim) /\ c.pc = "answered"
    BY <1>8 DEF ApplyResponse
  <2>2. Spares(log, mid, c.claim) /\ \A j \in next : mid[j].status = "pending"
    BY SettledBySpares, SuccessorsPending
  <2> HIDE DEF mid, next
  <2>3. Spares(log, log', c.claim)
    BY <2>1, <2>2, TakeSpares, SparesAgain
  <2> QED BY <1>4, <2>1, <2>3
<1>9. CASE RatingDelivered(r)
  <2> DEFINE synced == Settle(log, c.send, c.claim, "synced")
             old    == SupersededRatings(synced, Held(log, c.send, c.claim))
             mid    == Delete(synced, old)
             next   == Successors(mid, KeysOf(Held(log, c.send, c.claim)), c.claim)
  <2>1. log' = Take(mid, next, c.claim) /\ c.pc = "rating_answered"
    BY <1>9 DEF RatingDelivered
  <2>2. Spares(log, synced, c.claim) /\ \A j \in next : mid[j].status = "pending"
    BY SettleSpares, SuccessorsPending
  <2>3. \A j \in old : synced[j].status \in GivenUp
    BY DEF SupersededRatings, GivenUp
  <2> HIDE DEF synced, old
  <2>4. Spares(synced, mid, c.claim)
    BY <2>3, DeleteSpares
  <2> HIDE DEF mid, next
  <2>5. Spares(log, log', c.claim)
    BY <2>1, <2>2, <2>4, TakeSpares, SparesAgain
  <2> QED BY <1>4, <2>1, <2>5
<1>10. CASE \/ EarlyThrow(r) \/ Crash(r) \/ BeginSend(r) \/ IsolateNext(r) \/ ReadTokens(r) \/ FetchMissing(r)
            \/ BridgeAnswers(r) \/ RejectRound(r) \/ EndIsolation(r) \/ RatingCheck(r) \/ RatingArrives(r)
            \/ EndRound(r)
  <2>1. UNCHANGED log
    BY <1>10 DEF EarlyThrow, Crash, BeginSend, IsolateNext, ReadTokens, FetchMissing, BridgeAnswers,
                 RejectRound, EndIsolation, RatingCheck, RatingArrives, EndRound
  <2> QED BY <1>1, <2>1
<1> QED BY <1>2, <1>3, <1>5, <1>6, <1>7, <1>8, <1>9, <1>10 DEF Advance, Send, Rate

\* The chain stops before a claim could have expired, as OUTBOX_CHAIN_BUDGET_MS and
\* OUTBOX_CLAIM_TTL_MS are.
ChainsInTime == ChainBudget <= ClaimTtl /\ 0 < ClaimTtl

\* Row i goes out with the next request of cycle c.
GoesNext(c, i) ==
  \/ c.pc = "round" /\ i \in c.edits
  \/ c.pc = "rating" /\ i \in c.next

\* What native is about to send without looking is its own, under a claim that is live.
NativeHoldsNext ==
  "native" \in Runtimes => \A i \in RowIds : GoesNext(cyc["native"], i) =>
    Holds(log, cyc["native"], i) /\ IsLive(cyc["native"].claim, clock)

\* A step of native that has a row to go out has claimed it under a live claim or had it before.
LEMMA NativeHoldsOwn ==
  ASSUME Undisturbed, ChainsInTime, OrderInv, TypeOK', NativeHoldsNext, "native" \in Runtimes,
         Advance("native") \/ EarlyThrow("native") \/ Crash("native"),
         NEW i \in RowIds, GoesNext(cyc'["native"], i)
  PROVE  Holds(log', cyc'["native"], i) /\ IsLive(cyc'["native"].claim, clock')
<1> DEFINE r == "native"
           c == cyc[r]
           d == cyc'[r]
<1>0. /\ r \in Runtimes /\ TypeOK /\ c \in Cycle /\ log \in Logs /\ InShape(log, Evidence, r, c)
      /\ PlainCycle(c) /\ "reject" \notin Refusals
      /\ clock \in Nat /\ ClaimTtl \in Nat /\ ChainBudget \in Nat /\ ChainBudget <= ClaimTtl /\ 0 < ClaimTtl
  BY OperationLogAssumption, OutboxAssumption
  DEF OrderInv, TokenInv, LeftAlone, QueueInv, CycleInv, TypeOK, Logs, Plain, Undisturbed, ChainsInTime
<1>1. ASSUME NEW x, Continue(r, x) PROVE d = x
  BY <1>0, <1>1 DEF Continue, TypeOK
<1>2. ASSUME d.pc \notin {"round", "rating"} PROVE FALSE
  BY <1>2 DEF GoesNext
<1>3. c.ratings = {}
  <2>1. /\ c.ratings \subseteq RowIds
        /\ \A j \in c.ratings : log[j].kind = "season_rating" /\ log[j].status # "absent"
    BY <1>0 DEF Cycle, InShape, KnowsItsRows, ToDo
  <2> QED BY <1>0, <2>1 DEF OrderInv, Plain
<1>4. CASE ClaimBatch(r)
  <2> DEFINE claim == [owner |-> r, at |-> clock]
             ids   == Backlog(log, clock)
             since == IF r = "native" THEN c.since ELSE Since(cursor)
             x     == [NoCycle EXCEPT !.pc = "round", !.claim = claim, !.mine = ids, !.first = TRUE,
                                      !.since = since,
                                      !.edits = Updates(ids), !.ratings = RatingsOf(ids)]
  <2>1. /\ log' = Take(log, ids, claim) /\ clock' = clock /\ d = x
        /\ ids \in SUBSET RowIds
    BY <1>1, <1>4 DEF ClaimBatch, Backlog, OldestQueued
  <2>2. d.pc = "round" /\ d.claim = claim /\ d.edits \subseteq ids
    BY <2>1 DEF NoCycle, Updates
  <2>3. i \in ids
    BY <2>2 DEF GoesNext
  <2>4. claim.owner = "native" /\ claim.at = clock
    OBVIOUS
  <2>5. IsLive(claim, clock)
    BY <1>0, <2>4 DEF IsLive, NoClaim
  <2> HIDE DEF claim, ids, since, x
  <2> QED BY <1>0, <2>1, <2>2, <2>3, <2>5, TakeHolds DEF Holds
<1>5. CASE ApplyResponse(r)
  <2> DEFINE mid  == SettledBy(c)
             next == Successors(mid, KeysOf(Held(log, ConfirmedBy(c), c.claim)), c.claim)
             x    == [c EXCEPT !.pc = IF c.isolating THEN "isolating" ELSE "rating",
                   !.delivered = c.isolating, !.since = Since(c.answer.cursor),
                   !.mine = c.mine \cup next, !.next = c.next \cup next, !.send = {},
                   !.base = NoBase, !.answer = NoAnswer]
  <2>1. log' = Take(mid, next, c.claim) /\ d = x /\ clock' = clock /\ c.pc = "answered"
    BY <1>1, <1>5 DEF ApplyResponse
  <2>2. mid \in Logs /\ next \in SUBSET RowIds
    BY <1>0, SettledByType, SuccessorsType
  <2>3. next # {} => clock < c.claim.at + ChainBudget
    <3>1. c.claim.at \in Nat
      BY <1>0 DEF Cycle, Claims, NoClaim
    <3> QED BY <1>0, <3>1 DEF Successors
  <2> HIDE DEF mid, next
  <2>4. d.pc # "round" /\ d.claim = c.claim /\ d.next = next
    BY <1>0, <2>1 DEF Cycle, PlainCycle
  <2>5. i \in next
    BY <2>4 DEF GoesNext
  <2>6. IsLive(c.claim, clock)
    <3>1. c.claim.owner = "native" /\ c.claim.at \in Nat
      BY <1>0, <2>1 DEF InShape, KeepsItsLists, Cycle, Claims, NoClaim
    <3> QED BY <1>0, <2>3, <2>5, <3>1 DEF IsLive, NoClaim
  <2> HIDE DEF x
  <2> QED BY <2>1, <2>2, <2>4, <2>5, <2>6, TakeHolds DEF Holds
<1>6. CASE EndRound(r)
  <2> DEFINE x == [c EXCEPT !.pc = IF Updates(c.next) = {} THEN "rating" ELSE "round",
                            !.first = FALSE, !.next = {},
                            !.edits = Updates(c.next), !.ratings = RatingsOf(c.next)]
  <2>1. log' = log /\ clock' = clock /\ c.pc = "rating" /\ (d = NoCycle \/ d = x)
    BY <1>1, <1>6 DEF EndRound
  <2>2. d = x
    BY <1>2, <2>1 DEF NoCycle
  <2>3. d.claim = c.claim /\ d.next = {} /\ d.edits \subseteq c.next
    BY <1>0, <2>2 DEF Cycle, Updates
  <2>4. GoesNext(c, i)
    BY <2>1, <2>3 DEF GoesNext
  <2> HIDE DEF x
  <2> QED BY <2>1, <2>3, <2>4 DEF NativeHoldsNext, Holds
<1>7. CASE NativeSweep(r) \/ BeginSend(r) \/ ReadTokens(r) \/ FetchMissing(r) \/ StoreFetched(r) \/ BridgeAnswers(r)
  <2>1. d.pc \notin {"round", "rating"}
    <3>1. CASE NativeSweep(r)
      BY <1>0, <1>1, <3>1 DEF NativeSweep, Cycle
    <3>2. CASE BeginSend(r)
      <4>1. \E s : Continue(r, [c EXCEPT !.pc = "checked", !.edits = {}, !.send = s])
        BY <3>2 DEF BeginSend
      <4>2. \E s : d = [c EXCEPT !.pc = "checked", !.edits = {}, !.send = s]
        BY <1>1, <4>1
      <4> QED BY <1>0, <4>2 DEF Cycle
    <3>3. CASE ReadTokens(r)
      <4>1. \E b, e : Continue(r, [c EXCEPT !.base = b, !.pc = IF e THEN "fetching" ELSE "posted"])
        BY <3>3 DEF ReadTokens
      <4>2. \E b, e : d = [c EXCEPT !.base = b, !.pc = IF e THEN "fetching" ELSE "posted"]
        BY <1>1, <4>1
      <4> QED BY <1>0, <4>2 DEF Cycle
    <3>4. CASE FetchMissing(r)
      <4>1. \E b, g : Continue(r, [c EXCEPT !.pc = "fetched", !.gone = g, !.base = b])
        BY <3>4 DEF FetchMissing
      <4>2. \E b, g : d = [c EXCEPT !.pc = "fetched", !.gone = g, !.base = b]
        BY <1>1, <4>1
      <4> QED BY <1>0, <4>2 DEF Cycle
    <3>5. CASE StoreFetched(r)
      <4>1. \E s : Continue(r, [c EXCEPT !.pc = "posted", !.gone = {}, !.send = s])
        BY <3>5 DEF StoreFetched
      <4>2. \E s : d = [c EXCEPT !.pc = "posted", !.gone = {}, !.send = s]
        BY <1>1, <4>1
      <4> QED BY <1>0, <4>2 DEF Cycle
    <3>6. CASE BridgeAnswers(r)
      <4>1. \E a : Continue(r, [c EXCEPT !.pc = "answered", !.answer = a])
        BY <3>6 DEF BridgeAnswers
      <4>2. \E a : d = [c EXCEPT !.pc = "answered", !.answer = a]
        BY <1>1, <4>1
      <4> QED BY <1>0, <4>2 DEF Cycle
    <3> QED BY <1>7, <3>1, <3>2, <3>3, <3>4, <3>5, <3>6
  <2> QED BY <1>2, <2>1
<1>8. CASE FailCycle(r) \/ Crash(r) \/ RejectLone(r)
  <2>1. Continue(r, NoCycle)
    BY <1>8 DEF FailCycle, Crash, RejectLone
  <2> QED BY <1>1, <1>2, <2>1 DEF NoCycle
<1>9. CASE \/ EarlyThrow(r) \/ IsolateNext(r) \/ RejectRound(r) \/ RejectIsolated(r) \/ EndIsolation(r)
           \/ RatingCheck(r) \/ RatingArrives(r) \/ RatingDelivered(r) \/ RatingRefused(r) \/ RatingUnsettled(r)
  <2>1. FALSE
    BY <1>0, <1>3, <1>9 DEF PlainCycle, EarlyThrow, IsolateNext, RejectRound, RejectIsolated, EndIsolation,
          RatingCheck, RatingArrives, RatingDelivered, RatingRefused, RatingUnsettled
  <2> QED BY <2>1
<1> QED BY <1>4, <1>5, <1>6, <1>7, <1>8, <1>9 DEF Advance, Send, Rate

\* It is never taken away before it is sent: what is live nobody takes, and while native reads no
\* time passes.
LEMMA NativeHoldsStep ==
  ASSUME Undisturbed, ChainsInTime, OrderInv, OrderInv', NativeHoldsNext, [Next]_vars
  PROVE  NativeHoldsNext'
<1> SUFFICES ASSUME "native" \in Runtimes, NEW i \in RowIds, GoesNext(cyc'["native"], i)
             PROVE  Holds(log', cyc'["native"], i) /\ IsLive(cyc'["native"].claim, clock')
  BY DEF NativeHoldsNext, Holds, GoesNext
<1> DEFINE c == cyc["native"]
<1>0. TypeOK /\ TypeOK' /\ CycleInv /\ CycleInv' /\ LeftAlone
  BY DEF OrderInv, TokenInv, LeftAlone, QueueInv, CycleInv
<1>1. CASE Environment \/ UNCHANGED vars
  <2>1. cyc' = cyc
    BY <1>1 DEF Environment, KeepLocal, KeepBridge, LocalEdit, Tick, BridgeEdit, StrayArrives, vars
  <2>2. Holds(log, c, i) /\ IsLive(c.claim, clock)
    BY <2>1 DEF NativeHoldsNext
  <2>3. InReads("native")
    BY <2>1 DEF GoesNext, InReads
  <2>4. clock' = clock
    <3>1. ~Tick
      BY <2>3 DEF Tick, TimeMayPass, Undisturbed
    <3> QED BY <1>1, <3>1 DEF Environment, KeepLocal, KeepBridge, LocalEdit, BridgeEdit, StrayArrives, vars
  <2>5. log'[i] = log[i]
    <3>1. ASSUME NEW k \in Keys, NEW kind \in RowKinds, LocalEdit(k, kind) PROVE log'[i] = log[i]
      BY <1>0, <2>2, <3>1 DEF LocalEdit, TypeOK, Holds
    <3> QED BY <1>0, <1>1, <3>1, Bystanders DEF Tick, BridgeEdit, StrayArrives, vars
  <2> QED BY <2>1, <2>2, <2>4, <2>5 DEF Holds
<1>2. ASSUME NEW r \in Runtimes, Advance(r) \/ EarlyThrow(r) \/ Crash(r)
      PROVE  Holds(log', cyc'["native"], i) /\ IsLive(cyc'["native"].claim, clock')
  <2>1. CASE r = "native"
    BY <1>0, <1>2, <2>1, NativeHoldsOwn
  <2>2. CASE r # "native"
    <3>1. cyc'["native"] = c
      BY <1>0, <1>2, <2>2, OtherKeeps
    <3>2. clock' = clock
      BY <1>2 DEF Advance, Send, Rate, NativeSweep, ClaimBatch, BeginSend, IsolateNext, ReadTokens,
                  FetchMissing, StoreFetched, BridgeAnswers, ApplyResponse, RejectRound,
                  RejectIsolated, RejectLone, EndIsolation, RatingCheck, RatingArrives,
                  RatingDelivered, RatingRefused, RatingUnsettled, EndRound, FailCycle,
                  EarlyThrow, Crash
    <3>3. Holds(log, c, i) /\ IsLive(c.claim, clock)
      BY <3>1 DEF NativeHoldsNext
    <3>4. c.claim.owner = "native"
      BY <1>0, <3>1 DEF GoesNext, CycleInv, InShape, KeepsItsLists
    <3>5. log'[i] = log[i]
      BY <1>0, <1>2, <2>2, <3>3, <3>4, LiveIsLeft DEF Holds
    <3> QED BY <3>1, <3>2, <3>3, <3>5 DEF Holds
  <2> QED BY <2>1, <2>2
<1> QED BY <1>1, <1>2 DEF Next

\* Rows are chosen for a request by the look at the claim or, in a native round, with the round.
LEMMA CheckedFrom ==
  ASSUME CycleInv, TypeOK', NEW r \in Runtimes, Advance(r) \/ EarlyThrow(r) \/ Crash(r),
         cyc[r].pc # "checked", cyc'[r].pc = "checked"
  PROVE  BeginSend(r) \/ IsolateNext(r)
<1>1. Moves(r, log', cyc[r], cyc'[r])
  BY RuntimeMoves
<1>2. cyc[r].pc \in {"round", "isolating"}
  BY <1>1 DEF Moves, StandsStill, NoCycle, StartsRound, ChoosesEdits, ChoosesRating, Drops,
                    SplitsUp, Confirms, TurnsOver
<1>3. ASSUME NEW x, Continue(r, x), x.pc # "checked" PROVE FALSE
  BY <1>3 DEF Continue, CycleInv, TypeOK
<1>4. ~(FailCycle(r) \/ Crash(r) \/ EarlyThrow(r))
  BY <1>3 DEF FailCycle, Crash, EarlyThrow, NoCycle
<1>5. ~EndIsolation(r)
  <2>1. cyc[r] \in Cycle
    BY DEF CycleInv, TypeOK
  <2> QED BY <1>3, <2>1 DEF EndIsolation, Cycle
<1> QED BY <1>2, <1>4, <1>5 DEF Advance, Send, Rate, NativeSweep, ClaimBatch, ReadTokens,
         FetchMissing, StoreFetched, BridgeAnswers, ApplyResponse, RejectRound,
         RejectIsolated, RejectLone, RatingCheck, RatingArrives,
         RatingDelivered, RatingRefused, RatingUnsettled, EndRound

\* The rows chosen are rows of their sender.
ChoosesHeld ==
  \A r \in Runtimes : cyc[r].pc # "checked" /\ cyc'[r].pc = "checked" =>
    Held(log', cyc'[r].send, cyc'[r].claim) = cyc'[r].send

\* So a step chooses held rows only.
LEMMA ChoosesStep ==
  ASSUME OrderInv, OrderInv', NativeHoldsNext, [Next]_vars
  PROVE  ChoosesHeld
<1> SUFFICES ASSUME NEW r \in Runtimes, cyc[r].pc # "checked", cyc'[r].pc = "checked"
             PROVE  Held(log', cyc'[r].send, cyc'[r].claim) = cyc'[r].send
  BY DEF ChoosesHeld
<1> DEFINE c == cyc[r]
<1>0. TypeOK /\ TypeOK' /\ CycleInv /\ CycleInv' /\ c \in Cycle
  BY DEF OrderInv, TokenInv, LeftAlone, QueueInv, CycleInv, TypeOK
<1>1. PICK x \in Runtimes : Advance(x) \/ EarlyThrow(x) \/ Crash(x)
  BY DEF Next, Environment, KeepLocal, KeepBridge, LocalEdit, Tick, BridgeEdit, StrayArrives, vars
<1>2. x = r
  BY <1>0, <1>1, OtherKeeps
<1>3. ASSUME NEW d, Continue(r, d) PROVE cyc'[r] = d
  BY <1>0, <1>3 DEF Continue, TypeOK
<1>4. CASE BeginSend(r)
  <2> DEFINE sent == IF r = "js" THEN Held(log, c.edits, c.claim) ELSE c.edits
             d    == [c EXCEPT !.pc = "checked", !.edits = {}, !.send = sent]
  <2>1. cyc'[r] = d /\ log' = log /\ c.pc = "round"
    BY <1>3, <1>4 DEF BeginSend
  <2>2. d.send = sent /\ d.claim = c.claim
    BY <1>0 DEF Cycle
  <2>3. Held(log, sent, c.claim) = sent
    <3>1. CASE r = "js"
      BY <3>1 DEF Held
    <3>2. CASE r # "js"
      <4>1. r = "native"
        BY <3>2, OperationLogAssumption
      <4>2. c.edits \subseteq RowIds /\ \A i \in c.edits : Holds(log, c, i)
        BY <1>0, <2>1, <4>1 DEF NativeHoldsNext, GoesNext, Cycle
      <4> QED BY <3>2, <4>2 DEF Held, Holds
    <3> QED BY <3>1, <3>2
  <2> HIDE DEF sent, d
  <2> QED BY <2>1, <2>2, <2>3
<1>5. CASE IsolateNext(r)
  <2>1. PICK i \in c.edits :
          Continue(r, [c EXCEPT !.edits = c.edits \ {i},
                         !.pc   = IF Held(log, {i}, c.claim) # {} THEN "checked" ELSE "isolating",
                         !.send = IF Held(log, {i}, c.claim) # {} THEN {i} ELSE {}])
    BY <1>5 DEF IsolateNext
  <2>2. log' = log
    BY <1>5 DEF IsolateNext
  <2> DEFINE sent == IF Held(log, {i}, c.claim) # {} THEN {i} ELSE {}
             d    == [c EXCEPT !.edits = c.edits \ {i},
                         !.pc   = IF Held(log, {i}, c.claim) # {} THEN "checked" ELSE "isolating",
                         !.send = sent]
  <2>3. cyc'[r] = d
    BY <1>3, <2>1
  <2>4. d.send = sent /\ d.claim = c.claim
    BY <1>0 DEF Cycle
  <2>5. Held(log, sent, c.claim) = sent
    BY DEF Held
  <2> HIDE DEF sent, d
  <2> QED BY <2>2, <2>3, <2>4, <2>5
<1> QED BY <1>0, <1>1, <1>2, <1>4, <1>5, CheckedFrom

\* R-13, "the holder re-checks its claim before each send": where no process is frozen and the rows
\* are edits none of which is refused, the rows of a request are its sender's also in the rounds
\* native chains without that check.  Ratings in between are what finding 1 shows to break it.
THEOREM SendersHold ==
  ASSUME Undisturbed, ChainsInTime, Choices = {}
  PROVE  Spec => HolderSends
<1>1. Init => NativeHoldsNext
  BY DEF Init, NativeHoldsNext, GoesNext, NoCycle
<1>2. OrderInv /\ [Next]_vars => OrderInv'
  BY TokenNext, OrderNext, PlainNext DEF OrderInv, TokenInv
<1>3. OrderInv /\ OrderInv' /\ NativeHoldsNext /\ [Next]_vars => NativeHoldsNext' /\ ChoosesHeld
  BY NativeHoldsStep, ChoosesStep
<1>4. Init => OrderInv
  BY BridgeInit DEF BridgeInv
<1>5. ChoosesHeld => [ChoosesHeld]_vars
  OBVIOUS
<1>6. Spec => [][ChoosesHeld]_vars
  BY <1>1, <1>2, <1>3, <1>4, PTL DEF Spec
<1>7. [][ChoosesHeld]_vars <=> HolderSends
  BY DEF ChoosesHeld, HolderSends
<1> QED BY <1>6, <1>7
=============================================================================
