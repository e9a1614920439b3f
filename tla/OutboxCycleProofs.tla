------------------------- MODULE OutboxCycleProofs -------------------------
(***************************************************************************)
(* Theorems about the cycles of Outbox: a row is `synced` only on evidence *)
(* about that row, a runtime that does not crash leaves no claim behind    *)
(* and every step is a step of the in-order queue of DurableQueue.  All    *)
(* three rest on what a cycle has at each of its steps.                    *)
(***************************************************************************)
EXTENDS OutboxImplements, OutboxProofs, FiniteSetTheorems

-----------------------------------------------------------------------------
(* What a step may do to the rows.                                          *)

\* From log l to log m rows are let go of, none is taken; those of `confirmed` may become
\* `synced`.
Releases(l, m, confirmed) ==
  \A i \in RowIds :
    /\ m[i].key = l[i].key /\ m[i].kind = l[i].kind
    /\ m[i].status = "absent" <=> l[i].status = "absent"
    /\ m[i].status = "processing" => l[i].status = "processing" /\ m[i].claim = l[i].claim
    /\ m[i].status = "synced" => l[i].status = "synced" \/ i \in confirmed

\* Two releases in a row are one.
LEMMA ReleasesAgain ==
  ASSUME NEW l, NEW m, NEW n, NEW confirmed, Releases(l, m, confirmed), Releases(m, n, confirmed)
  PROVE  Releases(l, n, confirmed)
BY DEF Releases

\* The statements that let go of rows.
LEMMA SettleReleases ==
  ASSUME NEW l \in Logs, NEW ids, NEW claim, NEW confirmed,
         NEW status \in {"pending", "synced"} \cup GivenUp,
         status = "synced" => ids \subseteq confirmed
  PROVE  Releases(l, Settle(l, ids, claim, status), confirmed)
BY DEF Releases, Settle, Held, Logs, Row, GivenUp

\* Conflicts let go of rows.
LEMMA SettleConflictReleases ==
  ASSUME NEW l \in Logs, NEW ids, NEW claim, NEW outcome, NEW confirmed,
         \A i \in ids : outcome[i] \in Outcomes
  PROVE  Releases(l, SettleConflict(l, ids, claim, outcome), confirmed)
<1> DEFINE m == SettleConflict(l, ids, claim, outcome)
<1>1. ASSUME NEW i \in RowIds, i \in Held(l, ids, claim)
      PROVE  /\ m[i].key = l[i].key /\ m[i].kind = l[i].kind
             /\ m[i].status \in {"pending", "conflict_exhausted"}
             /\ l[i].status = "processing"
  <2>1. l[i].status = "processing" /\ l[i] \in Row /\ outcome[i] \in Outcomes
    BY <1>1 DEF Held, Logs
  <2> QED
    BY <1>1, <2>1 DEF SettleConflict, Outcomes, Row
<1>2. ASSUME NEW i \in RowIds, i \notin Held(l, ids, claim)
      PROVE  /\ m[i].key = l[i].key /\ m[i].kind = l[i].kind
             /\ m[i].status = l[i].status /\ m[i].claim = l[i].claim
  BY <1>2 DEF SettleConflict
<1> HIDE DEF m
<1>3. Releases(l, m, confirmed)
  BY <1>1, <1>2 DEF Releases
<1> QED
  BY <1>3 DEF m

\* So does giving keys up.
LEMMA GiveKeysUpReleases ==
  ASSUME NEW l \in Logs, NEW keys, NEW ids, NEW claim, NEW confirmed
  PROVE  Releases(l, GiveKeysUp(l, keys, ids, claim), confirmed)
BY DEF Releases, GiveKeysUp, Held, Logs, Row

\* So does deleting given-up rows.
LEMMA DeleteReleases ==
  ASSUME NEW l \in Logs, NEW ids, NEW confirmed, \A i \in ids : l[i].status \in GivenUp
  PROVE  Releases(l, Delete(l, ids), confirmed)
BY DEF Releases, Delete, Logs, Row, GivenUp

\* So does the recovery sweep.
LEMMA ReturnOrphansReleases ==
  ASSUME NEW l \in Logs, NEW now, NEW confirmed
  PROVE  Releases(l, ReturnOrphans(l, now), confirmed)
BY DEF Releases, ReturnOrphans, Logs, Row

\* So does all that is written before the token of a fetched anime.
LEMMA AfterFetchReleases ==
  ASSUME log \in Logs, NEW c, NEW confirmed
  PROVE  Releases(log, AfterFetch(c), confirmed)
<1> DEFINE unreachable == {i \in c.send : /\ c.base[log[i].key] = NoToken
                                         /\ log[i].key \notin c.gone}
           back == Settle(log, unreachable, c.claim, "pending")
<1>1. back \in Logs /\ Releases(log, back, confirmed)
  <2> HIDE DEF unreachable
  <2> QED
    BY SettleType, SettleReleases DEF Statuses, Queued
<1> HIDE DEF back
<1>2. Releases(back, GiveKeysUp(back, c.gone, c.send, c.claim), confirmed)
  BY <1>1, GiveKeysUpReleases
<1> QED
  BY <1>1, <1>2, ReleasesAgain DEF AfterFetch, back

\* So does the answer of the bridge, which confirms what it names as applied or shows.
LEMMA SettledByReleases ==
  ASSUME TypeOK, NEW r \in Runtimes
  PROVE  Releases(log, SettledBy(cyc[r]), ConfirmedBy(cyc[r]))
<1> DEFINE c        == cyc[r]
           outcome  == [i \in Said(c, "conflict") |->
                          ConflictOutcome(log[i], c.base[log[i].key],
                                          c.answer.token[log[i].key])]
           conflict == SettleConflict(log, Said(c, "conflict"), c.claim, outcome)
           dead     == Settle(conflict, Said(c, "unsupported"), c.claim, "dead_letter")
           synced   == Settle(dead, ConfirmedBy(c), c.claim, "synced")
           settled  == Settle(synced, Said(c, "silent"), c.claim, "pending")
           old      == SupersededEdits(settled, Held(log, ConfirmedBy(c), c.claim))
           A        == ConfirmedBy(c)
<1>1. log \in Logs
  BY DEF TypeOK, Logs
<1>2. \A i \in Said(c, "conflict") : outcome[i] \in Outcomes
  <2> TAKE i \in Said(c, "conflict")
  <2>1. log[i] \in Row
    BY DEF TypeOK, Said, Cycle
  <2> QED
    BY <2>1, OutcomeType
<1> HIDE DEF A
<1>3. conflict \in Logs /\ Releases(log, conflict, A)
  <2> HIDE DEF outcome
  <2> QED
    BY <1>1, <1>2, SettleConflictType, SettleConflictReleases
<1> HIDE DEF conflict
<1>4. dead \in Logs /\ Releases(conflict, dead, A)
  BY <1>3, SettleType, SettleReleases DEF Statuses, GivenUp
<1> HIDE DEF dead
<1>5. synced \in Logs /\ Releases(dead, synced, A)
  BY <1>4, SettleType, SettleReleases DEF Statuses, A
<1> HIDE DEF synced
<1>6. settled \in Logs /\ Releases(synced, settled, A)
  BY <1>5, SettleType, SettleReleases DEF Statuses, Queued
<1> HIDE DEF settled
<1>7. Releases(settled, Delete(settled, old), A)
  <2>1. \A i \in old : settled[i].status \in GivenUp
    BY DEF SupersededEdits
  <2> HIDE DEF old
  <2> QED
    BY <1>6, <2>1, DeleteReleases
<1>8. Releases(log, Delete(settled, old), A)
  BY <1>3, <1>4, <1>5, <1>6, <1>7, ReleasesAgain
<1> QED
  BY <1>8 DEF SettledBy, settled, synced, dead, conflict, A

-----------------------------------------------------------------------------
(* What a cycle has at each of its steps.                                   *)

\* The rows a confirmation may rest on.
Evidence == bridge.history \cup bridge.shown

Reconciling == {"checked", "fetching", "fetched", "posted", "answered"}
Rating      == {"rating", "rating_posted", "rating_answered"}

\* The rows cycle c has still to deal with.
ToDo(c) == c.edits \cup c.ratings \cup c.send \cup c.next

\* The rows of a cycle are rows of log l, and each is in the list of its kind.
KnowsItsRows(l, c) ==
  /\ \A i \in ToDo(c) : l[i].status # "absent"
  /\ \A i \in c.edits : l[i].kind = "update"
  /\ \A i \in c.ratings : l[i].kind = "season_rating"
  /\ c.pc \in Reconciling => \A i \in c.send : l[i].kind = "update"
  /\ c.pc \in Rating => \A i \in c.send : l[i].kind = "season_rating"

\* What is left in each list at each step of a cycle of r.
KeepsItsLists(r, c) ==
  /\ c.pc \in {"idle", "swept"} => c.mine = {}
  /\ c.pc \notin {"idle", "swept"} => c.claim.owner = r
  /\ c.pc \in {"round", "isolating", "rating"} => c.send = {}
  /\ c.pc \in Reconciling \cup Rating /\ ~c.isolating => c.edits = {}
  /\ c.isolating => c.pc \in Reconciling \cup {"isolating"}
  /\ c.pc = "isolating" => c.isolating
  /\ c.isolating => \E i \in RowIds : c.send \subseteq {i}

\* An answer has a verdict for every row of its request, and there is `evidence` for what it
\* confirms.
IsAnswered(evidence, c) ==
  /\ c.pc = "answered" => /\ \A i \in c.send : c.answer.verdict[i] # "none"
                          /\ ConfirmedBy(c) \subseteq evidence
  /\ c.pc = "rating_answered" => c.send \subseteq evidence

\* A row that cycle c still holds in log l is one it has still to deal with.
HeldIsToDo(l, c) == \A i \in c.mine : l[i].status = "processing" /\ l[i].claim = c.claim => i \in ToDo(c)

InShape(l, evidence, r, c) ==
  KnowsItsRows(l, c) /\ KeepsItsLists(r, c) /\ IsAnswered(evidence, c) /\ HeldIsToDo(l, c)

CycleInv ==
  /\ TypeOK
  /\ \A r \in Runtimes : InShape(log, Evidence, r, cyc[r])
  /\ SyncedOnEvidence

\* From log l to log m a step takes the rows of `taken` under a claim and lets go of others.
Works(l, m, taken, claim, confirmed) ==
  \A i \in RowIds :
    /\ l[i].status # "absent" =>
         m[i].key = l[i].key /\ m[i].kind = l[i].kind /\ m[i].status # "absent"
    /\ m[i].status = "processing" =>
         \/ l[i].status = "processing" /\ m[i].claim = l[i].claim /\ i \notin taken
         \/ i \in taken /\ m[i].claim = claim
    /\ m[i].status = "synced" => l[i].status = "synced" \/ i \in confirmed

\* A release is such a step, that takes nothing.
LEMMA ReleaseWorks ==
  ASSUME NEW l, NEW m, NEW claim, NEW confirmed, Releases(l, m, confirmed)
  PROVE  Works(l, m, {}, claim, confirmed)
BY DEF Releases, Works

\* So is a release followed by the claim of rows that are there.
LEMMA ReleaseTakeWorks ==
  ASSUME NEW l, NEW m \in Logs, NEW taken \in SUBSET RowIds, NEW claim, NEW confirmed,
         Releases(l, m, confirmed), \A i \in taken : m[i].status # "absent"
  PROVE  Works(l, Take(m, taken, claim), taken, claim, confirmed)
<1> DEFINE n == Take(m, taken, claim)
<1>1. \A i \in RowIds : /\ n[i].key = m[i].key /\ n[i].kind = m[i].kind
                        /\ i \in taken => n[i].status = "processing" /\ n[i].claim = claim
                        /\ i \notin taken => n[i].status = m[i].status /\ n[i].claim = m[i].claim
  BY DEF Take, Logs, Row
<1> HIDE DEF n
<1>2. Works(l, n, taken, claim, confirmed)
  BY <1>1 DEF Releases, Works
<1> QED
  BY <1>2 DEF n

\* The cycle of the other runtime is not affected: no claim of its own appears.
LEMMA OtherStaysInShape ==
  ASSUME NEW l, NEW m, NEW taken, NEW claim, NEW confirmed, Works(l, m, taken, claim, confirmed),
         NEW evidence, NEW more, evidence \subseteq more,
         NEW r, NEW c \in Cycle, InShape(l, evidence, r, c), taken = {} \/ claim.owner # r
  PROVE  InShape(m, more, r, c)
<1>1. /\ c.edits \subseteq RowIds /\ c.ratings \subseteq RowIds /\ c.send \subseteq RowIds
      /\ c.next \subseteq RowIds /\ c.mine \subseteq RowIds
  BY DEF Cycle
<1>2. KnowsItsRows(m, c)
  BY <1>1 DEF InShape, KnowsItsRows, Works, ToDo
<1>3. IsAnswered(more, c)
  BY DEF InShape, IsAnswered
<1>4. HeldIsToDo(m, c)
  <2>1. \A i \in c.mine : m[i].status = "processing" /\ m[i].claim = c.claim =>
                            l[i].status = "processing" /\ l[i].claim = c.claim
    <3>1. c.mine # {} => c.claim.owner = r
      BY DEF InShape, KeepsItsLists
    <3> QED
      BY <1>1, <3>1 DEF Works
  <2> QED
    BY <2>1 DEF InShape, HeldIsToDo
<1> QED
  BY <1>2, <1>3, <1>4 DEF InShape

\* A step of a runtime keeps the invariant if its own cycle is in shape after it, what it
\* confirms is at the bridge, and the bridge forgets nothing.
LEMMA OwnStep ==
  ASSUME CycleInv, TypeOK', NEW r \in Runtimes, NEW d, Continue(r, d),
         NEW taken, NEW claim, NEW confirmed, Works(log, log', taken, claim, confirmed),
         taken = {} \/ claim.owner = r,
         Evidence \subseteq Evidence', confirmed \subseteq Evidence',
         InShape(log', Evidence', r, d)
  PROVE  CycleInv'
<1>1. cyc'[r] = d /\ \A q \in Runtimes \ {r} : cyc'[q] = cyc[q] /\ cyc[q] \in Cycle
  BY DEF Continue, CycleInv, TypeOK
<1>2. ASSUME NEW q \in Runtimes
      PROVE  InShape(log', Evidence', q, cyc'[q])
  <2>1. CASE q # r
    <3>1. InShape(log, Evidence, q, cyc[q])
      BY DEF CycleInv
    <3> QED
      BY <1>1, <2>1, <3>1, OtherStaysInShape
  <2> QED
    BY <1>1, <2>1
<1>3. SyncedOnEvidence'
  <2>1. \A i \in RowIds : log[i].status = "synced" => i \in Evidence
    BY DEF CycleInv, SyncedOnEvidence, Evidence
  <2>2. \A i \in RowIds : log'[i].status = "synced" => i \in Evidence'
    BY <2>1 DEF Works
  <2> QED
    BY <2>2 DEF SyncedOnEvidence, Evidence
<1> QED
  BY <1>2, <1>3 DEF CycleInv

\* A runtime that has stopped is in shape.
LEMMA NoCycleInShape ==
  ASSUME NEW l, NEW evidence, NEW r
  PROVE  InShape(l, evidence, r, NoCycle)
BY DEF InShape, KnowsItsRows, KeepsItsLists, IsAnswered, HeldIsToDo, ToDo, NoCycle,
       Reconciling, Rating

\* A step that leaves the rows and the bridge alone keeps the invariant if its cycle is in
\* shape after it.
LEMMA QuietStep ==
  ASSUME CycleInv, TypeOK', NEW r \in Runtimes, NEW d, Continue(r, d),
         UNCHANGED <<log, bridge>>, InShape(log, Evidence, r, d)
  PROVE  CycleInv'
<1>1. Works(log, log', {}, NoClaim, {})
  BY DEF Works
<1> QED
  BY <1>1, OwnStep DEF Evidence

\* So does a step that only lets go of rows.
LEMMA ReleaseStep ==
  ASSUME CycleInv, TypeOK', NEW r \in Runtimes, NEW d, Continue(r, d),
         NEW confirmed, Releases(log, log', confirmed), bridge' = bridge,
         confirmed \subseteq Evidence, InShape(log', Evidence, r, d)
  PROVE  CycleInv'
<1>1. Works(log, log', {}, NoClaim, confirmed)
  BY ReleaseWorks
<1> QED
  BY <1>1, OwnStep DEF Evidence

\* Choosing the rows of a request keeps the invariant: the rows left out are lost already.
LEMMA ShapeChoose ==
  ASSUME CycleInv, TypeOK', NEW r \in Runtimes,
         BeginSend(r) \/ IsolateNext(r) \/ RatingCheck(r)
  PROVE  CycleInv'
<1> DEFINE c == cyc[r]
<1>0. c \in Cycle /\ InShape(log, Evidence, r, c)
  BY DEF CycleInv, TypeOK
<1>1. CASE BeginSend(r)
  <2> DEFINE d == [c EXCEPT !.pc = "checked", !.edits = {},
                            !.send = IF r = "js" THEN Held(log, c.edits, c.claim) ELSE c.edits]
  <2>1. /\ c.pc = "round" /\ d.pc = "checked" /\ d.edits = {} /\ d.send \subseteq c.edits
        /\ \A i \in c.edits : log[i].status = "processing" /\ log[i].claim = c.claim => i \in d.send
        /\ d.ratings = c.ratings /\ d.next = c.next /\ d.mine = c.mine /\ d.claim = c.claim
        /\ d.isolating = c.isolating
    BY <1>0, <1>1 DEF BeginSend, Cycle, Held
  <2>2. Continue(r, d) /\ UNCHANGED <<log, bridge>>
    BY <1>1 DEF BeginSend
  <2> HIDE DEF c, d
  <2>3. InShape(log, Evidence, r, d)
    BY <1>0, <2>1 DEF InShape, KnowsItsRows, KeepsItsLists, IsAnswered, HeldIsToDo, ToDo,
                      Reconciling, Rating
  <2> QED
    BY <2>2, <2>3, QuietStep
<1>2. CASE IsolateNext(r)
  <2>1. PICK i \in c.edits :
          LET isHeld == Held(log, {i}, c.claim) # {}
          IN  Continue(r, [c EXCEPT !.edits = c.edits \ {i},
                !.pc   = IF isHeld THEN "checked" ELSE "isolating",
                !.send = IF isHeld THEN {i} ELSE {}])
    BY <1>2 DEF IsolateNext
  <2> DEFINE isHeld == Held(log, {i}, c.claim) # {}
             d == [c EXCEPT !.edits = c.edits \ {i},
                            !.pc   = IF isHeld THEN "checked" ELSE "isolating",
                            !.send = IF isHeld THEN {i} ELSE {}]
  <2>2. /\ c.pc = "isolating" /\ d.pc \in {"checked", "isolating"} /\ d.edits = c.edits \ {i}
        /\ d.pc = "isolating" => d.send = {}
        /\ d.send \subseteq {i} /\ i \in RowIds
        /\ log[i].status = "processing" /\ log[i].claim = c.claim => i \in d.send
        /\ d.ratings = c.ratings /\ d.next = c.next /\ d.mine = c.mine /\ d.claim = c.claim
        /\ d.isolating = c.isolating
    BY <1>0, <1>2 DEF IsolateNext, Cycle, Held
  <2>3. Continue(r, d) /\ UNCHANGED <<log, bridge>>
    BY <1>2, <2>1 DEF IsolateNext
  <2> HIDE DEF c, d
  <2>4. InShape(log, Evidence, r, d)
    BY <1>0, <2>2 DEF InShape, KnowsItsRows, KeepsItsLists, IsAnswered, HeldIsToDo, ToDo,
                      Reconciling, Rating
  <2> QED
    BY <2>3, <2>4, QuietStep
<1>3. CASE RatingCheck(r)
  <2>1. PICK i \in c.ratings :
          LET isHeld == Held(log, {i}, c.claim) # {}
          IN  Continue(r, [c EXCEPT !.ratings = c.ratings \ {i},
                !.pc   = IF isHeld THEN "rating_posted" ELSE "rating",
                !.send = IF isHeld THEN {i} ELSE {}])
    BY <1>3 DEF RatingCheck
  <2> DEFINE isHeld == Held(log, {i}, c.claim) # {}
             d == [c EXCEPT !.ratings = c.ratings \ {i},
                            !.pc   = IF isHeld THEN "rating_posted" ELSE "rating",
                            !.send = IF isHeld THEN {i} ELSE {}]
  <2>2. /\ c.pc = "rating" /\ d.pc \in {"rating_posted", "rating"}
        /\ d.ratings = c.ratings \ {i} /\ d.edits = c.edits
        /\ d.pc = "rating" => d.send = {}
        /\ d.send \subseteq {i} /\ i \in RowIds
        /\ log[i].status = "processing" /\ log[i].claim = c.claim => i \in d.send
        /\ d.next = c.next /\ d.mine = c.mine /\ d.claim = c.claim
        /\ d.isolating = c.isolating
    BY <1>0, <1>3 DEF RatingCheck, Cycle, Held
  <2>3. Continue(r, d) /\ UNCHANGED <<log, bridge>>
    BY <1>3, <2>1 DEF RatingCheck
  <2> HIDE DEF c, d
  <2>4. InShape(log, Evidence, r, d)
    BY <1>0, <2>2 DEF InShape, KnowsItsRows, KeepsItsLists, IsAnswered, HeldIsToDo, ToDo,
                      Reconciling, Rating
  <2> QED
    BY <2>3, <2>4, QuietStep
<1> QED
  BY <1>1, <1>2, <1>3

\* A release leaves a cycle in shape: what it held no more it need not deal with.
LEMMA ReleaseKeepsShape ==
  ASSUME NEW l, NEW m, NEW confirmed, Releases(l, m, confirmed),
         NEW evidence, NEW r, NEW c \in Cycle, InShape(l, evidence, r, c)
  PROVE  InShape(m, evidence, r, c)
<1>1. /\ c.edits \subseteq RowIds /\ c.ratings \subseteq RowIds /\ c.send \subseteq RowIds
      /\ c.next \subseteq RowIds /\ c.mine \subseteq RowIds
  BY DEF Cycle
<1>2. KnowsItsRows(m, c)
  BY <1>1 DEF InShape, KnowsItsRows, Releases, ToDo
<1>3. HeldIsToDo(m, c)
  BY <1>1 DEF InShape, HeldIsToDo, Releases
<1> QED
  BY <1>2, <1>3 DEF InShape

\* Reading and fetching tokens keeps the invariant.
LEMMA ShapeTokens ==
  ASSUME CycleInv, TypeOK', NEW r \in Runtimes,
         ReadTokens(r) \/ FetchMissing(r) \/ StoreFetched(r)
  PROVE  CycleInv'
<1> DEFINE c == cyc[r]
<1>0. c \in Cycle /\ InShape(log, Evidence, r, c) /\ log \in Logs
  BY DEF CycleInv, TypeOK, Logs
<1>1. ASSUME NEW d, Continue(r, d), UNCHANGED <<log, bridge>>,
             c.pc \in Reconciling, d.pc \in Reconciling \ {"answered"},
             d.edits = c.edits, d.ratings = c.ratings, d.next = c.next, d.mine = c.mine,
             d.claim = c.claim, d.isolating = c.isolating, d.send = c.send
      PROVE  CycleInv'
  <2>1. InShape(log, Evidence, r, d)
    BY <1>0, <1>1 DEF InShape, KnowsItsRows, KeepsItsLists, IsAnswered, HeldIsToDo, ToDo,
                      Reconciling, Rating
  <2> QED
    BY <1>1, <2>1, QuietStep
<1>2. CASE ReadTokens(r)
  <2> DEFINE next == IF \E k \in KeysOf(c.send) : token[k] = NoToken THEN "fetching" ELSE "posted"
             base == [k \in Keys |-> IF k \in KeysOf(c.send) THEN token[k] ELSE NoToken]
             d == [c EXCEPT !.base = base, !.pc = next]
  <2>1. /\ c.pc = "checked" /\ d.pc \in {"fetching", "posted"}
        /\ d.edits = c.edits /\ d.ratings = c.ratings /\ d.next = c.next /\ d.mine = c.mine
        /\ d.claim = c.claim /\ d.isolating = c.isolating /\ d.send = c.send
    BY <1>0, <1>2 DEF ReadTokens, Cycle
  <2>2. Continue(r, d) /\ UNCHANGED <<log, bridge>>
    BY <1>2 DEF ReadTokens
  <2> HIDE DEF c, d
  <2> QED
    BY <1>1, <2>1, <2>2 DEF Reconciling
<1>3. CASE FetchMissing(r)
  <2>1. PICK base, gone : /\ Continue(r, [c EXCEPT !.pc = "fetched", !.gone = gone, !.base = base])
                          /\ c.pc = "fetching" /\ UNCHANGED <<log, bridge>>
    BY <1>3 DEF FetchMissing
  <2> DEFINE d == [c EXCEPT !.pc = "fetched", !.gone = gone, !.base = base]
  <2>2. /\ d.pc = "fetched"
        /\ d.edits = c.edits /\ d.ratings = c.ratings /\ d.next = c.next /\ d.mine = c.mine
        /\ d.claim = c.claim /\ d.isolating = c.isolating /\ d.send = c.send
    BY <1>0 DEF Cycle
  <2> HIDE DEF c, d
  <2> QED
    BY <1>1, <2>1, <2>2 DEF Reconciling, d
<1>4. CASE StoreFetched(r)
  <2> DEFINE d == [c EXCEPT !.pc = "posted", !.gone = {}, !.send = Sendable(c)]
  <2>1. Continue(r, d) /\ log' = AfterFetch(c) /\ bridge' = bridge /\ c.pc = "fetched"
    BY <1>4 DEF StoreFetched
  <2>2. Sendable(c) = Held(log', c.send, c.claim)
    BY <2>1 DEF Sendable
  <2>3. /\ d.pc = "posted" /\ d.send \subseteq c.send
        /\ \A i \in c.send : log'[i].status = "processing" /\ log'[i].claim = c.claim => i \in d.send
        /\ d.edits = c.edits /\ d.ratings = c.ratings /\ d.next = c.next /\ d.mine = c.mine
        /\ d.claim = c.claim /\ d.isolating = c.isolating
    BY <1>0, <2>2 DEF Cycle, Held
  <2>4. Releases(log, log', {})
    BY <1>0, <2>1, AfterFetchReleases
  <2> HIDE DEF c, d
  <2>5. InShape(log', Evidence, r, c)
    BY <1>0, <2>4, ReleaseKeepsShape
  <2>6. InShape(log', Evidence, r, d)
    BY <2>1, <2>3, <2>5 DEF InShape, KnowsItsRows, KeepsItsLists, IsAnswered, HeldIsToDo, ToDo,
                            Reconciling, Rating
  <2> QED
    BY <2>1, <2>4, <2>6, ReleaseStep
<1> QED
  BY <1>2, <1>3, <1>4

\* The bridge takes in what it confirms, and gives every row of the request a verdict.
LEMMA ShapeBridge ==
  ASSUME CycleInv, TypeOK', NEW r \in Runtimes, BridgeAnswers(r) \/ RatingArrives(r)
  PROVE  CycleInv'
<1> DEFINE c == cyc[r]
<1>0. c \in Cycle /\ InShape(log, Evidence, r, c) /\ bridge \in Bridge
  BY DEF CycleInv, TypeOK
<1>1. Works(log, log', {}, NoClaim, {})
  BY DEF Works, BridgeAnswers, RatingArrives
<1>2. CASE BridgeAnswers(r)
  <2>1. PICK taken \in SUBSET c.send, verdict \in [c.send -> Verdicts \ {"none"}] :
          /\ \A i \in c.send : verdict[i] \in MayAnswer(i, c.base, i \in taken)
          /\ bridge' = [Applied(taken) EXCEPT !.shown = @ \cup {i \in c.send : verdict[i] = "shown"}]
          /\ Continue(r, [c EXCEPT !.pc = "answered",
                                   !.answer = Answer(c, verdict, Applied(taken))])
    BY <1>2 DEF BridgeAnswers
  <2> DEFINE shown == {i \in c.send : verdict[i] = "shown"}
             answer == Answer(c, verdict, Applied(taken))
             d == [c EXCEPT !.pc = "answered", !.answer = answer]
  <2>2. Evidence' = (Evidence \cup taken) \cup shown
    <3>1. bridge'.history = bridge.history \cup taken
      BY <2>1 DEF Applied
    <3>2. bridge'.shown = bridge.shown \cup shown
      BY <2>1 DEF Applied
    <3> HIDE DEF shown
    <3> QED
      BY <3>1, <3>2 DEF Evidence
  <2>3. \A i \in c.send : /\ answer.verdict[i] = verdict[i] /\ verdict[i] # "none"
                          /\ verdict[i] = "applied" => i \in taken
    <3>1. \A i \in c.send : answer.verdict[i] = verdict[i]
      BY <1>0 DEF Cycle, Answer
    <3>2. \A i \in c.send : verdict[i] = "applied" => i \in taken
      BY <2>1 DEF MayAnswer
    <3> QED
      BY <2>1, <3>1, <3>2
  <2> HIDE DEF answer
  <2>4. /\ c.pc = "posted" /\ d.pc = "answered" /\ d.answer = answer
        /\ d.edits = c.edits /\ d.ratings = c.ratings /\ d.next = c.next /\ d.mine = c.mine
        /\ d.claim = c.claim /\ d.isolating = c.isolating /\ d.send = c.send
    BY <1>0, <1>2 DEF BridgeAnswers, Cycle
  <2>5. Continue(r, d) /\ log' = log
    BY <1>2, <2>1 DEF BridgeAnswers, answer
  <2> HIDE DEF d
  <2>6. ConfirmedBy(d) \subseteq taken \cup shown /\ \A i \in d.send : d.answer.verdict[i] # "none"
    BY <2>3, <2>4 DEF Said, ConfirmedBy
  <2> HIDE DEF c, shown
  <2>7. InShape(log', Evidence', r, d)
    BY <1>0, <2>2, <2>4, <2>5, <2>6 DEF InShape, KnowsItsRows, KeepsItsLists, IsAnswered, HeldIsToDo,
                                   ToDo, Reconciling, Rating
  <2> QED
    BY <1>1, <2>2, <2>5, <2>7, OwnStep
<1>3. CASE RatingArrives(r)
  <2> DEFINE d == [c EXCEPT !.pc = "rating_answered"]
  <2>1. /\ c.pc = "rating_posted" /\ d.pc = "rating_answered"
        /\ d.edits = c.edits /\ d.ratings = c.ratings /\ d.next = c.next /\ d.mine = c.mine
        /\ d.claim = c.claim /\ d.isolating = c.isolating /\ d.send = c.send
    BY <1>0, <1>3 DEF RatingArrives, Cycle
  <2>2. Continue(r, d) /\ log' = log /\ Evidence' = Evidence \cup c.send
    <3>1. bridge'.history = bridge.history \cup c.send /\ bridge'.shown = bridge.shown
      BY <1>0, <1>3 DEF RatingArrives, Bridge
    <3>2. Continue(r, d) /\ log' = log
      BY <1>3 DEF RatingArrives
    <3> QED
      BY <3>1, <3>2 DEF Evidence
  <2> HIDE DEF c, d
  <2>3. InShape(log', Evidence', r, d)
    BY <1>0, <2>1, <2>2 DEF InShape, KnowsItsRows, KeepsItsLists, IsAnswered, HeldIsToDo,
                            ToDo, Reconciling, Rating
  <2> QED
    BY <1>1, <2>2, <2>3, OwnStep
<1> QED
  BY <1>2, <1>3

-----------------------------------------------------------------------------
(* The end of a request.                                                    *)

\* What claim holds none of in log l it holds none of after a release.
HoldsNone(l, ids, claim) == \A i \in ids : ~(l[i].status = "processing" /\ l[i].claim = claim)

\* A release does not give a row back.
LEMMA ReleasesHoldNone ==
  ASSUME NEW l, NEW m, NEW confirmed, Releases(l, m, confirmed),
         NEW ids \in SUBSET RowIds, NEW claim, HoldsNone(l, ids, claim)
  PROVE  HoldsNone(m, ids, claim)
BY DEF Releases, HoldsNone

\* A settled row is let go of.
LEMMA SettleHoldsNone ==
  ASSUME NEW l \in Logs, NEW ids \in SUBSET RowIds, NEW claim,
         NEW status \in {"pending", "synced"} \cup GivenUp
  PROVE  HoldsNone(Settle(l, ids, claim, status), ids, claim)
BY DEF HoldsNone, Settle, Held, Logs, Row, GivenUp

\* So is a row that conflicted.
LEMMA SettleConflictHoldsNone ==
  ASSUME NEW l \in Logs, NEW ids \in SUBSET RowIds, NEW claim, NEW outcome,
         \A i \in ids : outcome[i] \in Outcomes
  PROVE  HoldsNone(SettleConflict(l, ids, claim, outcome), ids, claim)
<1> SUFFICES ASSUME NEW i \in ids
             PROVE  LET m == SettleConflict(l, ids, claim, outcome)
                    IN  ~(m[i].status = "processing" /\ m[i].claim = claim)
  BY DEF HoldsNone
<1>1. CASE i \in Held(l, ids, claim)
  <2>1. l[i] \in Row /\ outcome[i] \in Outcomes /\ i \in RowIds
    BY <1>1 DEF Held, Logs
  <2> QED
    BY <1>1, <2>1 DEF SettleConflict, Outcomes, Row
<1>2. CASE i \notin Held(l, ids, claim)
  BY <1>2 DEF SettleConflict, Held
<1> QED
  BY <1>1, <1>2

\* The answer of the bridge settles every row of its request.
LEMMA SettledByHoldsNone ==
  ASSUME TypeOK, NEW r \in Runtimes, \A i \in cyc[r].send : cyc[r].answer.verdict[i] # "none"
  PROVE  HoldsNone(SettledBy(cyc[r]), cyc[r].send, cyc[r].claim)
<1> DEFINE c        == cyc[r]
           outcome  == [i \in Said(c, "conflict") |->
                          ConflictOutcome(log[i], c.base[log[i].key],
                                          c.answer.token[log[i].key])]
           conflict == SettleConflict(log, Said(c, "conflict"), c.claim, outcome)
           dead     == Settle(conflict, Said(c, "unsupported"), c.claim, "dead_letter")
           synced   == Settle(dead, ConfirmedBy(c), c.claim, "synced")
           settled  == Settle(synced, Said(c, "silent"), c.claim, "pending")
           old      == SupersededEdits(settled, Held(log, ConfirmedBy(c), c.claim))
<1>1. log \in Logs /\ c \in Cycle
  BY DEF TypeOK, Logs
<1>2. \A v \in Verdicts : Said(c, v) \in SUBSET RowIds
  BY <1>1 DEF Said, Cycle
<1>3. \A i \in Said(c, "conflict") : outcome[i] \in Outcomes
  <2> TAKE i \in Said(c, "conflict")
  <2>1. log[i] \in Row
    BY DEF TypeOK, Said, Cycle
  <2> QED
    BY <2>1, OutcomeType
<1>4. c.send \subseteq Said(c, "conflict") \cup Said(c, "unsupported") \cup ConfirmedBy(c)
                         \cup Said(c, "silent")
  <2>1. \A i \in c.send : c.answer.verdict[i] \in Verdicts
    BY <1>1 DEF Cycle
  <2> QED
    BY <2>1 DEF Said, ConfirmedBy, Verdicts
<1>5. conflict \in Logs /\ HoldsNone(conflict, Said(c, "conflict"), c.claim)
  <2> HIDE DEF outcome
  <2> QED
    BY <1>1, <1>2, <1>3, SettleConflictType, SettleConflictHoldsNone DEF Verdicts
<1> HIDE DEF conflict
<1>6. dead \in Logs /\ HoldsNone(dead, Said(c, "unsupported"), c.claim)
  BY <1>2, <1>5, SettleType, SettleHoldsNone DEF Statuses, GivenUp, Verdicts
<1>7. Releases(conflict, dead, ConfirmedBy(c))
  BY <1>5, SettleReleases DEF GivenUp
<1> HIDE DEF dead
<1>8. synced \in Logs /\ HoldsNone(synced, ConfirmedBy(c), c.claim)
  BY <1>2, <1>6, SettleType, SettleHoldsNone DEF Statuses, Verdicts, ConfirmedBy
<1>9. Releases(dead, synced, ConfirmedBy(c))
  BY <1>6, SettleReleases DEF ConfirmedBy
<1> HIDE DEF synced
<1>10. settled \in Logs /\ HoldsNone(settled, Said(c, "silent"), c.claim)
  BY <1>2, <1>8, SettleType, SettleHoldsNone DEF Statuses, Queued, Verdicts
<1>11. Releases(synced, settled, ConfirmedBy(c))
  BY <1>8, SettleReleases
<1> HIDE DEF settled
<1>12. Releases(settled, Delete(settled, old), ConfirmedBy(c))
  <2>1. \A i \in old : settled[i].status \in GivenUp
    BY DEF SupersededEdits
  <2> HIDE DEF old
  <2> QED
    BY <1>10, <2>1, DeleteReleases
<1>13. ConfirmedBy(c) \in SUBSET RowIds
  BY <1>2 DEF ConfirmedBy, Verdicts
<1>14. /\ HoldsNone(Delete(settled, old), Said(c, "conflict"), c.claim)
       /\ HoldsNone(Delete(settled, old), Said(c, "unsupported"), c.claim)
       /\ HoldsNone(Delete(settled, old), ConfirmedBy(c), c.claim)
       /\ HoldsNone(Delete(settled, old), Said(c, "silent"), c.claim)
  <2>1. Said(c, "conflict") \in SUBSET RowIds /\ Said(c, "unsupported") \in SUBSET RowIds
        /\ Said(c, "silent") \in SUBSET RowIds
    BY <1>2 DEF Verdicts
  <2>2. Releases(synced, Delete(settled, old), ConfirmedBy(c))
    BY <1>11, <1>12, ReleasesAgain
  <2>3. Releases(dead, Delete(settled, old), ConfirmedBy(c))
    BY <1>9, <2>2, ReleasesAgain
  <2>4. Releases(conflict, Delete(settled, old), ConfirmedBy(c))
    BY <1>7, <2>3, ReleasesAgain
  <2> QED
    BY <1>5, <1>6, <1>8, <1>10, <1>12, <1>13, <2>1, <2>2, <2>3, <2>4, ReleasesHoldNone
<1>15. HoldsNone(Delete(settled, old), c.send, c.claim)
  BY <1>4, <1>14 DEF HoldsNone
<1> QED
  BY <1>15 DEF SettledBy, settled, synced, dead, conflict

\* A cycle that has let go of the rows of its request, and claimed successors of them, goes
\* on with the rest.
LEMMA GoesOn ==
  ASSUME NEW l \in Logs, NEW evidence, NEW r, NEW c \in Cycle, InShape(l, evidence, r, c),
         c.pc \in {"answered", "rating_answered"},
         HoldsNone(l, c.send, c.claim), NEW next \in SUBSET RowIds,
         \A i \in next : l[i].status = "pending",
         NEW d, d.send = {}, d.edits = c.edits, d.ratings = c.ratings,
         d.mine = c.mine \cup next, d.next = c.next \cup next, d.claim = c.claim,
         d.isolating = c.isolating, d.pc = IF c.isolating THEN "isolating" ELSE "rating"
  PROVE  InShape(Take(l, next, c.claim), evidence, r, d)
<1> DEFINE n == Take(l, next, c.claim)
<1>1. \A i \in RowIds : /\ n[i].key = l[i].key /\ n[i].kind = l[i].kind
                        /\ n[i].status = IF i \in next THEN "processing" ELSE l[i].status
                        /\ i \notin next => n[i].claim = l[i].claim
  BY DEF Take, Logs, Row
<1>2. /\ c.edits \subseteq RowIds /\ c.ratings \subseteq RowIds /\ c.send \subseteq RowIds
      /\ c.next \subseteq RowIds /\ c.mine \subseteq RowIds
  BY DEF Cycle
<1> HIDE DEF n
<1>3. KnowsItsRows(n, d)
  BY <1>1, <1>2 DEF InShape, KnowsItsRows, ToDo
<1>4. KeepsItsLists(r, d)
  BY <1>2, OperationLogAssumption DEF InShape, KeepsItsLists, Reconciling, Rating
<1>5. HeldIsToDo(n, d)
  BY <1>1, <1>2 DEF InShape, HeldIsToDo, HoldsNone, ToDo
<1>6. IsAnswered(evidence, d)
  BY DEF IsAnswered
<1> QED
  BY <1>3, <1>4, <1>5, <1>6 DEF InShape, n

\* The chain claims rows that wait.
LEMMA SuccessorsPending ==
  ASSUME NEW l, NEW keys, NEW claim, NEW i \in Successors(l, keys, claim)
  PROVE  l[i].status = "pending"
BY DEF Successors, ChainSuccessors

\* Applying an answer keeps the invariant, of a reconcile request or of a rating.
LEMMA ShapeApply ==
  ASSUME CycleInv, TypeOK', NEW r \in Runtimes, ApplyResponse(r) \/ RatingDelivered(r)
  PROVE  CycleInv'
<1> DEFINE c == cyc[r]
<1>0. c \in Cycle /\ InShape(log, Evidence, r, c) /\ log \in Logs /\ TypeOK
  BY DEF CycleInv, TypeOK, Logs
<1>1. ASSUME NEW mid \in Logs, NEW confirmed \in SUBSET Evidence,
             Releases(log, mid, confirmed), HoldsNone(mid, c.send, c.claim),
             NEW next \in SUBSET RowIds, \A i \in next : mid[i].status = "pending",
             c.pc \in {"answered", "rating_answered"},
             NEW d, d.send = {}, d.edits = c.edits, d.ratings = c.ratings,
             d.mine = c.mine \cup next, d.next = c.next \cup next, d.claim = c.claim,
             d.isolating = c.isolating, d.pc = IF c.isolating THEN "isolating" ELSE "rating",
             Continue(r, d), log' = Take(mid, next, c.claim), bridge' = bridge
      PROVE  CycleInv'
  <2>1. InShape(mid, Evidence, r, c)
    BY <1>0, <1>1, ReleaseKeepsShape
  <2>2. InShape(log', Evidence, r, d)
    BY <1>0, <1>1, <2>1, GoesOn
  <2>3. Works(log, log', next, c.claim, confirmed)
    BY <1>1, ReleaseTakeWorks
  <2>4. c.claim.owner = r
    BY <1>0, <1>1 DEF InShape, KeepsItsLists
  <2> QED
    BY <1>1, <2>2, <2>3, <2>4, OwnStep DEF Evidence
<1>2. CASE ApplyResponse(r)
  <2> DEFINE mid  == SettledBy(c)
             next == Successors(mid, KeysOf(Held(log, ConfirmedBy(c), c.claim)), c.claim)
             d == [c EXCEPT !.pc = IF c.isolating THEN "isolating" ELSE "rating",
                     !.delivered = c.isolating, !.since = Since(c.answer.cursor),
                           !.mine = c.mine \cup next,
                     !.next = c.next \cup next, !.send = {},
                     !.base = NoBase, !.answer = NoAnswer]
  <2>1. c.pc = "answered" /\ Continue(r, d) /\ log' = Take(mid, next, c.claim) /\ bridge' = bridge
    BY <1>2 DEF ApplyResponse
  <2>2. mid \in Logs /\ Releases(log, mid, ConfirmedBy(c))
    BY <1>0, SettledByType, SettledByReleases
  <2>3. HoldsNone(mid, c.send, c.claim) /\ ConfirmedBy(c) \in SUBSET Evidence
    BY <1>0, <2>1, SettledByHoldsNone DEF InShape, IsAnswered
  <2>4. next \in SUBSET RowIds /\ \A i \in next : mid[i].status = "pending"
    BY SuccessorsType, SuccessorsPending
  <2> HIDE DEF mid, next
  <2>5. /\ d.send = {} /\ d.edits = c.edits /\ d.ratings = c.ratings
        /\ d.mine = c.mine \cup next /\ d.next = c.next \cup next /\ d.claim = c.claim
        /\ d.isolating = c.isolating /\ d.pc = IF c.isolating THEN "isolating" ELSE "rating"
    BY <1>0 DEF Cycle
  <2> HIDE DEF c, d
  <2> QED
    BY <1>1, <2>1, <2>2, <2>3, <2>4, <2>5
<1>3. CASE RatingDelivered(r)
  <2> DEFINE held   == Held(log, c.send, c.claim)
             synced == Settle(log, c.send, c.claim, "synced")
             old    == SupersededRatings(synced, held)
             mid    == Delete(synced, old)
             next   == Successors(mid, KeysOf(held), c.claim)
             d == [c EXCEPT !.pc = "rating", !.send = {},
                     !.mine = c.mine \cup next, !.next = c.next \cup next]
  <2>1. c.pc = "rating_answered" /\ Continue(r, d) /\ log' = Take(mid, next, c.claim)
        /\ bridge' = bridge
    BY <1>3 DEF RatingDelivered
  <2>2. c.send \in SUBSET RowIds /\ c.send \in SUBSET Evidence /\ ~c.isolating
    BY <1>0, <2>1 DEF Cycle, InShape, IsAnswered, KeepsItsLists, Reconciling
  <2>3. synced \in Logs /\ Releases(log, synced, c.send) /\ HoldsNone(synced, c.send, c.claim)
    BY <1>0, <2>2, SettleType, SettleReleases, SettleHoldsNone DEF Statuses
  <2>4. \A i \in old : synced[i].status \in GivenUp
    BY DEF SupersededRatings, GivenUp
  <2> HIDE DEF synced, old
  <2>5. mid \in Logs /\ Releases(synced, mid, c.send)
    BY <2>3, <2>4, DeleteType, DeleteReleases
  <2>6. Releases(log, mid, c.send) /\ HoldsNone(mid, c.send, c.claim)
    BY <2>2, <2>3, <2>5, ReleasesAgain, ReleasesHoldNone
  <2>7. next \in SUBSET RowIds /\ \A i \in next : mid[i].status = "pending"
    BY SuccessorsType, SuccessorsPending
  <2> HIDE DEF mid, next
  <2>8. /\ d.send = {} /\ d.edits = c.edits /\ d.ratings = c.ratings
        /\ d.mine = c.mine \cup next /\ d.next = c.next \cup next /\ d.claim = c.claim
        /\ d.isolating = c.isolating /\ d.pc = "rating"
    BY <1>0 DEF Cycle
  <2> HIDE DEF c, d
  <2> QED
    BY <1>1, <2>1, <2>2, <2>5, <2>6, <2>7, <2>8
<1> QED
  BY <1>2, <1>3

\* A request that is split has neither no row nor a single one.
LEMMA AtMostOne ==
  ASSUME NEW S, Cardinality(S) > 1
  PROVE  S # {} /\ \A i : ~(S \subseteq {i})
<1>1. S # {}
  <2>1. Cardinality({}) = 0
    BY FS_EmptySet
  <2> QED
    BY <2>1
<1>2. ASSUME NEW i, S = {i} PROVE FALSE
  <2>1. Cardinality({i}) = 1
    BY FS_Singleton
  <2> QED
    BY <1>2, <2>1
<1> QED
  BY <1>1, <1>2

\* A refused or unsettled message keeps the invariant.
LEMMA ShapeRefuse ==
  ASSUME CycleInv, TypeOK', NEW r \in Runtimes,
         \/ RejectRound(r) \/ RejectIsolated(r) \/ EndIsolation(r)
         \/ RatingRefused(r) \/ RatingUnsettled(r)
  PROVE  CycleInv'
<1> DEFINE c == cyc[r]
<1>0. c \in Cycle /\ InShape(log, Evidence, r, c) /\ log \in Logs
  BY DEF CycleInv, TypeOK, Logs
<1>1. CASE RejectRound(r)
  <2> DEFINE d == [c EXCEPT !.pc = "isolating", !.edits = c.send,
                            !.isolating = TRUE, !.send = {}, !.base = NoBase]
  <2>1. /\ c.pc = "posted" /\ d.pc = "isolating" /\ d.edits = c.send /\ d.send = {} /\ d.isolating
        /\ d.ratings = c.ratings /\ d.next = c.next /\ d.mine = c.mine /\ d.claim = c.claim
    BY <1>0, <1>1 DEF RejectRound, Cycle
  <2>2. Continue(r, d) /\ UNCHANGED <<log, bridge>>
    BY <1>1 DEF RejectRound
  <2>3. ~c.isolating
    <3>2. Cardinality(c.send) > 1
      BY <1>1 DEF RejectRound
    <3>3. \A i \in RowIds : ~(c.send \subseteq {i})
      BY <3>2, AtMostOne
    <3> QED
      BY <1>0, <3>3 DEF InShape, KeepsItsLists
  <2>4. c.edits = {} /\ \E i \in RowIds : TRUE
    <3>1. c.send # {}
      <4>1. Cardinality(c.send) > 1
        BY <1>1 DEF RejectRound
      <4> QED
        BY <4>1, AtMostOne
    <3> QED
      BY <1>0, <2>1, <2>3, <3>1 DEF InShape, KeepsItsLists, Reconciling, Cycle
  <2> HIDE DEF c, d
  <2>5. InShape(log, Evidence, r, d)
    BY <1>0, <2>1, <2>3, <2>4 DEF InShape, KnowsItsRows, KeepsItsLists, IsAnswered, HeldIsToDo,
                                  ToDo, Reconciling, Rating
  <2> QED
    BY <2>2, <2>5, QuietStep
<1>2. CASE EndIsolation(r)
  <2> DEFINE d == [c EXCEPT !.pc = "rating", !.isolating = FALSE, !.delivered = FALSE]
  <2>1. /\ c.pc = "isolating" /\ c.edits = {} /\ d.pc = "rating" /\ ~d.isolating
        /\ d.edits = c.edits /\ d.ratings = c.ratings /\ d.next = c.next /\ d.mine = c.mine
        /\ d.claim = c.claim /\ d.send = c.send
    BY <1>0, <1>2 DEF EndIsolation, Cycle
  <2>2. Continue(r, d) /\ UNCHANGED <<log, bridge>>
    BY <1>2 DEF EndIsolation
  <2> HIDE DEF c, d
  <2>3. InShape(log, Evidence, r, d)
    BY <1>0, <2>1 DEF InShape, KnowsItsRows, KeepsItsLists, IsAnswered, HeldIsToDo, ToDo,
                      Reconciling, Rating
  <2> QED
    BY <2>2, <2>3, QuietStep
<1>3. ASSUME NEW status \in {"pending"} \cup GivenUp, log' = Settle(log, c.send, c.claim, status),
             bridge' = bridge, NEW d, Continue(r, d), d.send = {}, d.edits = c.edits,
             d.ratings = c.ratings, d.next = c.next, d.mine = c.mine, d.claim = c.claim,
             d.isolating = c.isolating,
             \/ c.pc = "posted" /\ c.isolating /\ d.pc = "isolating"
             \/ c.pc \in {"rating_posted", "rating_answered"} /\ d.pc = "rating"
      PROVE  CycleInv'
  <2>1. c.send \in SUBSET RowIds /\ status \in {"pending", "synced"} \cup GivenUp
        /\ status # "synced"
    BY <1>0, <1>3 DEF Cycle, GivenUp
  <2>2. Releases(log, log', {}) /\ HoldsNone(log', c.send, c.claim)
    BY <1>0, <1>3, <2>1, SettleReleases, SettleHoldsNone
  <2> HIDE DEF c
  <2>3. InShape(log', Evidence, r, c)
    BY <1>0, <2>2, ReleaseKeepsShape
  <2>4. InShape(log', Evidence, r, d)
    BY <1>3, <2>2, <2>3 DEF InShape, KnowsItsRows, KeepsItsLists, IsAnswered, HeldIsToDo, ToDo,
                            HoldsNone, Reconciling, Rating
  <2> QED
    BY <1>3, <2>2, <2>4, ReleaseStep
<1>4. CASE RejectIsolated(r)
  <2> DEFINE d == [c EXCEPT !.pc = "isolating", !.send = {}, !.base = NoBase]
  <2>1. /\ c.pc = "posted" /\ c.isolating /\ d.pc = "isolating" /\ d.send = {}
        /\ d.edits = c.edits /\ d.ratings = c.ratings /\ d.next = c.next /\ d.mine = c.mine
        /\ d.claim = c.claim /\ d.isolating = c.isolating
    BY <1>0, <1>4 DEF RejectIsolated, Cycle
  <2>2. Continue(r, d) /\ log' = Settle(log, c.send, c.claim, "dead_letter") /\ bridge' = bridge
    BY <1>4 DEF RejectIsolated
  <2> HIDE DEF c, d
  <2> QED
    BY <1>3, <2>1, <2>2 DEF GivenUp
<1>5. CASE RatingRefused(r) \/ RatingUnsettled(r)
  <2> DEFINE d == [c EXCEPT !.pc = "rating", !.send = {}]
  <2>1. /\ c.pc \in {"rating_posted", "rating_answered"} /\ d.pc = "rating" /\ d.send = {}
        /\ d.edits = c.edits /\ d.ratings = c.ratings /\ d.next = c.next /\ d.mine = c.mine
        /\ d.claim = c.claim /\ d.isolating = c.isolating
    BY <1>0, <1>5 DEF RatingRefused, RatingUnsettled, Cycle
  <2>2. /\ Continue(r, d) /\ bridge' = bridge
        /\ \E status \in {"pending"} \cup GivenUp : log' = Settle(log, c.send, c.claim, status)
    BY <1>5 DEF RatingRefused, RatingUnsettled, GivenUp
  <2> HIDE DEF c, d
  <2> QED
    BY <1>3, <2>1, <2>2
<1> QED
  BY <1>1, <1>2, <1>4, <1>5


-----------------------------------------------------------------------------
(* The ends of a cycle, and its start.                                      *)

\* A cycle that ends keeps the invariant, in whatever way its rows go back.
LEMMA ShapeEnd ==
  ASSUME CycleInv, TypeOK', NEW r \in Runtimes,
         RejectLone(r) \/ FailCycle(r) \/ EarlyThrow(r) \/ Crash(r)
  PROVE  CycleInv'
<1> DEFINE c == cyc[r]
<1>0. log \in Logs
  BY DEF CycleInv, TypeOK, Logs
<1>1. Continue(r, NoCycle) /\ bridge' = bridge
  BY DEF RejectLone, FailCycle, EarlyThrow, Crash
<1>2. Releases(log, log', {})
  <2>1. CASE RejectLone(r)
    <3> DEFINE dead == Settle(log, c.send, c.claim, "dead_letter")
    <3>1. dead \in Logs /\ Releases(log, dead, {})
      BY <1>0, SettleType, SettleReleases DEF Statuses, GivenUp
    <3>2. log' = Settle(dead, c.mine, c.claim, "pending")
      BY <2>1 DEF RejectLone
    <3> HIDE DEF dead
    <3>3. Releases(dead, log', {})
      BY <3>1, <3>2, SettleReleases
    <3> QED
      BY <3>1, <3>3, ReleasesAgain
  <2>2. CASE FailCycle(r)
    <3>1. log' = Settle(log, c.mine, c.claim, "pending")
      BY <2>2 DEF FailCycle
    <3> QED
      BY <1>0, <3>1, SettleReleases
  <2>3. CASE EarlyThrow(r) \/ Crash(r)
    BY <2>3 DEF EarlyThrow, Crash, Releases
  <2> QED
    BY <2>1, <2>2, <2>3
<1> QED
  BY <1>1, <1>2, NoCycleInShape, ReleaseStep

\* The recovery sweep and the claim of a batch keep the invariant.
LEMMA ShapeClaim ==
  ASSUME CycleInv, TypeOK', NEW r \in Runtimes, NativeSweep(r) \/ ClaimBatch(r)
  PROVE  CycleInv'
<1> DEFINE c == cyc[r]
<1>0. c \in Cycle /\ InShape(log, Evidence, r, c) /\ log \in Logs
  BY DEF CycleInv, TypeOK, Logs
<1>1. CASE NativeSweep(r)
  <2> DEFINE d == [c EXCEPT !.pc = "swept", !.since = Since(cursor)]
  <2>1. /\ c.pc = "idle" /\ d.pc = "swept"
        /\ d.edits = c.edits /\ d.ratings = c.ratings /\ d.next = c.next /\ d.mine = c.mine
        /\ d.claim = c.claim /\ d.isolating = c.isolating /\ d.send = c.send
    BY <1>0, <1>1 DEF NativeSweep, Cycle
  <2>2. Continue(r, d) /\ log' = ReturnOrphans(log, clock) /\ bridge' = bridge
    BY <1>1 DEF NativeSweep
  <2>3. Releases(log, log', {})
    BY <1>0, <2>2, ReturnOrphansReleases
  <2> HIDE DEF c, d
  <2>4. InShape(log', Evidence, r, c)
    BY <1>0, <2>3, ReleaseKeepsShape
  <2>5. InShape(log', Evidence, r, d)
    BY <2>1, <2>4 DEF InShape, KnowsItsRows, KeepsItsLists, IsAnswered, HeldIsToDo, ToDo,
                      Reconciling, Rating
  <2> QED
    BY <2>2, <2>3, <2>5, ReleaseStep
<1>2. CASE ClaimBatch(r)
  <2> DEFINE claim == [owner |-> r, at |-> clock]
             ids   == Backlog(log, clock)
             d == [NoCycle EXCEPT !.pc = "round", !.claim = claim, !.mine = ids, !.first = TRUE,
                                  !.since = IF r = "native" THEN cyc[r].since ELSE Since(cursor),
                                  !.edits = Updates(ids), !.ratings = RatingsOf(ids)]
  <2>1. Continue(r, d) /\ log' = Take(log, ids, claim) /\ bridge' = bridge
    BY <1>2 DEF ClaimBatch
  <2>2. ids \in SUBSET RowIds /\ \A i \in ids : log[i].status \in Queued
    BY DEF Backlog, OldestQueued
  <2>3. claim.owner = r
    OBVIOUS
  <2>4. d.edits \cup d.ratings = ids
    BY <1>0, <2>2 DEF NoCycle, Updates, RatingsOf, Logs, Row, Kinds
  <2>5. /\ d.pc = "round" /\ d.claim = claim /\ d.mine = ids /\ d.edits = Updates(ids)
        /\ d.ratings = RatingsOf(ids) /\ d.send = {} /\ d.next = {} /\ ~d.isolating
    BY DEF NoCycle
  <2> HIDE DEF claim, ids, d
  <2>6. Releases(log, log, {})
    BY DEF Releases
  <2>7. Works(log, log', ids, claim, {})
    <3>1. \A i \in ids : log[i].status # "absent"
      BY <2>2 DEF Queued
    <3> QED
      BY <1>0, <2>1, <2>2, <2>6, <3>1, ReleaseTakeWorks
  <2>8. InShape(log', Evidence, r, d)
    <3>1. \A i \in ids : log'[i].status # "absent" /\ log'[i].kind = log[i].kind
      BY <2>2, <2>7 DEF Works, Queued
    <3>2. KnowsItsRows(log', d)
      BY <2>4, <2>5, <3>1 DEF KnowsItsRows, ToDo, Updates, RatingsOf, Reconciling, Rating
    <3>3. KeepsItsLists(r, d)
      BY <2>3, <2>5 DEF KeepsItsLists, Reconciling, Rating
    <3>4. IsAnswered(Evidence, d)
      BY <2>5 DEF IsAnswered
    <3>5. HeldIsToDo(log', d)
      BY <2>4, <2>5 DEF HeldIsToDo, ToDo
    <3> QED
      BY <3>2, <3>3, <3>4, <3>5 DEF InShape
  <2> QED
    BY <2>1, <2>3, <2>7, <2>8, OwnStep DEF Evidence
<1> QED
  BY <1>1, <1>2

\* The end of a round keeps the invariant: the next one deals with every successor.
LEMMA ShapeRound ==
  ASSUME CycleInv, TypeOK', NEW r \in Runtimes, EndRound(r)
  PROVE  CycleInv'
<1> DEFINE c == cyc[r]
<1>0. c \in Cycle /\ InShape(log, Evidence, r, c) /\ log \in Logs
  BY DEF CycleInv, TypeOK, Logs
<1>1. c.pc = "rating" /\ c.ratings = {} /\ UNCHANGED <<log, bridge>>
  BY DEF EndRound
<1>2. CASE c.next = {}
  <2>1. Continue(r, NoCycle)
    BY <1>2 DEF EndRound
  <2> QED
    BY <1>1, <2>1, NoCycleInShape, QuietStep
<1>3. CASE c.next # {}
  <2> DEFINE pc == IF Updates(c.next) = {} THEN "rating" ELSE "round"
             d == [c EXCEPT !.pc = pc, !.first = FALSE, !.next = {},
                            !.edits = Updates(c.next), !.ratings = RatingsOf(c.next)]
  <2>1. Continue(r, d)
    BY <1>3 DEF EndRound
  <2>2. Updates(c.next) \cup RatingsOf(c.next) = c.next
    BY <1>0 DEF Updates, RatingsOf, Logs, Row, Kinds, Cycle
  <2>3. /\ d.pc \in {"rating", "round"}
        /\ d.pc = "rating" => d.edits = {}
        /\ d.edits = Updates(c.next) /\ d.ratings = RatingsOf(c.next) /\ d.next = {}
        /\ d.mine = c.mine /\ d.claim = c.claim /\ d.isolating = c.isolating /\ d.send = c.send
    BY <1>0 DEF Cycle
  <2>4. c.send = {} /\ c.edits = {} /\ ~c.isolating /\ c.claim.owner = r
    BY <1>0, <1>1 DEF InShape, KeepsItsLists, Reconciling, Rating
  <2> HIDE DEF c, d
  <2>5. KnowsItsRows(log, d)
    BY <1>0, <2>2, <2>3, <2>4 DEF InShape, KnowsItsRows, ToDo, Updates, RatingsOf, Reconciling, Rating
  <2>6. KeepsItsLists(r, d)
    BY <2>3, <2>4 DEF KeepsItsLists, Reconciling, Rating
  <2>7. IsAnswered(Evidence, d)
    BY <2>3 DEF IsAnswered
  <2>8. HeldIsToDo(log, d)
    BY <1>0, <1>1, <2>2, <2>3, <2>4 DEF InShape, HeldIsToDo, ToDo
  <2>9. InShape(log, Evidence, r, d)
    BY <2>5, <2>6, <2>7, <2>8 DEF InShape
  <2> QED
    BY <1>1, <2>1, <2>9, QuietStep
<1> QED
  BY <1>2, <1>3

\* What a choice of the user does to one row: given up, it may be queued again; not `synced`,
\* it may be deleted.
LEMMA ChoiceAt ==
  ASSUME TypeOK, NEW k \in Keys, NEW kind \in RowKinds, KeepLocal(k, kind) \/ KeepBridge(k, kind),
         NEW i \in RowIds
  PROVE  /\ log'[i].key = log[i].key /\ log'[i].kind = log[i].kind
         /\ \/ log'[i] = log[i]
            \/ log[i].status \in GivenUp /\ log'[i].status = "pending"
            \/ log[i].status \in Queued \cup GivenUp /\ log'[i].status = "deleted"
<1>1. log[i] \in Row
  BY DEF TypeOK
<1> QED
  BY <1>1 DEF KeepLocal, KeepBridge, Row

\* The user, the clock and the other devices keep it: an insert fills an empty row, and the
\* bridge forgets no row.
LEMMA ShapeEnvironment ==
  ASSUME CycleInv, TypeOK', Environment
  PROVE  CycleInv'
<1>1. cyc' = cyc
  BY DEF Environment, LocalEdit, KeepLocal, KeepBridge, Tick, BridgeEdit, StrayArrives
<1>2. Works(log, log', {}, NoClaim, {})
  <2>1. ASSUME NEW k, NEW kind, LocalEdit(k, kind)
        PROVE  Works(log, log', {}, NoClaim, {})
    <3>1. PICK i \in RowIds :
            /\ log[i].status = "absent"
            /\ log' = [log EXCEPT ![i] = [status |-> "pending", key |-> k,
                         kind |-> kind, claim |-> NoClaim, conflicts |-> 0]]
      BY <2>1 DEF LocalEdit
    <3>2. \A j \in RowIds : /\ j # i => log'[j] = log[j]
                            /\ j = i => log'[j].status = "pending"
      BY <3>1 DEF CycleInv, TypeOK
    <3> QED
      BY <3>1, <3>2 DEF Works
  <2>2. CASE UNCHANGED log
    BY <2>2 DEF Works
  <2>3. ASSUME NEW k \in Keys, NEW kind \in RowKinds, KeepLocal(k, kind) \/ KeepBridge(k, kind)
        PROVE  Works(log, log', {}, NoClaim, {})
    BY <2>3, ChoiceAt DEF CycleInv, Works, GivenUp
  <2> QED
    BY <2>1, <2>2, <2>3 DEF Environment, Tick, BridgeEdit, StrayArrives
<1>3. Evidence \subseteq Evidence'
  <2>1. ASSUME NEW k, BridgeEdit(k) PROVE Evidence' = Evidence
    BY <2>1 DEF BridgeEdit, CycleInv, TypeOK, Bridge, Evidence
  <2>2. ASSUME StrayArrives PROVE Evidence \subseteq Evidence'
    <3>1. PICK taken, more :
            bridge' = [Applied(taken) EXCEPT !.history = @ \cup more]
      BY <2>2 DEF StrayArrives
    <3>2. bridge'.history = (bridge.history \cup taken) \cup more /\ bridge'.shown = bridge.shown
      BY <3>1 DEF Applied
    <3> QED
      BY <3>2 DEF Evidence
  <2> QED
    BY <2>1, <2>2 DEF Environment, LocalEdit, KeepLocal, KeepBridge, Tick, Evidence
<1>4. ASSUME NEW q \in Runtimes
      PROVE  InShape(log', Evidence', q, cyc'[q])
  <2>1. cyc[q] \in Cycle /\ InShape(log, Evidence, q, cyc[q])
    BY DEF CycleInv, TypeOK
  <2> QED
    BY <1>1, <1>2, <1>3, <2>1, OtherStaysInShape
<1>5. SyncedOnEvidence'
  <2>1. \A i \in RowIds : log[i].status = "synced" => i \in Evidence
    BY DEF CycleInv, SyncedOnEvidence, Evidence
  <2>2. \A i \in RowIds : log'[i].status = "synced" => i \in Evidence'
    BY <1>2, <1>3, <2>1 DEF Works
  <2> QED
    BY <2>2 DEF SyncedOnEvidence, Evidence
<1> QED
  BY <1>4, <1>5 DEF CycleInv

\* Nothing runs at first and nothing is queued.
LEMMA ShapeInit == Init => CycleInv
<1> SUFFICES ASSUME Init PROVE CycleInv
  OBVIOUS
<1>1. \A r \in Runtimes : InShape(log, Evidence, r, cyc[r])
  BY NoCycleInShape DEF Init
<1>2. SyncedOnEvidence
  BY DEF Init, SyncedOnEvidence, AbsentRow
<1> QED
  BY <1>1, <1>2, TypeInit DEF CycleInv

\* The invariant is inductive.
LEMMA ShapeNext == CycleInv /\ [Next]_vars => CycleInv'
<1> SUFFICES ASSUME CycleInv, [Next]_vars PROVE CycleInv'
  OBVIOUS
<1>1. TypeOK'
  BY TypeNext DEF CycleInv
<1>2. CASE Environment
  BY <1>1, <1>2, ShapeEnvironment
<1>3. ASSUME NEW r \in Runtimes, Advance(r) \/ EarlyThrow(r) \/ Crash(r)
      PROVE  CycleInv'
  <2>1. CASE Send(r)
    BY <1>1, <2>1, ShapeChoose, ShapeTokens, ShapeBridge, ShapeApply, ShapeRefuse, ShapeEnd DEF Send
  <2>2. CASE Rate(r)
    BY <1>1, <2>2, ShapeChoose, ShapeBridge, ShapeApply, ShapeRefuse DEF Rate
  <2> QED
    BY <1>1, <1>3, <2>1, <2>2, ShapeClaim, ShapeEnd, ShapeRound DEF Advance
<1>4. CASE UNCHANGED vars
  BY <1>4 DEF vars, CycleInv, TypeOK, SyncedOnEvidence, Evidence
<1> QED
  BY <1>2, <1>3, <1>4 DEF Next

\* reconcile-confirmation: a row is `synced` only on evidence about that row, that the bridge
\* took it or that a change shows it, whatever answers came late, twice or to a past holder.
THEOREM ConfirmsOnEvidence == Spec => []SyncedOnEvidence
<1>1. CycleInv => SyncedOnEvidence
  BY DEF CycleInv
<1> QED
  BY <1>1, ShapeInit, ShapeNext, PTL DEF Spec

\* A bridge that names every row of a request shows none.
NothingShown == bridge.shown = {}

\* Every step keeps that.
LEMMA NothingShownNext ==
  ASSUME "silent" \notin Refusals, CycleInv, NothingShown, [Next]_vars
  PROVE  NothingShown'
<1>0. bridge \in Bridge
  BY DEF CycleInv, TypeOK
<1>1. ASSUME NEW r \in Runtimes, BridgeAnswers(r) PROVE NothingShown'
  <2>1. PICK taken \in SUBSET cyc[r].send, verdict \in [cyc[r].send -> Verdicts \ {"none"}] :
          /\ \A i \in cyc[r].send : verdict[i] \in MayAnswer(i, cyc[r].base, i \in taken)
          /\ bridge' = [Applied(taken) EXCEPT !.shown = @ \cup {i \in cyc[r].send : verdict[i] = "shown"}]
    BY <1>1 DEF BridgeAnswers
  <2>2. {i \in cyc[r].send : verdict[i] = "shown"} = {}
    BY <2>1 DEF MayAnswer
  <2> QED
    BY <2>1, <2>2 DEF Applied, NothingShown
<1>2. ASSUME StrayArrives PROVE NothingShown'
  <2>1. PICK taken, more : bridge' = [Applied(taken) EXCEPT !.history = @ \cup more]
    BY <1>2 DEF StrayArrives
  <2> QED
    BY <2>1 DEF Applied, NothingShown
<1>3. ASSUME NEW k, BridgeEdit(k) PROVE NothingShown'
  BY <1>0, <1>3 DEF BridgeEdit, Bridge, NothingShown
<1>4. ASSUME NEW r, RatingArrives(r) PROVE NothingShown'
  BY <1>0, <1>4 DEF RatingArrives, Bridge, NothingShown
<1>5. CASE UNCHANGED bridge
  BY <1>5 DEF NothingShown
<1>6. CASE Environment
  BY <1>2, <1>3, <1>5, <1>6 DEF Environment, LocalEdit, KeepLocal, KeepBridge, Tick
<1>7. ASSUME NEW r \in Runtimes, Advance(r) \/ EarlyThrow(r) \/ Crash(r) PROVE NothingShown'
  BY <1>1, <1>4, <1>5, <1>7
     DEF Advance, Send, Rate, NativeSweep, ClaimBatch, BeginSend, IsolateNext, ReadTokens, FetchMissing,
         StoreFetched, ApplyResponse, RejectRound, RejectIsolated, RejectLone, EndIsolation,
         RatingCheck, RatingDelivered, RatingRefused, RatingUnsettled, EndRound, FailCycle,
         EarlyThrow, Crash
<1> QED
  BY <1>5, <1>6, <1>7 DEF Next, vars

\* isOperationConfirmed: with a bridge that names every row it is sent, a row is `synced` only
\* when the bridge took it in, and nothing is confirmed by inference.
THEOREM ConfirmsOnlyApplied ==
  ASSUME "silent" \notin Refusals
  PROVE  Spec => []SyncedWasApplied
<1>1. CycleInv /\ NothingShown => SyncedWasApplied
  BY DEF CycleInv, NothingShown, SyncedOnEvidence, SyncedWasApplied
<1>2. Init => NothingShown
  BY DEF Init, NothingShown
<1>3. CycleInv /\ NothingShown /\ [Next]_vars => NothingShown'
  BY NothingShownNext
<1> QED
  BY <1>1, <1>2, <1>3, ShapeInit, ShapeNext, PTL DEF Spec

-----------------------------------------------------------------------------
(* Who holds a row that is being sent.                                      *)

\* After a step of r a row is held as before, or by r's own claim.
HeldAsBeforeOrByOwn(r) ==
  \A i \in RowIds : log'[i].status = "processing" =>
    \/ log[i].status = "processing" /\ log'[i].claim = log[i].claim
    \/ i \in cyc'[r].mine /\ log'[i].claim = cyc'[r].claim

\* A step of r keeps r's claim and its rows, or leaves r no row.
KeepsOrHoldsNone(r) ==
  \/ cyc'[r].claim = cyc[r].claim /\ cyc[r].mine \subseteq cyc'[r].mine
  \/ HoldsNone(log', cyc[r].mine, cyc[r].claim)

\* Only rows put under its claim are added to what a runtime holds.
LEMMA TakenIsOwn ==
  ASSUME TypeOK, NEW r \in Runtimes, Advance(r)
  PROVE  HeldAsBeforeOrByOwn(r)
<1> DEFINE c == cyc[r]
<1>0. log \in Logs /\ c \in Cycle /\ TypeOK
  BY DEF TypeOK, Logs
<1>1. ASSUME Releases(log, log', RowIds) PROVE HeldAsBeforeOrByOwn(r)
  BY <1>1 DEF Releases, HeldAsBeforeOrByOwn
<1>2. ASSUME NEW mid, Releases(log, mid, RowIds), NEW ids, NEW claim, log' = Take(mid, ids, claim),
             ids \subseteq cyc'[r].mine, cyc'[r].claim = claim, mid \in Logs
      PROVE  HeldAsBeforeOrByOwn(r)
  <2>1. \A i \in RowIds : /\ i \in ids => log'[i].claim = claim
                          /\ i \notin ids => log'[i] = mid[i]
    BY <1>2 DEF Take, Logs, Row
  <2> QED
    BY <1>2, <2>1 DEF Releases, HeldAsBeforeOrByOwn
<1>3. CASE UNCHANGED log
  BY <1>3 DEF HeldAsBeforeOrByOwn
<1>4. CASE NativeSweep(r)
  <2>1. log' = ReturnOrphans(log, clock)
    BY <1>4 DEF NativeSweep
  <2> QED
    BY <1>0, <1>1, <2>1, ReturnOrphansReleases
<1>5. CASE StoreFetched(r)
  <2>1. log' = AfterFetch(c)
    BY <1>5 DEF StoreFetched
  <2> QED
    BY <1>0, <1>1, <2>1, AfterFetchReleases
<1>6. CASE RejectIsolated(r) \/ FailCycle(r) \/ RatingRefused(r) \/ RatingUnsettled(r)
  <2>1. \E ids : \/ log' = Settle(log, ids, c.claim, "pending")
                 \/ log' = Settle(log, ids, c.claim, "dead_letter")
    BY <1>6 DEF RejectIsolated, FailCycle, RatingRefused, RatingUnsettled
  <2>2. PICK ids, status : /\ log' = Settle(log, ids, c.claim, status)
                           /\ status \in {"pending", "dead_letter"}
    BY <2>1
  <2> QED
    BY <1>0, <1>1, <2>2, SettleReleases DEF GivenUp
<1>7. CASE RejectLone(r)
  <2> DEFINE dead == Settle(log, c.send, c.claim, "dead_letter")
  <2>1. dead \in Logs /\ Releases(log, dead, RowIds)
    BY <1>0, SettleType, SettleReleases DEF Statuses, GivenUp
  <2>2. log' = Settle(dead, c.mine, c.claim, "pending")
    BY <1>7 DEF RejectLone
  <2> HIDE DEF dead
  <2>3. Releases(dead, log', RowIds)
    BY <2>1, <2>2, SettleReleases
  <2> QED
    BY <1>1, <2>1, <2>3, ReleasesAgain
<1>8. CASE ClaimBatch(r)
  <2> DEFINE claim == [owner |-> r, at |-> clock]
             ids   == Backlog(log, clock)
  <2>1. log' = Take(log, ids, claim)
    BY <1>8 DEF ClaimBatch
  <2>2. cyc'[r].mine = ids /\ cyc'[r].claim = claim
    BY <1>8 DEF ClaimBatch, Continue, TypeOK, NoCycle
  <2>3. Releases(log, log, RowIds)
    BY DEF Releases
  <2> HIDE DEF claim, ids
  <2> QED
    BY <1>0, <1>2, <2>1, <2>2, <2>3
<1>9. CASE ApplyResponse(r)
  <2> DEFINE mid  == SettledBy(c)
             next == Successors(mid, KeysOf(Held(log, ConfirmedBy(c), c.claim)), c.claim)
  <2>1. log' = Take(mid, next, c.claim)
    BY <1>9 DEF ApplyResponse
  <2>2. cyc'[r].mine = c.mine \cup next /\ cyc'[r].claim = c.claim
    <3> HIDE DEF mid, next
    <3>1. \E d : Continue(r, d) /\ d.mine = c.mine \cup next /\ d.claim = c.claim
      <4> DEFINE d == [c EXCEPT !.pc = IF c.isolating THEN "isolating" ELSE "rating",
                         !.delivered = c.isolating, !.since = Since(c.answer.cursor),
                           !.mine = c.mine \cup next,
                         !.next = c.next \cup next, !.send = {},
                         !.base = NoBase, !.answer = NoAnswer]
      <4>1. Continue(r, d)
        BY <1>9 DEF ApplyResponse, mid, next
      <4>2. d.mine = c.mine \cup next /\ d.claim = c.claim
        BY <1>0 DEF Cycle
      <4> QED
        BY <4>1, <4>2
    <3> QED
      BY <3>1 DEF Continue, TypeOK
  <2>3. mid \in Logs /\ Releases(log, mid, RowIds)
    <3>1. mid \in Logs /\ Releases(log, mid, ConfirmedBy(c))
      BY <1>0, SettledByType, SettledByReleases
    <3> HIDE DEF mid
    <3> QED
      BY <3>1 DEF Releases
  <2> HIDE DEF mid, next
  <2> QED
    BY <1>2, <2>1, <2>2, <2>3
<1>10. CASE RatingDelivered(r)
  <2> DEFINE synced == Settle(log, c.send, c.claim, "synced")
             old    == SupersededRatings(synced, Held(log, c.send, c.claim))
             mid    == Delete(synced, old)
             next   == Successors(mid, KeysOf(Held(log, c.send, c.claim)), c.claim)
  <2>1. log' = Take(mid, next, c.claim)
    BY <1>10 DEF RatingDelivered
  <2>2. cyc'[r].mine = c.mine \cup next /\ cyc'[r].claim = c.claim
    <3> HIDE DEF mid, next
    <3>1. Continue(r, [c EXCEPT !.pc = "rating", !.send = {},
                         !.mine = c.mine \cup next, !.next = c.next \cup next])
      BY <1>10 DEF RatingDelivered, mid, next, synced, old
    <3> QED
      BY <1>0, <3>1 DEF Continue, TypeOK, Cycle
  <2>3. synced \in Logs /\ Releases(log, synced, RowIds)
    <3>1. c.send \subseteq RowIds
      BY <1>0 DEF Cycle
    <3> QED
      BY <1>0, <3>1, SettleType, SettleReleases DEF Statuses
  <2>4. \A i \in old : synced[i].status \in GivenUp
    BY DEF SupersededRatings, GivenUp
  <2> HIDE DEF synced, old
  <2>5. mid \in Logs /\ Releases(synced, mid, RowIds)
    BY <2>3, <2>4, DeleteType, DeleteReleases
  <2>6. Releases(log, mid, RowIds)
    BY <2>3, <2>5, ReleasesAgain
  <2> HIDE DEF mid, next
  <2> QED
    BY <1>2, <2>1, <2>2, <2>5, <2>6
<1>11. CASE BeginSend(r) \/ IsolateNext(r) \/ ReadTokens(r) \/ FetchMissing(r) \/ BridgeAnswers(r)
            \/ RejectRound(r) \/ EndIsolation(r) \/ RatingCheck(r) \/ RatingArrives(r) \/ EndRound(r)
  <2>1. UNCHANGED log
    BY <1>11 DEF BeginSend, IsolateNext, ReadTokens, FetchMissing, BridgeAnswers, RejectRound,
                 EndIsolation, RatingCheck, RatingArrives, EndRound
  <2> QED
    BY <1>3, <2>1
<1> QED
  BY <1>4, <1>5, <1>6, <1>7, <1>8, <1>9, <1>10, <1>11 DEF Advance, Send, Rate

\* A runtime gives its rows up only at the end of its cycle, and then all of them: a failure
\* releases them, and a cycle that comes to its end holds none.
LEMMA GivesUpAll ==
  ASSUME CycleInv, NEW r \in Runtimes, Advance(r)
  PROVE  KeepsOrHoldsNone(r)
<1> DEFINE c == cyc[r]
<1>0. c \in Cycle /\ InShape(log, Evidence, r, c) /\ log \in Logs /\ c.mine \in SUBSET RowIds
  BY DEF CycleInv, TypeOK, Logs, Cycle
<1>1. ASSUME NEW d, Continue(r, d), d.claim = c.claim, c.mine \subseteq d.mine
      PROVE  KeepsOrHoldsNone(r)
  BY <1>1 DEF Continue, KeepsOrHoldsNone, CycleInv, TypeOK
<1>2. CASE c.mine = {}
  BY <1>2 DEF KeepsOrHoldsNone, HoldsNone
<1>3. CASE NativeSweep(r) \/ ClaimBatch(r)
  <2>1. c.pc \in {"idle", "swept"}
    BY <1>3 DEF NativeSweep, ClaimBatch
  <2> QED
    BY <1>0, <1>2, <2>1 DEF InShape, KeepsItsLists
<1>4. CASE FailCycle(r)
  <2>1. log' = Settle(log, c.mine, c.claim, "pending")
    BY <1>4 DEF FailCycle
  <2> QED
    BY <1>0, <2>1, SettleHoldsNone DEF KeepsOrHoldsNone
<1>5. CASE RejectLone(r)
  <2> DEFINE dead == Settle(log, c.send, c.claim, "dead_letter")
  <2>1. dead \in Logs
    BY <1>0, SettleType DEF Statuses, GivenUp
  <2>2. log' = Settle(dead, c.mine, c.claim, "pending")
    BY <1>5 DEF RejectLone
  <2> HIDE DEF dead
  <2> QED
    BY <1>0, <2>1, <2>2, SettleHoldsNone DEF KeepsOrHoldsNone
<1>6. CASE EndRound(r)
  <2>1. c.pc = "rating" /\ c.ratings = {} /\ log' = log
    BY <1>6 DEF EndRound
  <2>2. CASE c.next = {}
    <3>1. c.send = {} /\ c.edits = {}
      BY <1>0, <2>1 DEF InShape, KeepsItsLists, Reconciling, Rating
    <3>2. HoldsNone(log', c.mine, c.claim)
      BY <1>0, <2>1, <2>2, <3>1 DEF InShape, HeldIsToDo, ToDo, HoldsNone
    <3> QED
      BY <3>2 DEF KeepsOrHoldsNone
  <2>3. CASE c.next # {}
    <3> DEFINE d == [c EXCEPT !.pc = IF Updates(c.next) = {} THEN "rating" ELSE "round",
                       !.first = FALSE, !.next = {},
                       !.edits = Updates(c.next), !.ratings = RatingsOf(c.next)]
    <3>1. Continue(r, d)
      BY <1>6, <2>3 DEF EndRound
    <3>2. d.claim = c.claim /\ d.mine = c.mine
      BY <1>0 DEF Cycle
    <3> HIDE DEF d
    <3> QED
      BY <1>1, <3>1, <3>2
  <2> QED
    BY <2>2, <2>3
<1>7. CASE ApplyResponse(r) \/ RatingDelivered(r)
  <2>1. \E next :
          \/ Continue(r, [c EXCEPT !.pc = IF c.isolating THEN "isolating" ELSE "rating",
                           !.delivered = c.isolating, !.since = Since(c.answer.cursor),
                           !.mine = c.mine \cup next,
                           !.next = c.next \cup next, !.send = {},
                           !.base = NoBase, !.answer = NoAnswer])
          \/ Continue(r, [c EXCEPT !.pc = "rating", !.send = {},
                           !.mine = c.mine \cup next, !.next = c.next \cup next])
    BY <1>7 DEF ApplyResponse, RatingDelivered
  <2>2. ASSUME NEW next,
               Continue(r, [c EXCEPT !.pc = IF c.isolating THEN "isolating" ELSE "rating",
                           !.delivered = c.isolating, !.since = Since(c.answer.cursor),
                           !.mine = c.mine \cup next,
                           !.next = c.next \cup next, !.send = {},
                           !.base = NoBase, !.answer = NoAnswer])
        PROVE  cyc'[r].claim = c.claim /\ cyc'[r].mine = c.mine \cup next
    BY <1>0, <2>2 DEF Continue, CycleInv, TypeOK, Cycle
  <2>3. ASSUME NEW next,
               Continue(r, [c EXCEPT !.pc = "rating", !.send = {},
                           !.mine = c.mine \cup next, !.next = c.next \cup next])
        PROVE  cyc'[r].claim = c.claim /\ cyc'[r].mine = c.mine \cup next
    BY <1>0, <2>3 DEF Continue, CycleInv, TypeOK, Cycle
  <2>4. \E next : cyc'[r].claim = c.claim /\ cyc'[r].mine = c.mine \cup next
    BY <2>1, <2>2, <2>3
  <2> QED
    BY <2>4 DEF KeepsOrHoldsNone
<1>8. CASE BeginSend(r) \/ IsolateNext(r) \/ ReadTokens(r) \/ FetchMissing(r) \/ StoreFetched(r)
           \/ BridgeAnswers(r) \/ RejectRound(r) \/ RejectIsolated(r) \/ EndIsolation(r)
           \/ RatingCheck(r) \/ RatingArrives(r) \/ RatingRefused(r) \/ RatingUnsettled(r)
  <2>1. cyc'[r].claim = c.claim /\ cyc'[r].mine = c.mine
    <3>1. CASE BeginSend(r)
      BY <1>0, <3>1 DEF BeginSend, Continue, CycleInv, TypeOK, Cycle
    <3>2. CASE IsolateNext(r)
      BY <1>0, <3>2 DEF IsolateNext, Continue, CycleInv, TypeOK, Cycle
    <3>3. CASE ReadTokens(r)
      BY <1>0, <3>3 DEF ReadTokens, Continue, CycleInv, TypeOK, Cycle
    <3>4. CASE FetchMissing(r)
      BY <1>0, <3>4 DEF FetchMissing, Continue, CycleInv, TypeOK, Cycle
    <3>5. CASE StoreFetched(r)
      BY <1>0, <3>5 DEF StoreFetched, Continue, CycleInv, TypeOK, Cycle
    <3>6. CASE BridgeAnswers(r)
      BY <1>0, <3>6 DEF BridgeAnswers, Continue, CycleInv, TypeOK, Cycle
    <3>7. CASE RejectRound(r)
      BY <1>0, <3>7 DEF RejectRound, Continue, CycleInv, TypeOK, Cycle
    <3>8. CASE RejectIsolated(r)
      BY <1>0, <3>8 DEF RejectIsolated, Continue, CycleInv, TypeOK, Cycle
    <3>9. CASE EndIsolation(r)
      BY <1>0, <3>9 DEF EndIsolation, Continue, CycleInv, TypeOK, Cycle
    <3>10. CASE RatingCheck(r)
      BY <1>0, <3>10 DEF RatingCheck, Continue, CycleInv, TypeOK, Cycle
    <3>11. CASE RatingArrives(r)
      BY <1>0, <3>11 DEF RatingArrives, Continue, CycleInv, TypeOK, Cycle
    <3>12. CASE RatingRefused(r)
      BY <1>0, <3>12 DEF RatingRefused, Continue, CycleInv, TypeOK, Cycle
    <3>13. CASE RatingUnsettled(r)
      BY <1>0, <3>13 DEF RatingUnsettled, Continue, CycleInv, TypeOK, Cycle
    <3> QED
      BY <1>8, <3>1, <3>2, <3>3, <3>4, <3>5, <3>6, <3>7,
         <3>8, <3>9, <3>10, <3>11, <3>12, <3>13
  <2> QED
    BY <2>1 DEF KeepsOrHoldsNone
<1> QED
  BY <1>3, <1>4, <1>5, <1>6, <1>7, <1>8 DEF Advance, Send, Rate

\* A runtime takes steps without losing track of a row unless it dies.
LEMMA ClaimsNext ==
  ASSUME "crash" \notin Faults, "early_throw" \notin Faults,
         CycleInv, NothingLeftClaimed, [Next]_vars
  PROVE  NothingLeftClaimed'
<1>1. ASSUME NEW r \in Runtimes, Advance(r) PROVE NothingLeftClaimed'
  <2>1. HeldAsBeforeOrByOwn(r) /\ KeepsOrHoldsNone(r)
    BY <1>1, TakenIsOwn, GivesUpAll DEF CycleInv
  <2>2. \A q \in Runtimes \ {r} : cyc'[q] = cyc[q]
    <3>1. \E d : Continue(r, d)
      BY <1>1 DEF Advance, Send, Rate, NativeSweep, ClaimBatch, BeginSend, IsolateNext, ReadTokens,
                  FetchMissing, StoreFetched, BridgeAnswers, ApplyResponse, RejectRound,
                  RejectIsolated, RejectLone, EndIsolation, RatingCheck, RatingArrives,
                  RatingDelivered, RatingRefused, RatingUnsettled, EndRound, FailCycle
    <3> QED
      BY <3>1 DEF Continue, CycleInv, TypeOK
  <2>3. ASSUME NEW i \in RowIds, log'[i].status = "processing"
        PROVE  \E q \in Runtimes : i \in cyc'[q].mine /\ log'[i].claim = cyc'[q].claim
    <3>1. CASE i \in cyc'[r].mine /\ log'[i].claim = cyc'[r].claim
      BY <3>1
    <3>2. CASE log[i].status = "processing" /\ log'[i].claim = log[i].claim
      <4>1. PICK q \in Runtimes : i \in cyc[q].mine /\ log[i].claim = cyc[q].claim
        BY <3>2 DEF NothingLeftClaimed
      <4>2. CASE q = r
        BY <2>1, <2>3, <3>2, <4>1, <4>2 DEF KeepsOrHoldsNone, HoldsNone
      <4>3. CASE q # r
        BY <2>2, <3>2, <4>1, <4>3
      <4> QED
        BY <4>2, <4>3
    <3> QED
      BY <2>1, <2>3, <3>1, <3>2 DEF HeldAsBeforeOrByOwn
  <2> QED
    BY <2>3 DEF NothingLeftClaimed
<1>2. CASE Environment
  <2>1. cyc' = cyc
    BY <1>2 DEF Environment, LocalEdit, KeepLocal, KeepBridge, Tick, BridgeEdit, StrayArrives
  <2>2. \A i \in RowIds : log'[i].status = "processing" =>
                            log[i].status = "processing" /\ log'[i].claim = log[i].claim
    <3>1. ASSUME NEW k \in Keys, NEW kind \in RowKinds,
                 LocalEdit(k, kind) \/ KeepLocal(k, kind) \/ KeepBridge(k, kind)
          PROVE  \A i \in RowIds : log'[i] = log[i] \/ log'[i].status \in {"pending", "deleted"}
      <4>1. CASE LocalEdit(k, kind)
        BY <4>1 DEF LocalEdit, CycleInv, TypeOK
      <4> QED
        BY <3>1, <4>1, ChoiceAt DEF CycleInv
    <3> QED
      BY <1>2, <3>1 DEF Environment, Tick, BridgeEdit, StrayArrives
  <2> QED
    BY <2>1, <2>2 DEF NothingLeftClaimed
<1>3. CASE UNCHANGED vars
  BY <1>3 DEF vars, NothingLeftClaimed
<1> QED
  BY <1>1, <1>2, <1>3 DEF Next, EarlyThrow, Crash

\* syncPendingOperations and attemptClaimedIds: short of a process that dies (or a count
\* that throws after the claim), no cycle that is no longer running leaves a row claimed.
THEOREM LeavesNothingClaimed ==
  ASSUME "crash" \notin Faults, "early_throw" \notin Faults
  PROVE  Spec => []NothingLeftClaimed
<1>1. Init => NothingLeftClaimed
  BY DEF Init, NothingLeftClaimed, AbsentRow
<1>2. CycleInv /\ NothingLeftClaimed /\ [Next]_vars => NothingLeftClaimed'
  BY ClaimsNext
<1> QED
  BY <1>1, <1>2, ShapeInit, ShapeNext, PTL DEF Spec

-----------------------------------------------------------------------------
(* Outbox implements DurableQueue: what a step does to the fates of rows.   *)

\* Row i has the same fate in log m as in log l.
SameFate(l, m, i) == m[i].status = l[i].status \/ (l[i].status \in Queued /\ m[i].status \in Queued)

SameIntent(l, m, i) == m[i].key = l[i].key /\ m[i].kind = l[i].kind

\* Row i stays what it is or, queued, is given up; only an edit conflicts out.
Fades(l, m, i) ==
  /\ SameIntent(l, m, i)
  /\ SameFate(l, m, i) \/ (l[i].status \in Queued /\ m[i].status \in GivenUp)
  /\ m[i].status = "conflict_exhausted" => m[i].status = l[i].status \/ l[i].kind = "update"

FadesAll(l, m) == \A i \in RowIds : Fades(l, m, i)

\* Row d of key k, being sent in log l, is confirmed in log m: the older rows of its kind that
\* were given up are deleted, and the other rows of the key keep their fate.
ConfirmsRow(l, m, k, d) ==
  /\ l[d].status = "processing" /\ l[d].key = k /\ m[d].status = "synced"
  /\ \A i \in RowIds \ {d} : l[i].key = k =>
       IF i < d /\ l[i].kind = l[d].kind /\ l[i].status \in GivenUp
         THEN m[i].status = "deleted" ELSE SameFate(l, m, i)

\* Every key fades or has its oldest row confirmed.
QueueStep(l, m) ==
  /\ \A i \in RowIds : SameIntent(l, m, i) /\ (l[i].status = "absent" => m[i].status = "absent")
  /\ \A k \in Keys : \/ \A i \in RowIds : l[i].key = k => Fades(l, m, i)
                     \/ \E d \in RowIds : ConfirmsRow(l, m, k, d)

\* The invariant of the refinement: only an edit conflicts out, so a rating given up is a
\* dead letter and a later rating of its anime makes up for it.
RatingsAreDeadLetters(l) ==
  \A i \in RowIds : l[i].status = "conflict_exhausted" => l[i].kind = "update"

\* Two such changes in a row are one.
LEMMA FadesAgain ==
  ASSUME NEW l, NEW m, NEW n, FadesAll(l, m), FadesAll(m, n)
  PROVE  FadesAll(l, n)
BY DEF FadesAll, Fades, SameFate, SameIntent, Queued, GivenUp

\* A key whose rows fade makes a step of the queue.
LEMMA FadesQueueStep ==
  ASSUME NEW l, NEW m, FadesAll(l, m)
  PROVE  QueueStep(l, m)
BY DEF FadesAll, Fades, QueueStep, SameFate, Queued, GivenUp

\* Settling rows, unless as `synced`, only fades them.
LEMMA SettleFades ==
  ASSUME NEW l \in Logs, NEW ids, NEW claim, NEW status \in {"pending", "dead_letter"}
  PROVE  FadesAll(l, Settle(l, ids, claim, status))
BY DEF FadesAll, Fades, SameFate, SameIntent, Settle, Held, Logs, Row, Queued, GivenUp

\* So does giving keys up.
LEMMA GiveKeysUpFades ==
  ASSUME NEW l \in Logs, NEW keys, NEW ids, NEW claim
  PROVE  FadesAll(l, GiveKeysUp(l, keys, ids, claim))
BY DEF FadesAll, Fades, SameFate, SameIntent, GiveKeysUp, Held, Logs, Row, Queued, GivenUp

\* The recovery sweep changes no fate.
LEMMA ReturnOrphansFades ==
  ASSUME NEW l \in Logs, NEW now
  PROVE  FadesAll(l, ReturnOrphans(l, now))
BY DEF FadesAll, Fades, SameFate, SameIntent, ReturnOrphans, Logs, Row, Queued

\* Nor does a claim of queued rows.
LEMMA TakeFades ==
  ASSUME NEW l \in Logs, NEW ids, NEW claim, \A i \in ids : l[i].status \in Queued
  PROVE  FadesAll(l, Take(l, ids, claim))
BY DEF FadesAll, Fades, SameFate, SameIntent, Take, Logs, Row, Queued

\* A claim after a step of the queue is part of that step.
LEMMA QueueStepTake ==
  ASSUME NEW l \in Logs, NEW m \in Logs, NEW ids, NEW claim, QueueStep(l, m),
         \A i \in ids : m[i].status = "pending"
  PROVE  QueueStep(l, Take(m, ids, claim))
<1> DEFINE n == Take(m, ids, claim)
<1>1. \A i \in RowIds : /\ SameIntent(m, n, i)
                        /\ i \in ids => m[i].status = "pending" /\ n[i].status = "processing"
                        /\ i \notin ids => n[i].status = m[i].status
  BY DEF Take, Logs, Row, SameIntent
<1> HIDE DEF n
<1>2. \A i \in RowIds : SameIntent(l, n, i) /\ (l[i].status = "absent" => n[i].status = "absent")
  BY <1>1 DEF QueueStep, SameIntent
<1>3. ASSUME NEW i \in RowIds, Fades(l, m, i) PROVE Fades(l, n, i)
  BY <1>1, <1>3 DEF Fades, SameFate, SameIntent, Queued, GivenUp
<1>4. ASSUME NEW k, NEW d \in RowIds, ConfirmsRow(l, m, k, d) PROVE ConfirmsRow(l, n, k, d)
  <2>1. n[d].status = "synced"
    BY <1>1, <1>4 DEF ConfirmsRow
  <2>2. ASSUME NEW i \in RowIds \ {d}, l[i].key = k
        PROVE  IF i < d /\ l[i].kind = l[d].kind /\ l[i].status \in GivenUp
                 THEN n[i].status = "deleted" ELSE SameFate(l, n, i)
    BY <1>1, <1>4, <2>2 DEF ConfirmsRow, SameFate, Queued
  <2> QED
    BY <1>4, <2>1, <2>2 DEF ConfirmsRow
<1>5. QueueStep(l, n)
  BY <1>2, <1>3, <1>4 DEF QueueStep
<1> QED
  BY <1>5 DEF n

\* The confirmed rows of a request are, each, the oldest of its key: confirming them and
\* deleting what they make up for is a step of the queue.
LEMMA ConfirmedStep ==
  ASSUME NEW l \in Logs, NEW s \in Logs, OldestFirstIn(l),
         NEW confirmed \in SUBSET RowIds, NEW kind,
         \A d \in confirmed : /\ l[d].status = "processing" /\ l[d].kind = kind
                              /\ s[d].status = "synced" /\ SameIntent(l, s, d),
         \A i \in RowIds \ confirmed : Fades(l, s, i),
         \A i \in RowIds : l[i].status # "processing" => s[i] = l[i],
         NEW old,
         \A i \in RowIds : i \in old <=>
           /\ s[i].kind = kind /\ s[i].status \in GivenUp
           /\ \E d \in confirmed : s[d].key = s[i].key /\ i < d
  PROVE  QueueStep(l, Delete(s, old))
<1> DEFINE m == Delete(s, old)
<1>1. \A i \in RowIds : /\ SameIntent(s, m, i)
                        /\ i \in old => m[i].status = "deleted"
                        /\ i \notin old => m[i].status = s[i].status
  BY DEF Delete, Logs, Row, SameIntent
<1>2. \A i \in RowIds : SameIntent(l, s, i)
  BY DEF Fades
<1> HIDE DEF m
<1>3. \A i \in RowIds : SameIntent(l, m, i) /\ (l[i].status = "absent" => m[i].status = "absent")
  BY <1>1, <1>2 DEF SameIntent, GivenUp
<1>4. ASSUME NEW d \in confirmed, NEW i \in RowIds, i # d, l[i].key = l[d].key
      PROVE  l[i].status # "processing" /\ i \notin confirmed
  <2>1. d \in RowIds /\ l[d].status = "processing"
    BY <1>4
  <2>2. CASE l[i].status = "processing"
    <3>1. i <= d /\ d <= i
      BY <1>4, <2>1, <2>2 DEF OldestFirstIn, Queued
    <3>2. i = d
      BY <2>1, <3>1, OperationLogAssumption DEF RowIds
    <3> QED
      BY <1>4, <3>2
  <2> QED
    BY <2>2
<1>5. ASSUME NEW d \in confirmed PROVE ConfirmsRow(l, m, l[d].key, d)
  <2>1. d \in RowIds /\ l[d].status = "processing" /\ s[d].status = "synced" /\ l[d].kind = kind
    BY <1>5
  <2>2. m[d].status = "synced"
    BY <1>1, <2>1 DEF GivenUp
  <2>3. ASSUME NEW i \in RowIds \ {d}, l[i].key = l[d].key
        PROVE  IF i < d /\ l[i].kind = l[d].kind /\ l[i].status \in GivenUp
                 THEN m[i].status = "deleted" ELSE SameFate(l, m, i)
    <3>1. s[i] = l[i]
      BY <1>4, <2>3
    <3>2. s[d].key = l[d].key
      BY <1>2, <2>1 DEF SameIntent
    <3>3. i \in old <=> l[i].kind = kind /\ l[i].status \in GivenUp /\ i < d
      <4>1. ASSUME NEW e \in confirmed, s[e].key = l[d].key PROVE e = d
        <5>1. l[e].key = l[d].key /\ e \in RowIds
          BY <1>2, <4>1 DEF SameIntent
        <5> QED
          BY <1>4, <5>1
      <4> QED
        BY <2>3, <3>1, <3>2, <4>1
    <3> QED
      BY <1>1, <2>1, <3>1, <3>3 DEF SameFate
  <2> QED
    BY <2>1, <2>2, <2>3 DEF ConfirmsRow
<1>6. ASSUME NEW k, \A d \in confirmed : l[d].key # k, NEW i \in RowIds, l[i].key = k
      PROVE  Fades(l, m, i)
  <2>1. i \notin confirmed /\ Fades(l, s, i)
    BY <1>6
  <2>2. i \notin old
    BY <1>2, <1>6 DEF SameIntent
  <2> QED
    BY <1>1, <2>1, <2>2 DEF Fades, SameFate, SameIntent
<1>7. QueueStep(l, m)
  <2>1. ASSUME NEW k \in Keys
        PROVE  \/ \A i \in RowIds : l[i].key = k => Fades(l, m, i)
               \/ \E d \in RowIds : ConfirmsRow(l, m, k, d)
    <3>1. CASE \E d \in confirmed : l[d].key = k
      BY <1>5, <3>1
    <3>2. CASE \A d \in confirmed : l[d].key # k
      BY <1>6, <3>2
    <3> QED
      BY <3>1, <3>2
  <2> QED
    BY <1>3, <2>1 DEF QueueStep
<1> QED
  BY <1>7 DEF m

\* What is written before the token of a fetched anime fades rows.
LEMMA AfterFetchFades ==
  ASSUME log \in Logs, NEW c
  PROVE  FadesAll(log, AfterFetch(c))
<1> DEFINE unreachable == {i \in c.send : /\ c.base[log[i].key] = NoToken
                                         /\ log[i].key \notin c.gone}
           back == Settle(log, unreachable, c.claim, "pending")
<1>1. back \in Logs /\ FadesAll(log, back)
  <2> HIDE DEF unreachable
  <2> QED
    BY SettleType, SettleFades DEF Statuses, Queued
<1> HIDE DEF back
<1>2. FadesAll(back, GiveKeysUp(back, c.gone, c.send, c.claim))
  BY <1>1, GiveKeysUpFades
<1> QED
  BY <1>1, <1>2, FadesAgain DEF AfterFetch, back

\* A settle at one row: what it does to a row held and to any other.
LEMMA SettleAt ==
  ASSUME NEW l \in Logs, NEW ids, NEW claim, NEW status, NEW i \in RowIds
  PROVE  LET m == Settle(l, ids, claim, status)
         IN  /\ i \notin Held(l, ids, claim) => m[i] = l[i]
             /\ i \in Held(l, ids, claim) => m[i].status = status /\ SameIntent(l, m, i)
BY DEF Settle, Held, Logs, Row, SameIntent

\* A conflict at one row.
LEMMA SettleConflictAt ==
  ASSUME NEW l \in Logs, NEW ids, NEW claim, NEW outcome, NEW i \in RowIds,
         \A j \in ids : outcome[j] \in Outcomes
  PROVE  LET m == SettleConflict(l, ids, claim, outcome)
         IN  /\ i \notin Held(l, ids, claim) => m[i] = l[i]
             /\ i \in Held(l, ids, claim) =>
                  m[i].status \in {"pending", "conflict_exhausted"} /\ SameIntent(l, m, i)
<1> DEFINE m == SettleConflict(l, ids, claim, outcome)
<1>1. CASE i \in Held(l, ids, claim)
  <2>1. l[i] \in Row /\ outcome[i] \in Outcomes
    BY <1>1 DEF Held, Logs
  <2> QED
    BY <1>1, <2>1 DEF SettleConflict, Outcomes, Row, SameIntent
<1>2. CASE i \notin Held(l, ids, claim)
  BY <1>2 DEF SettleConflict
<1> QED
  BY <1>1, <1>2

\* The answer of the bridge makes a step of the queue: every row has one verdict.
LEMMA SettledByStep ==
  ASSUME TypeOK, OldestFirstIn(log), NEW r \in Runtimes,
         \A i \in cyc[r].send : log[i].kind = "update"
  PROVE  QueueStep(log, SettledBy(cyc[r]))
<1> DEFINE c        == cyc[r]
           outcome  == [i \in Said(c, "conflict") |->
                          ConflictOutcome(log[i], c.base[log[i].key],
                                          c.answer.token[log[i].key])]
           conflict == SettleConflict(log, Said(c, "conflict"), c.claim, outcome)
           dead     == Settle(conflict, Said(c, "unsupported"), c.claim, "dead_letter")
           synced   == Settle(dead, ConfirmedBy(c), c.claim, "synced")
           settled  == Settle(synced, Said(c, "silent"), c.claim, "pending")
           held     == Held(log, ConfirmedBy(c), c.claim)
           old      == SupersededEdits(settled, held)
<1>1. log \in Logs /\ c \in Cycle /\ c.send \subseteq RowIds
  BY DEF TypeOK, Logs, Cycle
<1>2. \A i \in Said(c, "conflict") : outcome[i] \in Outcomes
  <2> TAKE i \in Said(c, "conflict")
  <2>1. log[i] \in Row
    BY DEF TypeOK, Said, Cycle
  <2> QED
    BY <2>1, OutcomeType
<1>3. \A i \in RowIds :
        /\ i \notin Held(log, Said(c, "conflict"), c.claim) => conflict[i] = log[i]
        /\ i \in Held(log, Said(c, "conflict"), c.claim) =>
             conflict[i].status \in {"pending", "conflict_exhausted"} /\ SameIntent(log, conflict, i)
  <2> HIDE DEF outcome
  <2> QED
    BY <1>1, <1>2, SettleConflictAt
<1>4. conflict \in Logs
  <2> HIDE DEF outcome
  <2> QED
    BY <1>1, <1>2, SettleConflictType
<1> HIDE DEF conflict
<1>5. dead \in Logs
  BY <1>4, SettleType DEF Statuses, GivenUp
<1>6. \A i \in RowIds :
        /\ i \notin Held(conflict, Said(c, "unsupported"), c.claim) => dead[i] = conflict[i]
        /\ i \in Held(conflict, Said(c, "unsupported"), c.claim) =>
             dead[i].status = "dead_letter" /\ SameIntent(conflict, dead, i)
  BY <1>4, SettleAt
<1> HIDE DEF dead
<1>7. synced \in Logs
  BY <1>5, SettleType DEF Statuses
<1>8. \A i \in RowIds :
        /\ i \notin Held(dead, ConfirmedBy(c), c.claim) => synced[i] = dead[i]
        /\ i \in Held(dead, ConfirmedBy(c), c.claim) =>
             synced[i].status = "synced" /\ SameIntent(dead, synced, i)
  BY <1>5, SettleAt
<1> HIDE DEF synced
<1>9. settled \in Logs
  BY <1>7, SettleType DEF Statuses, Queued
<1>10. \A i \in RowIds :
        /\ i \notin Held(synced, Said(c, "silent"), c.claim) => settled[i] = synced[i]
        /\ i \in Held(synced, Said(c, "silent"), c.claim) =>
             settled[i].status = "pending" /\ SameIntent(synced, settled, i)
  BY <1>7, SettleAt
<1> HIDE DEF settled
<1>11. ASSUME NEW i \in RowIds, i \notin Held(log, c.send, c.claim)
       PROVE  settled[i] = log[i]
  BY <1>3, <1>6, <1>8, <1>10, <1>11 DEF Held, Said, ConfirmedBy
<1>12. ASSUME NEW i \in held
       PROVE  settled[i].status = "synced" /\ SameIntent(log, settled, i)
              /\ log[i].status = "processing" /\ log[i].kind = "update" /\ i \in RowIds
  <2>1. i \in RowIds /\ i \in c.send /\ c.answer.verdict[i] \in {"applied", "shown"}
        /\ log[i].status = "processing" /\ log[i].claim = c.claim
    BY <1>1, <1>12 DEF Held, ConfirmedBy, Said
  <2>2. conflict[i] = log[i]
    BY <1>3, <2>1 DEF Held, Said
  <2>3. dead[i] = log[i]
    BY <1>6, <2>1, <2>2 DEF Held, Said
  <2>4. synced[i].status = "synced" /\ SameIntent(dead, synced, i)
    BY <1>8, <2>1, <2>3 DEF Held, Said, ConfirmedBy
  <2>5. settled[i] = synced[i]
    BY <1>10, <2>1 DEF Held, Said
  <2> QED
    BY <2>1, <2>3, <2>4, <2>5 DEF SameIntent
<1>13. ASSUME NEW i \in RowIds \ held
       PROVE  Fades(log, settled, i)
  <2>1. CASE i \notin Held(log, c.send, c.claim)
    BY <1>11, <2>1 DEF Fades, SameFate, SameIntent
  <2>2. CASE i \in Held(log, c.send, c.claim)
    <3>1. /\ i \in c.send /\ c.answer.verdict[i] \notin {"applied", "shown"}
          /\ log[i].status = "processing" /\ log[i].claim = c.claim /\ log[i].kind = "update"
      BY <1>13, <2>2 DEF Held, ConfirmedBy, Said
    <3>2. SameIntent(log, conflict, i) /\ conflict[i].status \in {"processing", "pending", "conflict_exhausted"}
      BY <1>3, <3>1 DEF SameIntent
    <3>3. SameIntent(conflict, dead, i)
          /\ dead[i].status \in {"processing", "pending", "conflict_exhausted", "dead_letter"}
      BY <1>6, <3>2 DEF SameIntent
    <3>4. synced[i] = dead[i]
      BY <1>8, <3>1 DEF Held, ConfirmedBy, Said
    <3>5. SameIntent(synced, settled, i)
          /\ settled[i].status \in {"processing", "pending", "conflict_exhausted", "dead_letter"}
      BY <1>10, <3>3, <3>4 DEF SameIntent
    <3> QED
      BY <3>1, <3>2, <3>3, <3>4, <3>5 DEF Fades, SameFate, SameIntent, Queued, GivenUp
  <2> QED
    BY <2>1, <2>2
<1>14. \A i \in RowIds : log[i].status # "processing" => settled[i] = log[i]
  BY <1>11 DEF Held
<1>15. \A i \in RowIds : i \in old <=>
         /\ settled[i].kind = "update" /\ settled[i].status \in GivenUp
         /\ \E d \in held : settled[d].key = settled[i].key /\ i < d
  BY DEF SupersededEdits
<1>16. held \in SUBSET RowIds
  BY <1>12
<1> HIDE DEF held, old
<1>17. QueueStep(log, Delete(settled, old))
  BY <1>1, <1>9, <1>12, <1>13, <1>14, <1>15, <1>16, ConfirmedStep, ZenonT(40)
<1> QED
  BY <1>17 DEF SettledBy, settled, synced, dead, conflict, old, held

\* So does a delivered rating.
LEMMA RatedStep ==
  ASSUME TypeOK, OldestFirstIn(log), RatingsAreDeadLetters(log), NEW ids \in SUBSET RowIds, NEW claim,
         \A i \in ids : log[i].kind = "season_rating"
  PROVE  LET synced == Settle(log, ids, claim, "synced")
         IN  QueueStep(log, Delete(synced, SupersededRatings(synced, Held(log, ids, claim))))
<1> DEFINE synced == Settle(log, ids, claim, "synced")
           held   == Held(log, ids, claim)
           old    == SupersededRatings(synced, held)
<1>1. log \in Logs
  BY DEF TypeOK, Logs
<1>2. synced \in Logs
  BY <1>1, SettleType DEF Statuses
<1>3. \A i \in RowIds :
        /\ i \notin held => synced[i] = log[i]
        /\ i \in held => synced[i].status = "synced" /\ SameIntent(log, synced, i)
  BY <1>1, SettleAt
<1>4. held \in SUBSET RowIds
  BY DEF Held
<1>5. \A i \in held : log[i].status = "processing" /\ log[i].kind = "season_rating"
  BY DEF Held
<1> HIDE DEF synced
<1>6. \A i \in RowIds \ held : Fades(log, synced, i)
  BY <1>3 DEF Fades, SameFate, SameIntent
<1>7. \A i \in RowIds : log[i].status # "processing" => synced[i] = log[i]
  BY <1>3, <1>5
<1>8. \A i \in RowIds : i \in old <=>
         /\ synced[i].kind = "season_rating" /\ synced[i].status \in GivenUp
         /\ \E d \in held : synced[d].key = synced[i].key /\ i < d
  <2>1. \A i \in RowIds : synced[i].status = "conflict_exhausted" => synced[i].kind = "update"
    BY <1>3 DEF RatingsAreDeadLetters
  <2> HIDE DEF held
  <2> QED
    BY <2>1 DEF SupersededRatings, GivenUp
<1> HIDE DEF held, old
<1>9. QueueStep(log, Delete(synced, old))
  BY <1>1, <1>2, <1>3, <1>4, <1>5, <1>6, <1>7, <1>8, ConfirmedStep
<1> QED
  BY <1>9 DEF synced, held, old

\* Every step of a runtime is, for the rows, a step of the queue.
LEMMA RuntimeQueueStep ==
  ASSUME CycleInv, OldestFirstIn(log), RatingsAreDeadLetters(log), NEW r \in Runtimes,
         Advance(r) \/ EarlyThrow(r) \/ Crash(r)
  PROVE  QueueStep(log, log')
<1> DEFINE c == cyc[r]
<1>0. log \in Logs /\ c \in Cycle /\ TypeOK /\ OldestFirstIn(log) /\ InShape(log, Evidence, r, c)
  BY DEF CycleInv, TypeOK, Logs
<1>1. CASE UNCHANGED log
  BY <1>1, FadesQueueStep DEF FadesAll, Fades, SameFate, SameIntent
<1>2. CASE NativeSweep(r)
  <2>1. log' = ReturnOrphans(log, clock)
    BY <1>2 DEF NativeSweep
  <2> QED
    BY <1>0, <2>1, ReturnOrphansFades, FadesQueueStep
<1>3. CASE ClaimBatch(r)
  <2>1. PICK claim : log' = Take(log, Backlog(log, clock), claim)
    BY <1>3 DEF ClaimBatch
  <2>2. \A i \in Backlog(log, clock) : log[i].status \in Queued
    BY DEF Backlog, OldestQueued
  <2> QED
    BY <1>0, <2>1, <2>2, TakeFades, FadesQueueStep
<1>4. CASE StoreFetched(r)
  <2>1. log' = AfterFetch(c)
    BY <1>4 DEF StoreFetched
  <2> QED
    BY <1>0, <2>1, AfterFetchFades, FadesQueueStep
<1>5. CASE RejectIsolated(r) \/ FailCycle(r) \/ RatingRefused(r) \/ RatingUnsettled(r)
  <2>1. \E ids : \/ log' = Settle(log, ids, c.claim, "pending")
                 \/ log' = Settle(log, ids, c.claim, "dead_letter")
    BY <1>5 DEF RejectIsolated, FailCycle, RatingRefused, RatingUnsettled
  <2>2. PICK ids, status : /\ log' = Settle(log, ids, c.claim, status)
                           /\ status \in {"pending", "dead_letter"}
    BY <2>1
  <2> QED
    BY <1>0, <2>2, SettleFades, FadesQueueStep
<1>6. CASE RejectLone(r)
  <2> DEFINE dead == Settle(log, c.send, c.claim, "dead_letter")
  <2>1. dead \in Logs /\ FadesAll(log, dead)
    BY <1>0, SettleType, SettleFades DEF Statuses, GivenUp
  <2>2. log' = Settle(dead, c.mine, c.claim, "pending")
    BY <1>6 DEF RejectLone
  <2> HIDE DEF dead
  <2>3. FadesAll(dead, log')
    BY <2>1, <2>2, SettleFades
  <2> QED
    BY <2>1, <2>3, FadesAgain, FadesQueueStep
<1>7. CASE ApplyResponse(r)
  <2> DEFINE mid  == SettledBy(c)
             next == Successors(mid, KeysOf(Held(log, ConfirmedBy(c), c.claim)), c.claim)
  <2>1. log' = Take(mid, next, c.claim) /\ c.pc = "answered"
    BY <1>7 DEF ApplyResponse
  <2>2. \A i \in c.send : log[i].kind = "update"
    BY <1>0, <2>1 DEF InShape, KnowsItsRows, Reconciling
  <2>3. mid \in Logs /\ QueueStep(log, mid)
    BY <1>0, <2>2, SettledByType, SettledByStep
  <2>4. \A i \in next : mid[i].status = "pending"
    BY SuccessorsPending
  <2> HIDE DEF mid, next
  <2> QED
    BY <1>0, <2>1, <2>3, <2>4, QueueStepTake
<1>8. CASE RatingDelivered(r)
  <2> DEFINE synced == Settle(log, c.send, c.claim, "synced")
             old    == SupersededRatings(synced, Held(log, c.send, c.claim))
             mid    == Delete(synced, old)
             next   == Successors(mid, KeysOf(Held(log, c.send, c.claim)), c.claim)
  <2>1. log' = Take(mid, next, c.claim) /\ c.pc = "rating_answered"
    BY <1>8 DEF RatingDelivered
  <2>2. \A i \in c.send : log[i].kind = "season_rating"
    BY <1>0, <2>1 DEF InShape, KnowsItsRows, Rating
  <2>3. c.send \in SUBSET RowIds
    BY <1>0 DEF Cycle
  <2>4. QueueStep(log, mid)
    BY <1>0, <2>2, <2>3, RatedStep
  <2>5. mid \in Logs
    <3>1. synced \in Logs
      BY <1>0, SettleType DEF Statuses
    <3> HIDE DEF synced, old
    <3> QED
      BY <3>1, DeleteType
  <2>6. \A i \in next : mid[i].status = "pending"
    BY SuccessorsPending
  <2> HIDE DEF mid, next
  <2> QED
    BY <1>0, <2>1, <2>4, <2>5, <2>6, QueueStepTake
<1>9. CASE BeginSend(r) \/ IsolateNext(r) \/ ReadTokens(r) \/ FetchMissing(r) \/ BridgeAnswers(r)
            \/ RejectRound(r) \/ EndIsolation(r) \/ RatingCheck(r) \/ RatingArrives(r) \/ EndRound(r)
            \/ EarlyThrow(r) \/ Crash(r)
  <2>1. UNCHANGED log
    BY <1>9 DEF BeginSend, IsolateNext, ReadTokens, FetchMissing, BridgeAnswers, RejectRound,
                EndIsolation, RatingCheck, RatingArrives, EndRound, EarlyThrow, Crash
  <2> QED
    BY <1>1, <2>1
<1> QED
  BY <1>2, <1>3, <1>4, <1>5, <1>6, <1>7, <1>8, <1>9 DEF Advance, Send, Rate

\* The queue lets no rating conflict out.
LEMMA RatingsNext ==
  ASSUME TypeOK, OldestFirstIn(log), CycleInv, RatingsAreDeadLetters(log), [Next]_vars
  PROVE  RatingsAreDeadLetters(log')
<1>1. ASSUME QueueStep(log, log') PROVE RatingsAreDeadLetters(log')
  <2> SUFFICES ASSUME NEW i \in RowIds, log'[i].status = "conflict_exhausted"
               PROVE  log'[i].kind = "update"
    BY DEF RatingsAreDeadLetters
  <2>1. log'[i].kind = log[i].kind /\ log[i].key \in Keys
    BY <1>1 DEF QueueStep, SameIntent, TypeOK, Row
  <2>2. log[i].status = "conflict_exhausted" \/ log[i].kind = "update"
    <3>1. CASE Fades(log, log', i)
      BY <3>1 DEF Fades
    <3>2. ASSUME NEW d \in RowIds, ConfirmsRow(log, log', log[i].key, d)
          PROVE  log[i].status = "conflict_exhausted"
      <4>1. i # d
        BY <3>2 DEF ConfirmsRow
      <4> QED
        BY <3>2, <4>1 DEF ConfirmsRow, SameFate, Queued
    <3> QED
      BY <1>1, <2>1, <3>1, <3>2 DEF QueueStep
  <2> QED
    BY <2>1, <2>2 DEF RatingsAreDeadLetters
<1>2. ASSUME NEW k, NEW kind, LocalEdit(k, kind) PROVE RatingsAreDeadLetters(log')
  BY <1>2 DEF LocalEdit, TypeOK, RatingsAreDeadLetters
<1>6. ASSUME NEW k \in Keys, NEW kind \in RowKinds, KeepLocal(k, kind) \/ KeepBridge(k, kind)
      PROVE  RatingsAreDeadLetters(log')
  BY <1>6, ChoiceAt DEF RatingsAreDeadLetters
<1>3. CASE UNCHANGED log
  BY <1>3
<1>4. CASE UNCHANGED vars
  BY <1>3, <1>4 DEF vars
<1>5. CASE Environment
  BY <1>2, <1>3, <1>5, <1>6 DEF Environment, Tick, BridgeEdit, StrayArrives
<1> QED
  BY <1>1, <1>4, <1>5, RuntimeQueueStep DEF Next

-----------------------------------------------------------------------------
(* The mapping to DurableQueue.                                             *)

\* The fate of a status.
LEMMA Fate ==
  ASSUME NEW status \in Statuses
  PROVE  /\ FateOf(status) \in Abstract!Fates
         /\ FateOf(status) = "queued" <=> status \in Queued
         /\ FateOf(status) = "given_up" <=> status \in GivenUp
         /\ FateOf(status) = "confirmed" <=> status = "synced"
         /\ FateOf(status) = "resolved" <=> status = "deleted"
         /\ FateOf(status) = "absent" <=> status = "absent"
BY DEF FateOf, Statuses, Queued, GivenUp, Abstract!Fates

\* A row of the queue.
LEMMA QueueRowAt ==
  ASSUME NEW i \in RowIds
  PROVE  QueueRow[i] = [fate |-> FateOf(log[i].status), key |-> log[i].key, kind |-> log[i].kind]
BY DEF QueueRow

\* Outbox starts as DurableQueue does.
LEMMA QueueInit == Init => Abstract!InitQueue
<1> SUFFICES ASSUME Init PROVE Abstract!InitQueue
  OBVIOUS
<1>1. TypeOK
  BY TypeInit
<1>2. \A i \in RowIds : log[i].status = "absent" /\ log[i] \in Row
  BY <1>1 DEF Init, AbsentRow, TypeOK
<1>3. \A i \in RowIds : /\ QueueRow[i].fate = "absent"
                        /\ QueueRow[i] \in [fate : Abstract!Fates, key : Keys, kind : Kinds]
  BY <1>2, Fate DEF QueueRow, Row
<1> QED
  BY <1>3 DEF Abstract!InitQueue, Abstract!Queue, Abstract!Ids, RowIds, QueueRow

\* An edit of the user is put behind all the others.
LEMMA EditEnqueues ==
  ASSUME TypeOK, FillsUp(log), NEW k \in Keys, NEW kind \in RowKinds, LocalEdit(k, kind)
  PROVE  Abstract!NextQueue
<1>1. PICK i \in RowIds :
        /\ log[i].status = "absent"
        /\ \A j \in RowIds : log[j].status = "absent" => i <= j
        /\ log' = [log EXCEPT ![i] = [status |-> "pending", key |-> k,
                     kind |-> kind, claim |-> NoClaim, conflicts |-> 0]]
  BY DEF LocalEdit
<1>2. i \in Abstract!Ids /\ kind \in Kinds
  BY OutboxAssumption DEF Abstract!Ids, RowIds
<1>3. \A j \in Abstract!Ids : QueueRow[j].fate = "absent" <=> i <= j
  <2> SUFFICES ASSUME NEW j \in RowIds
               PROVE  QueueRow[j].fate = "absent" <=> i <= j
    BY DEF Abstract!Ids, RowIds
  <2>1. QueueRow[j].fate = "absent" <=> log[j].status = "absent"
    <3>1. log[j].status \in Statuses
      BY DEF TypeOK, Row
    <3> QED
      BY <3>1, Fate DEF QueueRow
  <2>2. log[j].status = "absent" => i <= j
    BY <1>1
  <2>3. i <= j => i = j \/ i < j
    BY OperationLogAssumption DEF RowIds
  <2>4. i < j => log[j].status = "absent"
    BY <1>1 DEF FillsUp
  <2> QED
    BY <1>1, <2>1, <2>2, <2>3, <2>4
<1>4. QueueRow' = [QueueRow EXCEPT ![i] = [fate |-> "queued", key |-> k, kind |-> kind]]
  <2>1. log'[i] = [status |-> "pending", key |-> k, kind |-> kind, claim |-> NoClaim, conflicts |-> 0]
        /\ \A j \in RowIds : j # i => log'[j] = log[j]
    BY <1>1 DEF TypeOK
  <2>2. FateOf("pending") = "queued"
    BY Fate DEF Statuses, Queued
  <2>3. ASSUME NEW j \in RowIds
        PROVE  QueueRow'[j] = IF j = i THEN [fate |-> "queued", key |-> k, kind |-> kind]
                                       ELSE QueueRow[j]
    BY <2>1, <2>2 DEF QueueRow
  <2> QED
    BY <2>3 DEF QueueRow
<1>5. Abstract!Enqueue(i, k, kind)
  BY <1>3, <1>4 DEF Abstract!Enqueue
<1> QED
  BY <1>2, <1>5 DEF Abstract!NextQueue

\* A step of the queue on the rows is one of DurableQueue on their fates.
LEMMA QueueStepSettles ==
  ASSUME TypeOK, TypeOK', OldestFirstIn(log), QueueStep(log, log')
  PROVE  Abstract!Settle
<1>1. \A i \in RowIds : log[i] \in Row /\ log'[i] \in Row
  BY DEF TypeOK
<1>2. Abstract!Ids = RowIds
  BY DEF Abstract!Ids, RowIds
<1>3. ASSUME NEW i \in RowIds
      PROVE  /\ QueueRow[i] = [fate |-> FateOf(log[i].status), key |-> log[i].key, kind |-> log[i].kind]
             /\ QueueRow'[i] = [fate |-> FateOf(log'[i].status), key |-> log[i].key, kind |-> log[i].kind]
             /\ QueueRow[i].fate = FateOf(log[i].status)
             /\ QueueRow[i].key = log[i].key /\ QueueRow[i].kind = log[i].kind
  BY DEF QueueRow, QueueStep, SameIntent
<1>4. ASSUME NEW i \in RowIds
      PROVE  /\ FateOf(log[i].status) = "queued" <=> log[i].status \in Queued
             /\ FateOf(log[i].status) = "given_up" <=> log[i].status \in GivenUp
             /\ FateOf(log[i].status) = "absent" <=> log[i].status = "absent"
             /\ log'[i].status = "synced" => FateOf(log'[i].status) = "confirmed"
             /\ log'[i].status = "deleted" => FateOf(log'[i].status) = "resolved"
             /\ log'[i].status = "absent" => FateOf(log'[i].status) = "absent"
             /\ log'[i].status \in GivenUp => FateOf(log'[i].status) = "given_up"
             /\ FateOf(log'[i].status) \in Abstract!Fates
             /\ SameFate(log, log', i) => FateOf(log'[i].status) = FateOf(log[i].status)
  <2>1. log[i].status \in Statuses /\ log'[i].status \in Statuses
    BY <1>1 DEF Row
  <2>2. /\ FateOf(log[i].status) = "queued" <=> log[i].status \in Queued
        /\ FateOf(log[i].status) = "given_up" <=> log[i].status \in GivenUp
        /\ FateOf(log[i].status) = "absent" <=> log[i].status = "absent"
    BY <2>1, Fate
  <2>3. /\ FateOf(log'[i].status) = "queued" <=> log'[i].status \in Queued
        /\ FateOf(log'[i].status) = "given_up" <=> log'[i].status \in GivenUp
        /\ FateOf(log'[i].status) = "absent" <=> log'[i].status = "absent"
        /\ FateOf(log'[i].status) = "confirmed" <=> log'[i].status = "synced"
        /\ FateOf(log'[i].status) = "resolved" <=> log'[i].status = "deleted"
        /\ FateOf(log'[i].status) \in Abstract!Fates
    BY <2>1, Fate
  <2>4. SameFate(log, log', i) => FateOf(log'[i].status) = FateOf(log[i].status)
    BY <2>2, <2>3 DEF SameFate
  <2> QED
    BY <2>2, <2>3, <2>4
<1>5. QueueRow' \in Abstract!Queue
  <2>1. ASSUME NEW i \in RowIds
        PROVE  QueueRow'[i] \in [fate : Abstract!Fates, key : Keys, kind : Kinds]
    <3>1. QueueRow'[i] = [fate |-> FateOf(log'[i].status), key |-> log[i].key, kind |-> log[i].kind]
      BY <1>3
    <3>2. log[i].key \in Keys /\ log[i].kind \in Kinds /\ FateOf(log'[i].status) \in Abstract!Fates
      BY <1>1, <1>4 DEF Row
    <3> QED
      BY <3>1, <3>2
  <2>2. QueueRow' = [i \in RowIds |-> QueueRow'[i]]
    BY DEF QueueRow
  <2> QED
    BY <1>2, <2>1, <2>2 DEF Abstract!Queue
<1>6. \A i \in Abstract!Ids : QueueRow[i].fate = "absent" => QueueRow'[i] = QueueRow[i]
  <2> SUFFICES ASSUME NEW i \in RowIds, QueueRow[i].fate = "absent"
               PROVE  QueueRow'[i] = QueueRow[i]
    BY <1>2
  <2>1. FateOf(log[i].status) = "absent"
    BY <1>3
  <2>2. FateOf(log'[i].status) = "absent"
    BY <1>4, <2>1 DEF QueueStep
  <2> QED
    BY <1>3, <2>1, <2>2
<1>7. ASSUME NEW k \in Keys, NEW d \in RowIds, ConfirmsRow(log, log', k, d)
      PROVE  Abstract!ConfirmOldest(k)
  <2>1. d \in Abstract!QueuedOf(k)
    BY <1>2, <1>3, <1>4, <1>7 DEF Abstract!QueuedOf, ConfirmsRow, Queued
  <2>2. \A i \in Abstract!QueuedOf(k) : d <= i
    BY <1>2, <1>3, <1>4, <1>7, ZenonT(40) DEF Abstract!QueuedOf, ConfirmsRow, OldestFirstIn
  <2>3. \A i \in RowIds : i \in Abstract!MadeUpFor(d) <=>
          /\ log[i].key = k /\ i < d /\ log[i].kind = log[d].kind /\ log[i].status \in GivenUp
    <3>1. \A i \in RowIds : i \in Abstract!MadeUpFor(d) <=>
            /\ QueueRow[i].fate # "absent" /\ QueueRow[i].key = QueueRow[d].key /\ i < d
            /\ QueueRow[i].kind = QueueRow[d].kind /\ QueueRow[i].fate = "given_up"
      BY <1>2 DEF Abstract!MadeUpFor, Abstract!RowsOf
    <3> QED
      BY <1>3, <1>4, <1>7, <3>1, ZenonT(40) DEF ConfirmsRow, GivenUp
  <2>4. ASSUME NEW i \in Abstract!RowsOf(k)
        PROVE  QueueRow'[i] = [QueueRow[i] EXCEPT !.fate =
                 IF i = d THEN "confirmed"
                 ELSE IF i \in Abstract!MadeUpFor(d) THEN "resolved" ELSE @]
    <3>1. i \in RowIds /\ log[i].key = k
      BY <1>2, <1>3, <2>4 DEF Abstract!RowsOf
    <3>2. FateOf(log'[i].status) = IF i = d THEN "confirmed"
            ELSE IF i \in Abstract!MadeUpFor(d) THEN "resolved" ELSE FateOf(log[i].status)
      BY <1>4, <1>7, <2>3, <3>1 DEF ConfirmsRow
    <3>3. /\ QueueRow[i] = [fate |-> FateOf(log[i].status), key |-> log[i].key, kind |-> log[i].kind]
          /\ QueueRow'[i] = [fate |-> FateOf(log'[i].status), key |-> log[i].key, kind |-> log[i].kind]
      BY <1>3, <3>1
    <3> QED
      BY <3>2, <3>3
  <2> QED
    BY <2>1, <2>2, <2>4 DEF Abstract!ConfirmOldest
<1>8. ASSUME NEW k \in Keys, \A i \in RowIds : log[i].key = k => Fades(log, log', i)
      PROVE  Abstract!GiveUp(k)
  <2> DEFINE lost == {i \in RowIds : /\ log[i].key = k /\ log[i].status \in Queued
                                     /\ log'[i].status \in GivenUp}
  <2>1. lost \in SUBSET Abstract!QueuedOf(k)
    BY <1>2, <1>3, <1>4 DEF Abstract!QueuedOf
  <2>2. ASSUME NEW i \in Abstract!RowsOf(k)
        PROVE  QueueRow'[i] = [QueueRow[i] EXCEPT !.fate = IF i \in lost THEN "given_up" ELSE @]
    <3>1. i \in RowIds /\ log[i].key = k
      BY <1>2, <1>3, <2>2 DEF Abstract!RowsOf
    <3>2. FateOf(log'[i].status) = IF i \in lost THEN "given_up" ELSE FateOf(log[i].status)
      BY <1>4, <1>8, <3>1 DEF Fades
    <3> HIDE DEF lost
    <3>3. /\ QueueRow[i] = [fate |-> FateOf(log[i].status), key |-> log[i].key, kind |-> log[i].kind]
          /\ QueueRow'[i] = [fate |-> FateOf(log'[i].status), key |-> log[i].key, kind |-> log[i].kind]
      BY <1>3, <3>1
    <3> QED
      BY <3>2, <3>3
  <2> HIDE DEF lost
  <2> QED
    BY <2>1, <2>2 DEF Abstract!GiveUp
<1> QED
  BY <1>5, <1>6, <1>7, <1>8 DEF Abstract!Settle, QueueStep

\* Keeping the bridge's state resolves every row of the kind that still waits.
LEMMA KeepBridgeResolves ==
  ASSUME TypeOK, NEW k \in Keys, NEW kind \in RowKinds, KeepBridge(k, kind)
  PROVE  Abstract!NextQueue
<1>1. ASSUME NEW i \in RowIds
      PROVE  QueueRow'[i] =
               IF QueueRow[i].key = k /\ QueueRow[i].kind = kind /\ QueueRow[i].fate \in {"given_up", "queued"}
                 THEN [QueueRow[i] EXCEPT !.fate = "resolved"] ELSE QueueRow[i]
  <2>1. /\ QueueRow[i] = [fate |-> FateOf(log[i].status), key |-> log[i].key, kind |-> log[i].kind]
        /\ QueueRow'[i] = [fate |-> FateOf(log'[i].status), key |-> log'[i].key, kind |-> log'[i].kind]
    BY DEF QueueRow
  <2>2. log[i] \in Row
    BY DEF TypeOK
  <2>3. /\ FateOf(log[i].status) = "queued" <=> log[i].status \in Queued
        /\ FateOf(log[i].status) = "given_up" <=> log[i].status \in GivenUp
        /\ FateOf("deleted") = "resolved"
    <3>1. log[i].status \in Statuses /\ "deleted" \in Statuses
      BY <2>2 DEF Row, Statuses
    <3> QED
      BY <3>1, Fate
  <2>4. CASE log[i].key = k /\ log[i].kind = kind /\ log[i].status \in Queued \cup GivenUp
    <3>1. log'[i].status = "deleted" /\ log'[i].key = log[i].key /\ log'[i].kind = log[i].kind
      BY <2>2, <2>4 DEF KeepBridge, RowsOfKind, Row
    <3>2. FateOf(log[i].status) \in {"given_up", "queued"} /\ FateOf(log'[i].status) = "resolved"
      BY <2>3, <2>4, <3>1
    <3> QED
      BY <2>1, <2>4, <3>1, <3>2
  <2>5. CASE ~(log[i].key = k /\ log[i].kind = kind /\ log[i].status \in Queued \cup GivenUp)
    <3>1. log'[i] = log[i]
      BY <2>5 DEF KeepBridge, RowsOfKind
    <3>2. QueueRow'[i] = QueueRow[i]
      BY <2>1, <3>1
    <3>3. ~(log[i].key = k /\ log[i].kind = kind /\ FateOf(log[i].status) \in {"given_up", "queued"})
      BY <2>3, <2>5
    <3> QED
      BY <2>1, <3>2, <3>3
  <2> QED
    BY <2>4, <2>5
<1>2. Abstract!KeepBridgeState(k, kind)
  <2>1. QueueRow' = [i \in RowIds |-> QueueRow'[i]]
    BY DEF QueueRow
  <2>2. Abstract!Ids = RowIds
    BY DEF Abstract!Ids, RowIds
  <2> QED
    BY <1>1, <2>1, <2>2 DEF Abstract!KeepBridgeState, Abstract!Resolve
<1>3. kind \in Kinds
  BY OutboxAssumption
<1> QED
  BY <1>2, <1>3 DEF Abstract!NextQueue

\* What the refinement rests on, together.
QueueInv == CycleInv /\ QueueOrdered /\ RatingsAreDeadLetters(log)

\* Every step of Outbox is a step of DurableQueue or changes no fate.
LEMMA StepImplements ==
  ASSUME "keep_local" \notin Choices, QueueInv, [Next]_vars
  PROVE  [Abstract!NextQueue]_QueueRow
<1> SUFFICES Abstract!NextQueue \/ UNCHANGED QueueRow
  OBVIOUS
<1>1. TypeOK /\ TypeOK' /\ CycleInv /\ OldestFirstIn(log) /\ FillsUp(log) /\ RatingsAreDeadLetters(log)
  BY TypeNext DEF QueueInv, CycleInv, QueueOrdered, Ordered, NeverRequeues
<1>2. ASSUME NEW r \in Runtimes, Advance(r) \/ EarlyThrow(r) \/ Crash(r)
      PROVE  Abstract!NextQueue
  <2>1. QueueStep(log, log')
    BY <1>1, <1>2, RuntimeQueueStep
  <2> QED
    BY <1>1, <2>1, QueueStepSettles DEF Abstract!NextQueue
<1>3. ASSUME NEW k \in Keys, NEW kind \in RowKinds,
             LocalEdit(k, kind) \/ KeepLocal(k, kind) \/ KeepBridge(k, kind)
      PROVE  Abstract!NextQueue
  <2>1. ~KeepLocal(k, kind)
    BY DEF KeepLocal
  <2> QED
    BY <1>1, <1>3, <2>1, EditEnqueues, KeepBridgeResolves
<1>4. CASE UNCHANGED log
  BY <1>4 DEF QueueRow
<1>5. CASE Environment
  BY <1>3, <1>4, <1>5 DEF Environment, Tick, BridgeEdit, StrayArrives
<1>6. CASE UNCHANGED vars
  BY <1>4, <1>6 DEF vars
<1> QED
  BY <1>2, <1>5, <1>6 DEF Next

\* R-14 and R-16: for the user's intents, the two runtimes are one in-order queue that drops one
\* only as the user chose.  Every behaviour of Outbox, with every fault it admits, is one of
\* DurableQueue, as long as the user queues no given-up row again: such a row may be older than
\* one whose claim expired and whose late answer is then confirmed ahead of it.
THEOREM ImplementsTheQueue ==
  ASSUME "keep_local" \notin Choices
  PROVE  Spec => ImplementsQueue
<1>1. Init => QueueInv
  BY ShapeInit, OrderedInit DEF QueueInv, Init, RatingsAreDeadLetters, AbsentRow
<1>2. QueueInv /\ [Next]_vars => QueueInv'
  <2>1. QueueInv => OldestFirstIn(log)
    BY DEF QueueInv, QueueOrdered, Ordered, NeverRequeues
  <2> QED
    BY <2>1, ShapeNext, OrderedNext, RatingsNext DEF QueueInv, CycleInv, QueueOrdered
<1>3. QueueInv /\ [Next]_vars => [Abstract!NextQueue]_QueueRow
  BY StepImplements
<1> QED
  BY <1>1, <1>2, <1>3, QueueInit, PTL DEF Spec, ImplementsQueue, Abstract!SpecQueue

-----------------------------------------------------------------------------
(* R-5: what one refused request can take with it.                          *)

\* A cycle that isolates or rates has one row in its request.
GivesUpOne(c) == c.isolating \/ c.pc \in Rating => \A i, j \in c.send : i = j

\* Every step of a runtime keeps that.
LEMMA GivesUpOneNext ==
  ASSUME CycleInv, NEW r \in Runtimes, GivesUpOne(cyc[r]), Advance(r) \/ EarlyThrow(r) \/ Crash(r)
  PROVE  GivesUpOne(cyc'[r])
<1> DEFINE c == cyc[r]
<1>0. c \in Cycle /\ KeepsItsLists(r, c) /\ r \in DOMAIN cyc
  BY DEF CycleInv, TypeOK, InShape
<1>1. ASSUME NEW d, Continue(r, d) PROVE cyc'[r] = d
  BY <1>0, <1>1 DEF Continue
<1>2. ASSUME Continue(r, NoCycle) PROVE GivesUpOne(cyc'[r])
  <2>1. cyc'[r] = NoCycle
    BY <1>1, <1>2
  <2> QED
    BY <2>1 DEF GivesUpOne, NoCycle, Rating
<1>3. ASSUME NEW d, Continue(r, d), \A i, j \in d.send : i = j
      PROVE  GivesUpOne(cyc'[r])
  BY <1>1, <1>3 DEF GivesUpOne
<1>4. CASE NativeSweep(r)
  <2>1. cyc'[r].pc = "swept" /\ cyc'[r].isolating = c.isolating
    BY <1>0, <1>4 DEF NativeSweep, Continue, Cycle
  <2> QED
    BY <1>0, <1>4, <2>1 DEF GivesUpOne, NativeSweep, KeepsItsLists, Reconciling, Rating
<1>5. CASE ClaimBatch(r)
  <2> DEFINE claim == [owner |-> r, at |-> clock]
             ids   == Backlog(log, clock)
             d == [NoCycle EXCEPT !.pc = "round", !.claim = claim, !.mine = ids, !.first = TRUE,
                                  !.since = IF r = "native" THEN cyc[r].since ELSE Since(cursor),
                                  !.edits = Updates(ids), !.ratings = RatingsOf(ids)]
  <2>1. Continue(r, d)
    BY <1>5 DEF ClaimBatch
  <2> HIDE DEF claim, ids
  <2>2. d.send = {} /\ d.pc = "round"
    BY DEF NoCycle
  <2> HIDE DEF d
  <2> QED
    BY <1>3, <2>1, <2>2
<1>6. CASE BeginSend(r)
  <2>1. cyc'[r].pc = "checked" /\ ~cyc'[r].isolating
    BY <1>0, <1>6 DEF BeginSend, Continue, Cycle, KeepsItsLists, Reconciling
  <2> QED
    BY <2>1 DEF GivesUpOne, Rating
<1>7. CASE IsolateNext(r)
  <2>1. PICK i \in c.edits :
          LET isHeld == Held(log, {i}, c.claim) # {}
          IN  Continue(r, [c EXCEPT !.edits = c.edits \ {i},
                !.pc   = IF isHeld THEN "checked" ELSE "isolating",
                !.send = IF isHeld THEN {i} ELSE {}])
    BY <1>7 DEF IsolateNext
  <2> DEFINE isHeld == Held(log, {i}, c.claim) # {}
             d == [c EXCEPT !.edits = c.edits \ {i},
                            !.pc   = IF isHeld THEN "checked" ELSE "isolating",
                            !.send = IF isHeld THEN {i} ELSE {}]
  <2>2. d.pc \in {"checked", "isolating"} /\ d.send \subseteq {i}
    BY <1>0 DEF Cycle
  <2>3. Continue(r, d)
    BY <2>1
  <2> HIDE DEF d
  <2> QED
    BY <1>3, <2>2, <2>3
<1>8. ASSUME cyc'[r].send \subseteq c.send, cyc'[r].isolating = c.isolating, c.pc \in Reconciling,
             cyc'[r].pc \in Reconciling
      PROVE  GivesUpOne(cyc'[r])
  BY <1>8 DEF GivesUpOne, Reconciling, Rating
<1>9. CASE ReadTokens(r)
  <2>1. /\ c.pc = "checked" /\ cyc'[r].pc \in {"fetching", "posted"}
        /\ cyc'[r].send = c.send /\ cyc'[r].isolating = c.isolating
    BY <1>0, <1>9 DEF ReadTokens, Continue, Cycle
  <2> QED
    BY <1>8, <2>1 DEF Reconciling
<1>10. CASE FetchMissing(r)
  <2>0. PICK base, gone : /\ Continue(r, [c EXCEPT !.pc = "fetched", !.gone = gone, !.base = base])
                          /\ c.pc = "fetching"
    BY <1>10 DEF FetchMissing
  <2>1. /\ c.pc = "fetching" /\ cyc'[r].pc = "fetched"
        /\ cyc'[r].send = c.send /\ cyc'[r].isolating = c.isolating
    BY <1>0, <2>0 DEF Continue, Cycle
  <2> QED
    BY <1>8, <2>1 DEF Reconciling
<1>11. CASE StoreFetched(r)
  <2>1. /\ c.pc = "fetched" /\ cyc'[r].pc = "posted"
        /\ cyc'[r].send \subseteq c.send /\ cyc'[r].isolating = c.isolating
    BY <1>0, <1>11 DEF StoreFetched, Sendable, Held, Continue, Cycle
  <2> QED
    BY <1>8, <2>1 DEF Reconciling
<1>12. CASE BridgeAnswers(r)
  <2>0. PICK answer : Continue(r, [c EXCEPT !.pc = "answered", !.answer = answer])
    BY <1>12 DEF BridgeAnswers
  <2>1. /\ cyc'[r].pc = "answered" /\ c.pc = "posted"
        /\ cyc'[r].send = c.send /\ cyc'[r].isolating = c.isolating
    BY <1>0, <1>12, <2>0 DEF BridgeAnswers, Continue, Cycle
  <2> QED
    BY <1>8, <2>1 DEF Reconciling
<1>13. CASE ApplyResponse(r)
  <2>1. \E next : Continue(r, [c EXCEPT !.pc = IF c.isolating THEN "isolating" ELSE "rating",
                           !.delivered = c.isolating, !.since = Since(c.answer.cursor),
                           !.mine = c.mine \cup next,
                           !.next = c.next \cup next, !.send = {},
                           !.base = NoBase, !.answer = NoAnswer])
    BY <1>13 DEF ApplyResponse
  <2>2. PICK next : cyc'[r] = [c EXCEPT !.pc = IF c.isolating THEN "isolating" ELSE "rating",
                           !.delivered = c.isolating, !.since = Since(c.answer.cursor),
                           !.mine = c.mine \cup next,
                           !.next = c.next \cup next, !.send = {},
                           !.base = NoBase, !.answer = NoAnswer]
    BY <1>1, <2>1
  <2>3. cyc'[r].send = {} /\ cyc'[r].pc \in {"isolating", "rating"}
    BY <1>0, <2>2 DEF Cycle
  <2> QED
    BY <2>3 DEF GivesUpOne
<1>14. CASE RatingDelivered(r)
  <2>1. \E next : Continue(r, [c EXCEPT !.pc = "rating", !.send = {},
                           !.mine = c.mine \cup next, !.next = c.next \cup next])
    BY <1>14 DEF RatingDelivered
  <2>2. PICK next : cyc'[r] = [c EXCEPT !.pc = "rating", !.send = {},
                           !.mine = c.mine \cup next, !.next = c.next \cup next]
    BY <1>1, <2>1
  <2>3. cyc'[r].send = {} /\ cyc'[r].pc = "rating"
    BY <1>0, <2>2 DEF Cycle
  <2> QED
    BY <2>3 DEF GivesUpOne
<1>15. CASE RejectRound(r) \/ RejectIsolated(r)
  <2>1. cyc'[r].send = {} /\ cyc'[r].pc = "isolating"
    <3>1. CASE RejectRound(r)
      BY <1>0, <3>1 DEF RejectRound, Continue, Cycle
    <3>2. CASE RejectIsolated(r)
      BY <1>0, <3>2 DEF RejectIsolated, Continue, Cycle
    <3> QED
      BY <1>15, <3>1, <3>2
  <2> QED
    BY <2>1 DEF GivesUpOne
<1>16. CASE RatingRefused(r) \/ RatingUnsettled(r)
  <2>1. Continue(r, [c EXCEPT !.pc = "rating", !.send = {}])
    BY <1>16 DEF RatingRefused, RatingUnsettled
  <2>2. cyc'[r].send = {} /\ cyc'[r].pc = "rating"
    BY <1>0, <2>1 DEF Continue, Cycle
  <2> QED
    BY <2>2 DEF GivesUpOne
<1>17. CASE EndIsolation(r)
  <2>1. cyc'[r].send = {} /\ cyc'[r].pc = "rating"
    BY <1>0, <1>17 DEF EndIsolation, KeepsItsLists, Continue, Cycle
  <2> QED
    BY <2>1 DEF GivesUpOne
<1>18. CASE RatingCheck(r)
  <2>1. PICK i \in c.ratings :
          LET isHeld == Held(log, {i}, c.claim) # {}
          IN  Continue(r, [c EXCEPT !.ratings = c.ratings \ {i},
                !.pc   = IF isHeld THEN "rating_posted" ELSE "rating",
                !.send = IF isHeld THEN {i} ELSE {}])
    BY <1>18 DEF RatingCheck
  <2> DEFINE isHeld == Held(log, {i}, c.claim) # {}
             d == [c EXCEPT !.ratings = c.ratings \ {i},
                            !.pc   = IF isHeld THEN "rating_posted" ELSE "rating",
                            !.send = IF isHeld THEN {i} ELSE {}]
  <2>2. d.pc \in {"rating", "rating_posted"} /\ d.send \subseteq {i}
    BY <1>0 DEF Cycle
  <2>3. Continue(r, d)
    BY <2>1
  <2> HIDE DEF d
  <2> QED
    BY <1>3, <2>2, <2>3
<1>19. CASE RatingArrives(r)
  <2>1. cyc'[r].pc = "rating_answered" /\ cyc'[r].send = c.send /\ c.pc = "rating_posted"
    BY <1>0, <1>19 DEF RatingArrives, Continue, Cycle
  <2> QED
    BY <2>1 DEF GivesUpOne, Rating
<1>20. CASE EndRound(r)
  <2>1. CASE c.next = {}
    BY <1>2, <1>20, <2>1 DEF EndRound
  <2>2. CASE c.next # {}
    <3>1. Continue(r, [c EXCEPT !.pc = IF Updates(c.next) = {} THEN "rating" ELSE "round",
                       !.first = FALSE, !.next = {},
                       !.edits = Updates(c.next), !.ratings = RatingsOf(c.next)])
      BY <1>20, <2>2 DEF EndRound
    <3>2. cyc'[r].send = c.send /\ cyc'[r].pc \in {"rating", "round"}
      BY <1>0, <3>1 DEF Continue, Cycle
    <3>3. c.send = {}
      BY <1>0, <1>20 DEF EndRound, KeepsItsLists
    <3> QED
      BY <3>2, <3>3 DEF GivesUpOne
  <2> QED
    BY <2>1, <2>2
<1>21. CASE RejectLone(r) \/ FailCycle(r) \/ EarlyThrow(r) \/ Crash(r)
  <2>1. Continue(r, NoCycle)
    BY <1>21 DEF RejectLone, FailCycle, EarlyThrow, Crash
  <2> QED
    BY <1>2, <2>1
<1> QED
  BY <1>4, <1>5, <1>6, <1>7, <1>9, <1>10, <1>11, <1>12, <1>13, <1>14, <1>15, <1>16, <1>17, <1>18,
     <1>19, <1>20, <1>21 DEF Advance, Send, Rate

GivesUpOneInv == \A r \in Runtimes : GivesUpOne(cyc[r])

\* A set with no two members, and any part of it, has at most one.
LEMMA NoTwo ==
  ASSUME NEW S, \A i, j \in S : i = j
  PROVE  IsFiniteSet(S) /\ Cardinality(S) <= 1
<1>1. CASE S = {}
  BY <1>1, FS_EmptySet
<1>2. ASSUME NEW i \in S PROVE IsFiniteSet(S) /\ Cardinality(S) <= 1
  <2>1. S = {i}
    BY <1>2
  <2>2. IsFiniteSet({i}) /\ Cardinality({i}) = 1
    BY FS_Singleton
  <2> QED
    BY <2>1, <2>2
<1> QED
  BY <1>1, <1>2

\* The end of a request gives up rows of that request, and of those one row.
LEMMA CollateralStep ==
  ASSUME CycleInv, GivesUpOneInv, [Next]_vars, RequestEnds
  PROVE  GivesUpAtMostOne
<1> DEFINE lost == {i \in RowIds : log[i].status \in Queued /\ log'[i].status = "dead_letter"}
<1> SUFFICES Cardinality(lost) <= 1
  BY DEF GivesUpAtMostOne
<1>0. log \in Logs
  BY DEF CycleInv, TypeOK, Logs
<1>1. PICK r \in Runtimes : cyc[r].pc \in {"posted", "rating_posted"} /\ cyc'[r] # cyc[r]
  BY DEF RequestEnds
<1>2. ASSUME \A i \in RowIds : log'[i].status = "dead_letter" => log[i].status \notin Queued
      PROVE  Cardinality(lost) <= 1
  <2>1. lost = {}
    BY <1>2
  <2> HIDE DEF lost
  <2> QED
    BY <2>1, FS_EmptySet
<1> DEFINE c == cyc[r]
<1>3. c \in Cycle /\ GivesUpOne(c) /\ InShape(log, Evidence, r, c) /\ c.send \subseteq RowIds
  BY DEF CycleInv, TypeOK, GivesUpOneInv, Cycle
<1>4. Advance(r) \/ Crash(r)
  <2>1. ~Environment /\ ~UNCHANGED vars
    BY <1>1 DEF Environment, LocalEdit, KeepLocal, KeepBridge, Tick, BridgeEdit, StrayArrives, vars
  <2>2. ASSUME NEW q \in Runtimes, Advance(q) \/ EarlyThrow(q) \/ Crash(q)
        PROVE  Advance(r) \/ Crash(r)
    <3>1. \E d : Continue(q, d)
      BY <2>2 DEF Advance, Send, Rate, NativeSweep, ClaimBatch, BeginSend, IsolateNext, ReadTokens,
                  FetchMissing, StoreFetched, BridgeAnswers, ApplyResponse, RejectRound,
                  RejectIsolated, RejectLone, EndIsolation, RatingCheck, RatingArrives,
                  RatingDelivered, RatingRefused, RatingUnsettled, EndRound, FailCycle,
                  EarlyThrow, Crash
    <3>2. q = r
      BY <1>1, <3>1 DEF Continue, CycleInv, TypeOK
    <3>3. ~EarlyThrow(r)
      BY <1>1 DEF EarlyThrow
    <3> QED
      BY <2>2, <3>2, <3>3
  <2> QED
    BY <2>1, <2>2 DEF Next
<1> HIDE DEF lost
<1>5. CASE RejectIsolated(r) \/ RatingRefused(r)
  <2>1. log' = Settle(log, c.send, c.claim, "dead_letter") /\ \A i, j \in c.send : i = j
    BY <1>3, <1>5 DEF RejectIsolated, RatingRefused, GivesUpOne, Rating
  <2>2. lost \subseteq c.send
    BY <1>0, <2>1, SettleAt DEF Held, Queued, lost
  <2> QED
    BY <2>1, <2>2, NoTwo
<1>6. CASE FailCycle(r) \/ RatingUnsettled(r)
  <2>1. PICK ids : log' = Settle(log, ids, c.claim, "pending")
    BY <1>6 DEF FailCycle, RatingUnsettled
  <2> QED
    BY <1>0, <1>2, <2>1, SettleAt DEF Queued
<1>7. CASE RejectLone(r)
  <2> DEFINE dead == Settle(log, c.send, c.claim, "dead_letter")
  <2>1. dead \in Logs
    BY <1>0, SettleType DEF Statuses, GivenUp
  <2>2. \A i \in RowIds : i \notin c.send => dead[i] = log[i]
    BY <1>0, SettleAt DEF Held
  <2>3. log' = Settle(dead, c.mine, c.claim, "pending") /\ Cardinality(c.send) <= 1
    BY <1>7 DEF RejectLone
  <2> HIDE DEF dead
  <2>4. lost \subseteq c.send
    BY <2>1, <2>2, <2>3, SettleAt DEF Queued, lost
  <2>5. IsFiniteSet(c.send) /\ IsFiniteSet(lost) /\ Cardinality(lost) <= Cardinality(c.send)
    <3>1. IsFiniteSet(RowIds)
      BY FS_Interval, OperationLogAssumption DEF RowIds
    <3>2. IsFiniteSet(c.send)
      BY <1>3, <3>1, FS_Subset
    <3> QED
      BY <2>4, <3>2, FS_Subset
  <2>6. Cardinality(lost) \in Nat /\ Cardinality(c.send) \in Nat
    BY <2>5, FS_CardinalityType
  <2> QED
    BY <2>3, <2>5, <2>6
<1>8. CASE UNCHANGED log
  BY <1>2, <1>8 DEF Queued
<1>9. CASE BridgeAnswers(r) \/ RejectRound(r) \/ RatingArrives(r) \/ Crash(r)
  BY <1>8, <1>9 DEF BridgeAnswers, RejectRound, RatingArrives, Crash
<1>10. /\ ~NativeSweep(r) /\ ~ClaimBatch(r) /\ ~BeginSend(r) /\ ~IsolateNext(r) /\ ~ReadTokens(r)
       /\ ~FetchMissing(r) /\ ~StoreFetched(r) /\ ~ApplyResponse(r) /\ ~EndIsolation(r)
       /\ ~RatingCheck(r) /\ ~RatingDelivered(r) /\ ~EndRound(r)
  BY <1>1 DEF NativeSweep, ClaimBatch, BeginSend, IsolateNext, ReadTokens, FetchMissing, StoreFetched,
              ApplyResponse, EndIsolation, RatingCheck, RatingDelivered, EndRound
<1> QED
  BY <1>4, <1>5, <1>6, <1>7, <1>9, <1>10 DEF Advance, Send, Rate

\* R-5: whatever the bridge refuses and however, the end of a request gives up at most one row:
\* the others of its batch are sent again one by one.
THEOREM RefusesOneRow == Spec => NoCollateral
<1>1. Init => GivesUpOneInv
  BY DEF Init, GivesUpOneInv, GivesUpOne, NoCycle, Rating
<1>2. CycleInv /\ GivesUpOneInv /\ [Next]_vars => GivesUpOneInv'
  <2> SUFFICES ASSUME CycleInv, GivesUpOneInv, [Next]_vars, NEW q \in Runtimes
               PROVE  GivesUpOne(cyc'[q])
    BY DEF GivesUpOneInv
  <2>1. GivesUpOne(cyc[q])
    BY DEF GivesUpOneInv
  <2>2. CASE cyc'[q] = cyc[q]
    BY <2>1, <2>2
  <2>3. ASSUME NEW r \in Runtimes, Advance(r) \/ EarlyThrow(r) \/ Crash(r)
        PROVE  GivesUpOne(cyc'[q])
    <3>1. CASE q = r
      BY <2>1, <2>3, <3>1, GivesUpOneNext
    <3>2. CASE q # r
      <4>1. \E d : Continue(r, d)
        BY <2>3 DEF Advance, Send, Rate, NativeSweep, ClaimBatch, BeginSend, IsolateNext, ReadTokens,
                    FetchMissing, StoreFetched, BridgeAnswers, ApplyResponse, RejectRound,
                    RejectIsolated, RejectLone, EndIsolation, RatingCheck, RatingArrives,
                    RatingDelivered, RatingRefused, RatingUnsettled, EndRound, FailCycle,
                    EarlyThrow, Crash
      <4> QED
        BY <2>2, <3>2, <4>1 DEF Continue, CycleInv, TypeOK
    <3> QED
      BY <3>1, <3>2
  <2>4. CASE Environment \/ UNCHANGED vars
    BY <2>2, <2>4 DEF Environment, LocalEdit, KeepLocal, KeepBridge, Tick, BridgeEdit, StrayArrives, vars
  <2> QED
    BY <2>3, <2>4 DEF Next
<1>3. CycleInv /\ GivesUpOneInv /\ [Next]_vars =>
        [RequestEnds => GivesUpAtMostOne]_vars
  BY CollateralStep
<1> QED
  BY <1>1, <1>2, <1>3, ShapeInit, ShapeNext, PTL DEF Spec, NoCollateral

=============================================================================
