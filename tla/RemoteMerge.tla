----------------------------- MODULE RemoteMerge -----------------------------
(***************************************************************************)
(* How the bridge's changes reach the local `animes` table (ADR 009 R-7,   *)
(* R-11, R-16): a JS cycle merges the changes it pulled together with the  *)
(* staged ones, the native engine only stages them, a drain merges what is *)
(* staged, the heal writes the bridge's whole list over the table, and the *)
(* user resolves an edit that was given up.  All of them write an anime    *)
(* the user may be editing, behind one forward-only changelog cursor.      *)
(*                                                                         *)
(* Claims, retries and isolation are Outbox's; here a claim lasts as long  *)
(* as its cycle and the bridge's verdict on an edit is one of three.       *)
(***************************************************************************)
EXTENDS Naturals, Sequences, FiniteSets, SequencesExt

CONSTANTS
  Animes,      \* the anime ids, local and at the bridge
  BridgeEdits, \* the fields the other devices edit in this run
  MaxFeed,     \* bound: changes the bridge ever records
  MaxRow,      \* bound: edits the user ever makes
  MaxUnpair,   \* bound: times the user unpairs
  MaxBusy      \* bound: requests to the bridge under way at once

ASSUME RemoteMergeAssumption ==
  /\ IsFiniteSet(Animes) /\ Animes # {}
  /\ MaxFeed \in Nat /\ MaxRow \in Nat /\ MaxUnpair \in Nat /\ MaxBusy \in Nat

(* Two mergeable columns stand for the twenty-one: the one the user edits   *)
(* (`nrocapvisto`) and one only the bridge writes.  "unknown" is a name in  *)
(* changed_fields this build does not know.                                 *)
Known  == {"seen", "note"}
Fields == Known \cup {"unknown"}

ASSUME BridgeEditsAssumption == BridgeEdits \subseteq Fields

Runtimes == {"js", "native"}

(* The bridge stamps a change with its place in the changelog: the cursor,  *)
(* the timestamp and the OCC token all grow with it, so a change is named   *)
(* by its index and 0 stands for NULL.  A value is named by the change or   *)
(* the local edit that wrote it.                                            *)
Ids    == 1..MaxFeed
EditValue(i) == MaxFeed + i
Values == 0..(MaxFeed + MaxRow)

VARIABLES
  feed,    \* the bridge's changelog
  local,   \* animes: fields, last_applied_change_ms and bridge_modified_at
  rows,    \* operation_log: the `update` rows in id order
  staged,  \* pending_remote_changes
  cursor,  \* bridge_config.last_changelog_id
  paired,  \* whether bridge_config has a row
  cyc,     \* per runtime, its reconcile request
  heal,    \* a heal between its fetch and its write
  keep,    \* a keep_bridge resolution between its fetch and its write
  pairing, \* a pairing between its fetch and its write
  unpaired,\* bound: how often the user unpaired
  drift    \* history: animes an older snapshot or change came over

vars == <<feed, local, rows, staged, cursor, paired, cyc, heal, keep, pairing,
          unpaired, drift>>

Content == [Known -> Values]
Change  == [anime : Animes, type : {"create", "update", "delete"},
            fields : SUBSET Fields, snap : Content]

NoAnime == [seen |-> 0, note |-> 0, guard |-> 0, token |-> 0, here |-> FALSE]
Anime   == [seen : Values, note : Values, guard : 0..MaxFeed,
            token : 0..MaxFeed, here : BOOLEAN]

Statuses == {"pending", "processing", "synced", "given_up", "deleted"}
Row == [anime : Animes, status : Statuses, by : Runtimes \cup {"none"},
        bridgeOnly : BOOLEAN] \* unresolved_reason leaves only keep_bridge

NoCycle == [pc |-> "idle", since |-> 0, send |-> {}, upto |-> 0,
            applied |-> {}, refused |-> {}]
Cycle == [pc : {"idle", "asked", "answered"}, since : 0..MaxFeed,
          send : SUBSET (1..MaxRow), upto : 0..MaxFeed,
          applied : SUBSET (1..MaxRow), refused : SUBSET (1..MaxRow)]

NoFetch == [pc |-> "idle", upto |-> 0]
Fetch   == [pc : {"idle", "fetched"}, upto : 0..MaxFeed]

RowIds == 1..Len(rows)

Busy == Cardinality({r \in Runtimes : cyc[r].pc # "idle"})
        + Cardinality({a \in Animes : keep[a].pc # "idle"})
        + (IF heal.pc = "idle" THEN 0 ELSE 1)

-----------------------------------------------------------------------------
(* The bridge: an external program that records every change in one list.   *)

LastChange(a, n) == LET of == {k \in 1..n : feed[k].anime = a}
                    IN IF of = {} THEN 0 ELSE CHOOSE k \in of : \A j \in of : j <= k
Exists(a, n) == LastChange(a, n) # 0 /\ feed[LastChange(a, n)].type # "delete"
Snapshot(a, n) == feed[LastChange(a, n)].snap

Blank == [f \in Known |-> 0]

BridgeEdit(a) ==
  /\ Len(feed) < MaxFeed /\ Exists(a, Len(feed))
  /\ \E f \in BridgeEdits :
       feed' = Append(feed, [anime |-> a, type |-> "update", fields |-> {f},
                 snap |-> [g \in Known |-> IF g = f THEN Len(feed) + 1
                                           ELSE Snapshot(a, Len(feed))[g]]])
  /\ UNCHANGED <<local, rows, staged, cursor, paired, cyc, heal, keep, pairing,
                 unpaired, drift>>

\* Ids are made up by the bridge: a deleted one is not used again.
BridgeCreates(a) ==
  /\ Len(feed) < MaxFeed /\ LastChange(a, Len(feed)) = 0
  /\ feed' = Append(feed, [anime |-> a, type |-> "create", fields |-> {},
                           snap |-> [f \in Known |-> Len(feed) + 1]])
  /\ UNCHANGED <<local, rows, staged, cursor, paired, cyc, heal, keep, pairing,
                 unpaired, drift>>

BridgeDeletes(a) ==
  /\ Len(feed) < MaxFeed /\ Exists(a, Len(feed))
  /\ feed' = Append(feed, [anime |-> a, type |-> "delete", fields |-> {},
                           snap |-> Blank])
  /\ UNCHANGED <<local, rows, staged, cursor, paired, cyc, heal, keep, pairing,
                 unpaired, drift>>

-----------------------------------------------------------------------------
(* The merge boundary.                                                      *)

Unacked == {"pending", "processing"}
\* Mutant of UnackedAnimes: a row a cycle has claimed no longer counts.
UnackedAnimesQueued == {rows[i].anime : i \in {j \in RowIds : rows[j].status = "pending"}}
UnackedAnimes == {rows[i].anime : i \in {j \in RowIds : rows[j].status \in Unacked}}

IsStale(c, guard) == guard # 0 /\ c <= guard

\* The guards and the unacked animes are read once, before the pass.
Decision(c) ==
  IF feed[c].type = "delete" THEN "delete"
  ELSE IF feed[c].anime \in UnackedAnimes THEN "defer_outbox"
  ELSE IF IsStale(c, local[feed[c].anime].guard) THEN "drop_stale"
  ELSE "apply"

\* A guard or token of 0 was not given: the column keeps what it has.
Upserted(anime, snap, guard, token) ==
  [seen  |-> snap.seen, note |-> snap.note, here |-> TRUE,
   guard |-> IF guard # 0 THEN guard ELSE anime.guard,
   token |-> IF token # 0 THEN token ELSE anime.token]

Partial(anime, fields, snap, guard) ==
  [anime EXCEPT !.seen = IF "seen" \in fields THEN snap.seen ELSE @,
                !.note = IF "note" \in fields THEN snap.note ELSE @,
                !.guard = guard]

\* An update of an anime the device never saw takes the full snapshot; one
\* with no known field is rejected.
Accepted(anime, c) ==
  LET known == feed[c].fields \cap Known IN
  IF feed[c].type = "create" \/ ~anime.here THEN Upserted(anime, feed[c].snap, c, 0)
  ELSE IF known = {} THEN anime
  ELSE Partial(anime, known, feed[c].snap, c)

MergeOne(table, c) ==
  LET a == feed[c].anime IN
  CASE Decision(c) = "delete" -> [table EXCEPT ![a] = NoAnime]
    [] Decision(c) = "apply"  -> [table EXCEPT ![a] = Accepted(@, c)]
    [] OTHER                  -> table

\* The pass goes through its changes oldest first.
MergedUpTo(changes) ==
  LET merged[n \in 0..Len(feed)] ==
        IF n = 0 THEN local
        ELSE IF n \in changes THEN MergeOne(merged[n - 1], n) ELSE merged[n - 1]
  IN merged
Merged(changes) == MergedUpTo(changes)[Len(feed)]

\* Mutant of KeptDeferred: the deferred changes are not staged again.
KeptDeferredNone(changes) == {}
\* A deferred change is kept unless a later delete is in the same pass.
KeptDeferred(changes) ==
  {c \in changes :
     /\ Decision(c) = "defer_outbox"
     /\ \A d \in changes : ~(/\ feed[d].type = "delete"
                             /\ feed[d].anime = feed[c].anime /\ d >= c)}

\* History: animes inserted although the bridge has already deleted them; one
\* the table does not hold any more is settled.
Revived(table) ==
  {a \in Animes : ~local[a].here /\ table[a].here /\ ~Exists(a, Len(feed))}
DriftAfterMerge(table) == {a \in drift \cup Revived(table) : table[a].here}

-----------------------------------------------------------------------------
(* The user and the outbox.                                                 *)

\* The screens that edit are behind the pairing.
LocalEdit(a) ==
  /\ Len(rows) < MaxRow /\ paired /\ local[a].here
  /\ rows' = Append(rows, [anime |-> a, status |-> "pending", by |-> "none",
                           bridgeOnly |-> FALSE])
  /\ local' = [local EXCEPT ![a].seen = EditValue(Len(rows) + 1)]
  /\ UNCHANGED <<feed, staged, cursor, paired, cyc, heal, keep, pairing,
                 unpaired, drift>>

Claimed(a) == \E i \in RowIds : rows[i].anime = a /\ rows[i].status = "processing"
Heads == {i \in RowIds :
            /\ rows[i].status = "pending" /\ ~Claimed(rows[i].anime)
            /\ \A j \in 1..(i - 1) : rows[j].status = "pending"
                                       => rows[j].anime # rows[i].anime}

\* The JS flush is single flight, and its heal is part of it.  Bound: polls
\* that would find nothing are left out.
Begin(r) ==
  /\ Heads # {} \/ cursor < Len(feed)
  /\ paired /\ cyc[r].pc = "idle" /\ Busy < MaxBusy
  /\ r = "js" => heal.pc = "idle"
  /\ rows' = [i \in RowIds |-> IF i \in Heads
                THEN [rows[i] EXCEPT !.status = "processing", !.by = r] ELSE rows[i]]
  /\ cyc' = [cyc EXCEPT ![r] = [NoCycle EXCEPT !.pc = "asked", !.since = cursor,
                                               !.send = Heads]]
  /\ UNCHANGED <<feed, local, staged, cursor, paired, heal, keep, pairing,
                 unpaired, drift>>

HeldBy(r) == {i \in cyc[r].send : rows[i].status = "processing" /\ rows[i].by = r}
Settled(ids, status) ==
  [i \in RowIds |-> IF i \in ids THEN [rows[i] EXCEPT !.status = status, !.by = "none"]
                    ELSE rows[i]]
TokenOf(i) == local[rows[i].anime].token

\* Fetch-first: only the token is stored; a 404 gives the key up.
FetchBase(r) ==
  \E i \in HeldBy(r) :
    LET a == rows[i].anime IN
    /\ cyc[r].pc = "asked" /\ TokenOf(i) = 0
    /\ IF Exists(a, Len(feed))
       THEN /\ local[a].here
            /\ local' = [local EXCEPT ![a].token = LastChange(a, Len(feed))]
            /\ UNCHANGED rows
       ELSE /\ rows' = [j \in RowIds |->
                 IF j = i \/ (rows[j].anime = a /\ rows[j].status = "pending")
                 THEN [rows[j] EXCEPT !.status = "given_up", !.by = "none",
                                      !.bridgeOnly = TRUE]
                 ELSE rows[j]]
            /\ UNCHANGED local
    /\ UNCHANGED <<feed, staged, cursor, paired, cyc, heal, keep, pairing,
                   unpaired, drift>>

\* The edits of `ids` as the bridge records them, one after the other.
Echo(history, i) ==
  LET a == rows[i].anime
      at == CHOOSE k \in 1..Len(history) : history[k].anime = a
              /\ \A j \in (k + 1)..Len(history) : history[j].anime # a
  IN Append(history, [anime |-> a, type |-> "update", fields |-> {"seen"},
                      snap |-> [history[at].snap EXCEPT !.seen = EditValue(i)]])
Echoed(ids) ==
  LET echoed[n \in 0..Len(rows)] ==
        IF n = 0 THEN feed
        ELSE IF n \in ids THEN Echo(echoed[n - 1], n) ELSE echoed[n - 1]
  IN echoed[Len(rows)]

\* One edit per anime: those on the current token are applied, some refused
\* for good, the others conflict.
BridgeAnswers(r) ==
  /\ cyc[r].pc = "asked"
  /\ \A i \in HeldBy(r) : TokenOf(i) # 0
  /\ \E refused \in SUBSET HeldBy(r) :
       LET applied == {i \in HeldBy(r) \ refused :
                         /\ Exists(rows[i].anime, Len(feed))
                         /\ TokenOf(i) = LastChange(rows[i].anime, Len(feed))}
       IN /\ Len(feed) + Cardinality(applied) <= MaxFeed
          /\ feed' = Echoed(applied)
          /\ cyc' = [cyc EXCEPT ![r].pc = "answered", ![r].upto = Len(feed'),
                                ![r].applied = applied, ![r].refused = refused]
  /\ UNCHANGED <<local, rows, staged, cursor, paired, heal, keep, pairing,
                 unpaired, drift>>

\* The answer never comes, or the process dies: the rows are released.
Fail(r) ==
  /\ cyc[r].pc # "idle"
  /\ rows' = Settled(HeldBy(r), "pending")
  /\ cyc' = [cyc EXCEPT ![r] = NoCycle]
  /\ UNCHANGED <<feed, local, staged, cursor, paired, heal, keep, pairing,
                 unpaired, drift>>

Page(r) == (cyc[r].since + 1)..cyc[r].upto

\* Tokens of confirmed and conflicting edits, for rows still held.
WithTokens(table, r) ==
  [a \in Animes |->
     IF table[a].here /\ \E i \in HeldBy(r) \ cyc[r].refused : rows[i].anime = a
     THEN [table[a] EXCEPT !.token = LastChange(a, cyc[r].upto)] ELSE table[a]]

\* A confirmed edit deletes the edits of its anime given up before it.
AfterAnswer(r) ==
  [i \in RowIds |->
     IF i \in HeldBy(r)
     THEN [rows[i] EXCEPT !.by = "none",
             !.status = IF i \in cyc[r].applied THEN "synced"
                        ELSE IF i \in cyc[r].refused THEN "given_up"
                        ELSE "pending"]
     ELSE IF /\ rows[i].status = "given_up"
             /\ \E j \in HeldBy(r) \cap cyc[r].applied :
                  j > i /\ rows[j].anime = rows[i].anime
          THEN [rows[i] EXCEPT !.status = "deleted"]
          ELSE rows[i]]

Forward(r) == IF paired /\ cyc[r].upto > cursor THEN cyc[r].upto ELSE cursor

EndCycle(r) ==
  /\ rows' = AfterAnswer(r)
  /\ cursor' = Forward(r)
  /\ cyc' = [cyc EXCEPT ![r] = NoCycle]
  /\ UNCHANGED <<feed, paired, heal, keep, pairing, unpaired>>

\* The pulled and the staged changes are merged before the rows are settled:
\* the cycle's own echo still finds its row unacked.
ApplyAnswer ==
  /\ cyc["js"].pc = "answered"
  /\ LET changes == staged \cup Page("js")
         table   == Merged(changes)
     IN /\ local'  = WithTokens(table, "js")
        /\ staged' = KeptDeferred(changes)
        /\ drift'  = DriftAfterMerge(table)
  /\ EndCycle("js")

StageAnswer ==
  /\ cyc["native"].pc = "answered"
  /\ staged' = staged \cup Page("native")
  /\ local' = WithTokens(local, "native")
  /\ UNCHANGED drift
  /\ EndCycle("native")

\* On mount and on every resume.
Drain ==
  /\ staged # {}
  /\ local'  = Merged(staged)
  /\ staged' = KeptDeferred(staged)
  /\ drift'  = DriftAfterMerge(local')
  /\ UNCHANGED <<feed, rows, cursor, paired, cyc, heal, keep, pairing, unpaired>>

-----------------------------------------------------------------------------
(* The heal, the user's resolutions and the pairing.                        *)

\* A snapshot of change `n` written over anime a, and what it leaves behind.
Healed(a, n) ==
  LET anime == local[a]
      snap  == Snapshot(a, n)
      same  == \A f \in Known : anime[f] = snap[f]
      token == LastChange(a, n)
  IN IF ~anime.here THEN Upserted(anime, snap, 0, token)
     ELSE IF same THEN [anime EXCEPT !.token = token]
     ELSE [Partial(anime, Known, snap, anime.guard) EXCEPT !.token = token]

\* History: a current snapshot settles an anime the bridge still has.
DriftAfter(written, table, n) ==
  {a \in DriftAfterMerge(table) : a \in written => ~Exists(a, Len(feed))}
    \cup {a \in written : local[a].guard > n \/ LastChange(a, cursor) > n}

HealFetch ==
  /\ paired /\ heal.pc = "idle" /\ cyc["js"].pc = "idle" /\ Busy < MaxBusy
  /\ heal' = [pc |-> "fetched", upto |-> Len(feed)]
  /\ UNCHANGED <<feed, local, rows, staged, cursor, paired, cyc, keep, pairing,
                 unpaired, drift>>

HealWrite ==
  /\ heal.pc = "fetched"
  /\ LET written == {a \in Animes : Exists(a, heal.upto)} \ UnackedAnimes IN
     /\ local' = [a \in Animes |-> IF a \in written THEN Healed(a, heal.upto)
                                   ELSE local[a]]
     /\ drift' = DriftAfter(written, local', heal.upto)
  /\ heal' = NoFetch
  /\ UNCHANGED <<feed, rows, staged, cursor, paired, cyc, keep, pairing, unpaired>>

GivenUp(a) == {i \in RowIds : rows[i].anime = a /\ rows[i].status = "given_up"}
OffersLocal(a) == GivenUp(a) # {} /\ \A i \in GivenUp(a) : ~rows[i].bridgeOnly

KeepLocal(a) ==
  /\ OffersLocal(a) /\ ~Claimed(a)
  /\ rows' = Settled(GivenUp(a), "pending")
  /\ local' = [local EXCEPT ![a].token = 0]
  /\ UNCHANGED <<feed, staged, cursor, paired, cyc, heal, keep, pairing,
                 unpaired, drift>>

KeepBridgeFetch(a) ==
  /\ GivenUp(a) # {} /\ paired /\ keep[a].pc = "idle" /\ Busy < MaxBusy
  /\ keep' = [keep EXCEPT ![a] = [pc |-> "fetched", upto |-> Len(feed)]]
  /\ UNCHANGED <<feed, local, rows, staged, cursor, paired, cyc, heal, pairing,
                 unpaired, drift>>

\* Refused while the key is claimed; otherwise every queued edit is dropped.
KeepBridgeWrite(a) ==
  /\ keep[a].pc = "fetched"
  /\ keep' = [keep EXCEPT ![a] = NoFetch]
  /\ IF Claimed(a) THEN UNCHANGED <<rows, local, drift>>
     ELSE /\ rows' = Settled({i \in RowIds : rows[i].anime = a
                                /\ rows[i].status # "synced"}, "deleted")
          /\ local' = [local EXCEPT ![a] = IF Exists(a, keep[a].upto)
                                           THEN Healed(a, keep[a].upto) ELSE NoAnime]
          /\ drift' = DriftAfter({a}, local', keep[a].upto)
  /\ UNCHANGED <<feed, staged, cursor, paired, cyc, heal, pairing, unpaired>>

Unpair ==
  /\ paired /\ unpaired < MaxUnpair
  /\ paired' = FALSE /\ unpaired' = unpaired + 1
  /\ cursor' = 0 /\ staged' = {}
  /\ rows' = Settled(RowIds, "deleted")
  /\ local' = [a \in Animes |-> [local[a] EXCEPT !.token = 0]]
  /\ UNCHANGED <<feed, cyc, heal, keep, pairing, drift>>

\* Getting a code from the bridge takes the user longer than any request.
PairFetch ==
  /\ ~paired /\ pairing.pc = "idle" /\ heal.pc = "idle"
  /\ \A r \in Runtimes : cyc[r].pc = "idle"
  /\ \A a \in Animes : keep[a].pc = "idle"
  /\ pairing' = [pc |-> "fetched", upto |-> Len(feed)]
  /\ UNCHANGED <<feed, local, rows, staged, cursor, paired, cyc, heal, keep,
                 unpaired, drift>>

PairWrite ==
  /\ pairing.pc = "fetched"
  /\ pairing' = NoFetch /\ paired' = TRUE /\ cursor' = 0
  /\ LET n == pairing.upto
         written == {a \in Animes : Exists(a, n)} IN
     /\ local' = [a \in Animes |-> IF a \in written
           THEN Upserted(local[a], Snapshot(a, n), 0, LastChange(a, n)) ELSE local[a]]
  /\ UNCHANGED <<feed, rows, staged, cyc, heal, keep, unpaired, drift>>

-----------------------------------------------------------------------------
(* A phone just paired with a bridge that holds some of the animes.         *)
Init ==
  /\ \E held \in {s \in SUBSET Animes : Cardinality(s) <= MaxFeed} :
       feed = [n \in 1..Cardinality(held) |->
                 [anime |-> SetToSeq(held)[n], type |-> "create", fields |-> {},
                  snap |-> [f \in Known |-> n]]]
  /\ local = [a \in Animes |->
       IF Exists(a, Len(feed))
       THEN Upserted(NoAnime, Snapshot(a, Len(feed)), 0, LastChange(a, Len(feed)))
       ELSE NoAnime]
  /\ rows = <<>> /\ staged = {} /\ cursor = 0 /\ paired = TRUE
  /\ cyc = [r \in Runtimes |-> NoCycle]
  /\ heal = NoFetch /\ keep = [a \in Animes |-> NoFetch] /\ pairing = NoFetch
  /\ unpaired = 0 /\ drift = {}

Next ==
  \/ \E a \in Animes : \/ BridgeEdit(a) \/ BridgeCreates(a) \/ BridgeDeletes(a)
                       \/ LocalEdit(a) \/ KeepLocal(a)
                       \/ KeepBridgeFetch(a) \/ KeepBridgeWrite(a)
  \/ \E r \in Runtimes : Begin(r) \/ FetchBase(r) \/ BridgeAnswers(r) \/ Fail(r)
  \/ ApplyAnswer \/ StageAnswer \/ Drain \/ HealFetch \/ HealWrite
  \/ Unpair \/ PairFetch \/ PairWrite

Spec == Init /\ [][Next]_vars

-----------------------------------------------------------------------------
(* Properties.                                                              *)

TypeOK ==
  /\ feed \in Seq(Change) /\ Len(feed) <= MaxFeed
  /\ local \in [Animes -> Anime]
  /\ rows \in Seq(Row) /\ Len(rows) <= MaxRow
  /\ staged \subseteq 1..Len(feed)
  /\ cursor \in 0..Len(feed) /\ paired \in BOOLEAN
  /\ cyc \in [Runtimes -> Cycle]
  /\ heal \in Fetch /\ keep \in [Animes -> Fetch] /\ pairing \in Fetch
  /\ unpaired \in 0..MaxUnpair /\ drift \subseteq Animes

\* R-16(a): "a remote change skipped by defer_outbox is never lost behind an
\* advancing cursor".  For every field, the last change the cursor has passed,
\* or a later one, is what the table shows, or a change of the field is staged,
\* or the user's own edit is still unsettled; an anime that an older snapshot
\* or change was written over is out of the claim until it is healed.
Touches(c, a, f) == feed[c].anime = a
                    /\ (feed[c].type # "update" \/ f \in feed[c].fields)
Shows(a, f, c) ==
  IF feed[c].type = "delete" THEN ~local[a].here
  ELSE local[a].here /\ local[a][f] = feed[c].snap[f]
NothingLostBehindCursor ==
  paired => \A a \in Animes \ drift, f \in Known :
    LET passed == {c \in 1..cursor : Touches(c, a, f)} IN
    \/ passed = {}
    \/ \E c \in staged : Touches(c, a, f)
    \/ \E i \in RowIds : rows[i].anime = a /\ rows[i].status \in Unacked \cup {"given_up"}
    \/ \E last \in passed : /\ \A c \in passed : c <= last
                            /\ \E c \in last..Len(feed) :
                                 feed[c].anime = a /\ Shows(a, f, c)

\* The user's unacknowledged edit is never touched by a merge, a drain, a heal
\* or an answer: only a newer edit, a deletion at the bridge, or the user's own
\* choice to keep the bridge's state or to unpair replaces what the user sees.
UnackedEditUntouched ==
  [][\A i \in RowIds :
       LET a == rows[i].anime IN
       /\ rows[i].status \in Unacked /\ rows'[i].status \in Unacked
       /\ local[a].here /\ local'[a].here
       => local'[a].seen = local[a].seen \/ Len(rows') > Len(rows)]_vars

\* "each anime sees its changes in the order they happened and the staleness
\* guard drops re-deliveries": a merge pass that finds no anime and no delete of
\* it staged does not bring back one whose delete the cursor has passed.
RedeliveryIsDropped ==
  [][Drain \/ ApplyAnswer =>
       \A a \in Animes :
         /\ ~local[a].here /\ ~Exists(a, cursor) /\ LastChange(a, cursor) # 0
         /\ \A c \in staged : feed[c].anime = a => feed[c].type # "delete"
         => ~local'[a].here]_vars

=============================================================================
