--------------------------- MODULE ChapterActions ---------------------------
(* A chapter button of one anime, from the gesture to the screen: the      *)
(* intent shown before it is written, the write door that serializes the   *)
(* writes of the database file and bounds only the caller's wait, the      *)
(* transaction that edits the row, the observations reported of the action *)
(* and the list that reads the row back.  Chapters are counted in halves;  *)
(* the other columns of the row and the operation's payload are left out.  *)
EXTENDS Integers, Sequences, FiniteSets, FiniteSetsExt, SequencesExt

CONSTANTS
  MaxPress,        \* bound: gestures
  MaxRemote,       \* bound: changes of the row by a merge or a heal
  TotalChapters,   \* totalcap, in halves
  Gestures         \* the gestures tried, among AllGestures

AllGestures == {"plus", "minus", "plusHalf", "minusHalf", "finish", "reopen"}

ASSUME ChapterAssumption ==
  /\ MaxPress \in Nat /\ MaxRemote \in Nat /\ TotalChapters \in Nat \ {0}
  /\ Gestures \subseteq AllGestures

VARIABLES
  row,         \* the durable row: chapters seen and status, or Missing
  unsent,      \* the committed actions whose operation is not settled
  door,        \* the write queue of the file, its head first
  open,        \* the writes whose transaction is open
  action,      \* what became of every action's write and of its caller
  entries,     \* the accepted intents of the projection, oldest first
  durable,     \* the row the list rendered last, or Missing
  listRead,    \* the row the list has read and not rendered, or Missing
  report,      \* the phases observed of every action
  remotes,     \* counts towards MaxRemote
  disturbed    \* history: the row went another way than the accepted intents, by a remote
               \* write, a failed write with others behind it, or one that landed late; or
               \* an intent was retired before its write was over

chapterVars == <<row, unsent, door, open, action, entries, durable, listRead, report, remotes, disturbed>>

Presses == 1 .. MaxPress
MaxSeen == TotalChapters + 2 * MaxPress
Rows == [seen : 0 .. MaxSeen, estado : {0, 1}]
Missing == [seen |-> 0, estado |-> 2]
StartRows == [seen : {0, TotalChapters}, estado : {0, 1}]

Unpressed == [gesture |-> "none", write |-> "none", caller |-> "none"]

ChapterTypeOK ==
  /\ row \in Rows \cup {Missing} /\ durable \in Rows \cup {Missing}
  /\ listRead \in Rows \cup {Missing}
  /\ unsent \subseteq Presses /\ open \subseteq Presses
  /\ door \in Seq(Presses) /\ Len(door) <= MaxPress
  /\ action \in [Presses -> [gesture : Gestures \cup {"none"},
       write : {"none", "queued", "open", "committed", "absent", "failed"},
       caller : {"none", "waiting", "told"}]]
  /\ entries \in Seq([id : Presses, base : Rows, projected : Rows])
  /\ Len(entries) <= MaxPress
  /\ report \in [Presses -> SUBSET {"received", "skipped", "failed", "committed", "sync"}]
  /\ \A p \in Presses : /\ Cardinality(report[p] \cap {"skipped", "failed", "committed"}) <= 1
                        /\ "committed" \in report[p] => action[p].write = "committed"
  /\ remotes \in 0 .. MaxRemote /\ disturbed \in BOOLEAN

\* The list has rendered the row.
ChapterInit ==
  /\ row \in StartRows /\ durable = row /\ listRead = row
  /\ unsent = {} /\ door = <<>> /\ open = {} /\ entries = <<>>
  /\ action = [p \in Presses |-> Unpressed] /\ report = [p \in Presses |-> {}]
  /\ remotes = 0 /\ disturbed = FALSE

----------------------------------------------------------------------------
(* The patches, and the overlay they are shown in.                         *)

Reopens(r) == r.estado = 1 /\ r.seen = TotalChapters

\* buildCapPlusPatch, buildCapPlusHalfPatch, their inverses and buildSetEstadoPatch.
Patched(r, gesture) ==
  CASE gesture = "plus" ->
         [seen |-> r.seen + 2, estado |-> IF r.seen + 2 = TotalChapters THEN 1 ELSE r.estado]
    [] gesture = "plusHalf" ->
         IF r.seen + 1 >= TotalChapters THEN [seen |-> TotalChapters, estado |-> 1]
         ELSE [r EXCEPT !.seen = @ + 1]
    [] gesture = "minus" ->
         [seen |-> Max({0, r.seen - 2}), estado |-> IF Reopens(r) THEN 0 ELSE r.estado]
    [] gesture = "minusHalf" ->
         [seen |-> Max({0, r.seen - 1}), estado |-> IF Reopens(r) THEN 0 ELSE r.estado]
    [] gesture = "finish" -> [r EXCEPT !.estado = 1]
    [] gesture = "reopen" -> [r EXCEPT !.estado = 0]

\* foldAnimeMutationProjection: an intent applies when the value reached is its base.
Applies(fold, e) == e.base = fold.value
Fold(intents, from) ==
  LET upTo[n \in 0 .. Len(intents)] ==
        IF n = 0 THEN [value |-> from, kept |-> <<>>]
        ELSE IF Applies(upTo[n - 1], intents[n])
             THEN [value |-> intents[n].projected, kept |-> Append(upTo[n - 1].kept, intents[n])]
             ELSE upTo[n - 1]
  IN  upTo[Len(intents)]

\* applyAnimeMutationProjection: what the card of row r shows.
Shown(r) == Fold(entries, r).value

\* acceptAnimeMutationProjection: nothing is shown for a gesture that changes nothing, or
\* before a row was rendered.
AcceptedIntent(p, gesture) ==
  LET base == Shown(durable)
      projected == Patched(base, gesture)
  IN  IF durable = Missing \/ projected = base THEN entries
      ELSE Append(entries, [id |-> p, base |-> base, projected |-> projected])

\* dropAnimeMutationProjection: the intent of p goes, and all accepted after it.
Dropped(p) ==
  LET at == {i \in DOMAIN entries : entries[i].id = p}
  IN  IF at = {} THEN entries ELSE SubSeq(entries, 1, Min(at) - 1)

\* observeAnimeMutationDurability: an intent the row absorbed, or no longer continues, retires.
RetiredBy(r) ==
  LET fold == Fold(entries, r) IN IF fold.value = r THEN <<>> ELSE fold.kept

----------------------------------------------------------------------------
(* The gesture and the write door.                                         *)

\* The write of p has not settled.
Waiting(p) == action[p].write \in {"queued", "open"}

\* beginChapterAction, then the hook shows the intent and queues the write.
Press ==
  \E p \in Presses, gesture \in Gestures :
    /\ action[p] = Unpressed /\ \A q \in 1 .. p - 1 : action[q] # Unpressed
    /\ report' = [report EXCEPT ![p] = {"received"}]
    /\ entries' = AcceptedIntent(p, gesture)
    /\ action' = [action EXCEPT ![p] =
         [gesture |-> gesture, write |-> "queued", caller |-> "waiting"]]
    /\ door' = Append(door, p)
    /\ disturbed' = (disturbed \/ (remotes > 0 /\ durable # row))
    /\ UNCHANGED <<row, unsent, open, durable, listRead, remotes>>

\* Without a database context nothing is written; the card is not drawn without its row.
PressWithoutDatabase ==
  \E p \in Presses :
    /\ action[p] = Unpressed /\ \A q \in 1 .. p - 1 : action[q] # Unpressed
    /\ durable = Missing
    /\ report' = [report EXCEPT ![p] = {"received", "skipped"}]
    /\ action' = [action EXCEPT ![p].caller = "told"]
    /\ UNCHANGED <<row, unsent, door, open, entries, durable, listRead, remotes, disturbed>>

\* A write settles with the phase its caller reports; a caller that gave up hears nothing.
Settles(p, write, phase) ==
  LET waiting == action[p].caller = "waiting"
  IN  /\ action' = [action EXCEPT ![p].write = write, ![p].caller = "told"]
      /\ report' = IF waiting THEN [report EXCEPT ![p] = @ \cup {phase}] ELSE report
      /\ entries' = IF waiting /\ phase # "committed" THEN Dropped(p) ELSE entries
      /\ disturbed' = (disturbed \/ IF phase = "committed" THEN ~waiting ELSE door' # <<>>)

\* BEGIN IMMEDIATE of the head of the queue, which chains on the real write in front.
BeginTransaction(p) ==
  /\ door # <<>> /\ Head(door) = p /\ open = {}
  /\ action' = [action EXCEPT ![p].write = "open"] /\ open' = {p}
  /\ door' = Tail(door)
  /\ UNCHANGED <<row, unsent, entries, durable, listRead, report, remotes, disturbed>>

\* BEGIN finds the file busy.
BeginFails(p) ==
  /\ door # <<>> /\ Head(door) = p /\ open = {} /\ door' = Tail(door)
  /\ Settles(p, "failed", "failed")
  /\ UNCHANGED <<row, unsent, open, durable, listRead, remotes>>

\* The task reads the row as it is now and builds the patch from it; edit and operation
\* commit together; then the report, and the kick of a flush.
Commit(p) ==
  /\ p \in open /\ row # Missing /\ open' = open \ {p}
  /\ row' = Patched(row, action[p].gesture)
  /\ unsent' = unsent \cup {p}
  /\ UNCHANGED <<door, durable, listRead, remotes>>
  /\ Settles(p, "committed", "committed")

\* There is no row to change: the intent is taken back.
FindsNothing(p) ==
  /\ p \in open /\ row = Missing /\ open' = open \ {p}
  /\ UNCHANGED <<row, unsent, door, durable, listRead, remotes>>
  /\ Settles(p, "absent", "skipped")

\* Mutant: the task reports the action before COMMIT, which then fails.
RollBackReported(p) ==
  /\ p \in open /\ open' = open \ {p}
  /\ action' = [action EXCEPT ![p].write = "failed", ![p].caller = "told"]
  /\ report' = [report EXCEPT ![p] = @ \cup {"committed", "failed"}]
  /\ entries' = IF action[p].caller = "waiting" THEN Dropped(p) ELSE entries
  /\ UNCHANGED <<row, unsent, door, durable, listRead, remotes, disturbed>>

\* The task or COMMIT fails: ROLLBACK.
RollBack(p) ==
  /\ p \in open /\ open' = open \ {p}
  /\ UNCHANGED <<row, unsent, door, durable, listRead, remotes>>
  /\ Settles(p, "failed", "failed")

\* Mutant: the intent stays shown, as the write may still land.
DeadlinePassesKept(p) ==
  /\ action[p].caller = "waiting"
  /\ action' = [action EXCEPT ![p].caller = "told"]
  /\ report' = [report EXCEPT ![p] = @ \cup {"failed"}]
  /\ UNCHANGED <<row, unsent, door, open, entries, durable, listRead, remotes, disturbed>>

\* The deadline passes first; the write stays where it is, and nobody waits for it any more.
DeadlinePasses(p) ==
  /\ action[p].caller = "waiting"
  /\ action' = [action EXCEPT ![p].caller = "told"]
  /\ report' = [report EXCEPT ![p] = @ \cup {"failed"}]
  /\ entries' = Dropped(p)
  /\ UNCHANGED <<row, unsent, door, open, durable, listRead, remotes, disturbed>>

\* The flush the action kicked settles.
FlushSettles(p) ==
  /\ "committed" \in report[p] /\ "sync" \notin report[p]
  /\ report' = [report EXCEPT ![p] = @ \cup {"sync"}]
  /\ UNCHANGED <<row, unsent, door, open, action, entries, durable, listRead, remotes, disturbed>>

----------------------------------------------------------------------------
(* The other writers and the list.                                         *)

\* A cycle settles the operations that were committed.
OperationsSettle ==
  /\ unsent # {} /\ unsent' = {}
  /\ UNCHANGED <<row, door, open, action, entries, durable, listRead, report, remotes, disturbed>>

\* A merge or a heal writes the row, or deletes it: never under an open transaction nor
\* over an unsettled operation.
RemoteWrites ==
  /\ remotes < MaxRemote /\ remotes' = remotes + 1
  /\ unsent = {} /\ open = {} /\ row # Missing
  /\ disturbed' = (disturbed \/ entries # <<>> \/ door # <<>>)
  /\ row' \in (StartRows \cup {Missing}) \ {row}
  /\ UNCHANGED <<unsent, door, open, action, entries, durable, listRead, report>>

ListReads ==
  /\ listRead # row /\ listRead' = row
  /\ UNCHANGED <<row, unsent, door, open, action, entries, durable, report, remotes, disturbed>>

\* A row that is gone is not among those the list renders.  Intents that come back to the row
\* it reads are retired as absorbed, although their writes may be waiting behind it.
ListRenders ==
  /\ listRead # durable /\ durable' = listRead
  /\ entries' = IF listRead = Missing THEN entries ELSE RetiredBy(listRead)
  /\ disturbed' = (disturbed \/ \E e \in ToSet(entries) \ ToSet(entries') : Waiting(e.id))
  /\ UNCHANGED <<row, unsent, door, open, action, listRead, report, remotes>>

ChapterNext ==
  \/ Press \/ PressWithoutDatabase \/ OperationsSettle \/ RemoteWrites
  \/ ListReads \/ ListRenders
  \/ \E p \in Presses :
       \/ BeginTransaction(p) \/ BeginFails(p) \/ Commit(p) \/ FindsNothing(p)
       \/ RollBack(p) \/ DeadlinePasses(p) \/ FlushSettles(p)

ChapterSpec == ChapterInit /\ [][ChapterNext]_chapterVars

----------------------------------------------------------------------------
(* Properties.                                                             *)

\* When every write is over and the list rendered the row as it is, the card shows the row:
\* no intent stays over it, whichever of the rows in between the list read or missed, and
\* when the last write failed or was given up (anime-mutation-projection.helpers.ts, "what
\* makes the overlay self-retiring").  It fails for a row that went another way than the
\* intents and came back to where one of them began, and for intents accepted over a row
\* behind which writes of retired ones still wait: `disturbed` leaves those out.
ScreenSettlesOnRow ==
  (/\ ~disturbed
   /\ \A p \in Presses : ~Waiting(p)
   /\ row # Missing /\ durable = row /\ listRead = row) => Shown(row) = row

============================================================================
