----------------------------- MODULE SyncFlush -----------------------------
(***************************************************************************)
(* The JS dispatcher (ADR 009 R-2): `requestFlush` with its single-flight  *)
(* state, the coordinated cycle it runs, the full-snapshot heal a request  *)
(* demands (R-7) and the connection the app shows (R-9).                   *)
(*                                                                         *)
(* A call of `requestFlush` is one element of Calls.  A mutation call      *)
(* first commits its row of `operation_log`, then invalidates the shown    *)
(* connection and asks for a flush.  What a cycle does to the rows is kept *)
(* to what the dispatcher sees of it; module Outbox has the rest.          *)
(***************************************************************************)
EXTENDS Naturals, FiniteSets

CONSTANTS
  Animes,    \* keys of the outbox
  MaxCalls,  \* bound: calls of requestFlush
  Triggers,  \* the reasons, other than a mutation, of this run's calls
  MayUnpair  \* TRUE: the user may unpair the bridge

Reasons == {"bootstrap", "manual", "app_active", "network_regained",
            "ws_sync_required", "ws_reconnected", "ws_disconnected",
            "local_mutation", "season_rating"}

ASSUME SyncFlushAssumption ==
  /\ Animes # {}
  /\ MaxCalls \in Nat
  /\ Triggers \subseteq Reasons \ {"local_mutation", "season_rating"}
  /\ MayUnpair \in BOOLEAN

VARIABLES
  mounted, \* SYNC_FLUSH_DISPATCHER.current # null
  paired,  \* bridge_config has a row
  known,   \* the pairing as useSyncFacade's live query last read it
  call,    \* every call of requestFlush: its reason, its row's anime, its fate
  row,     \* the row of a mutation call in operation_log
  flight,  \* SYNC_FLUSH_STATES: the running run and the calls of its follow-up
  run,     \* every run of the coordinated cycle
  conn,    \* the connection store
  healed   \* the last successful heal is at most SNAPSHOT_HEAL_STALE_AFTER_MS old

flushVars == <<mounted, paired, known, call, row, flight, run, conn, healed>>

Calls == 1 .. MaxCalls
NoRun == 0
\* A run serves at least one call and no call is served twice, so there are
\* never more runs than calls.
Runs  == 1 .. MaxCalls

Mutation == "local_mutation"
Answered == {"resolved", "rejected", "unserved"}

\* SNAPSHOT_HEAL_DEMAND_RANK.
Never   == 0
IfStale == 1
Always  == 2

\* SNAPSHOT_HEAL_FLUSH_DEMANDS.
Demand(reason) ==
  IF reason \in {"bootstrap", "app_active"} THEN Always
  ELSE IF reason = "ws_reconnected" THEN IfStale ELSE Never

\* The strongest demand of the reasons a run serves.
StrongestDemand(calls) ==
  IF \E i \in calls : Demand(call[i].reason) = Always THEN Always
  ELSE IF \E i \in calls : Demand(call[i].reason) = IfStale THEN IfStale
  ELSE Never

Call ==
  [reason : Reasons, anime : Animes,
   at : {"none", "committed", "waiting"} \cup Answered]

Waiting  == {"queued", "claimed", "native"}
\* "settled" is confirmed or given up: both leave the queue; "gone" is deleted.
RowState == Waiting \cup {"none", "settled", "gone"}

Await == {"none", "start", "config", "claim", "count", "send", "heal", "close",
          "publish", "fail", "publish_fail", "ended", "over"}

(* A run of runCoordinatedForegroundSyncCycle.  `pc` names the next await; *)
(* "ended": its promise is settled, settleFlush is still to run.  `pass`   *)
(* is 2 in the pull after a delivered rating.  `seen`, `heal` and `old`    *)
(* are history: the rows that existed when the first pass claimed, what    *)
(* became of the heal, and whether the pairing ended since it started.     *)
Run ==
  [pc     : Await,
   pass   : {1, 2},
   serves : SUBSET Calls,
   demand : {Never, IfStale, Always},
   round  : SUBSET Calls,
   total  : Nat,
   read   : Nat,
   unconfirmed : BOOLEAN,
   more   : BOOLEAN,
   failed : BOOLEAN,
   seen   : SUBSET Calls,
   heal   : {"none", "not_due", "tried"},
   old    : BOOLEAN]

NotStarted ==
  [pc |-> "none", pass |-> 1, serves |-> {}, demand |-> Never, round |-> {},
   total |-> 0, read |-> 0, unconfirmed |-> FALSE, more |-> FALSE,
   failed |-> FALSE, seen |-> {}, heal |-> "none", old |-> FALSE]

NoFlight == [run |-> NoRun, followUp |-> {}]

(* `owner` is the run that holds the current attempt generation, NoRun if  *)
(* no run does; `contact` is the run whose exchange with the bridge is the *)
(* latest evidence of reachability (bridgeContact), NoRun if there is none.*)
Connection ==
  [kind : {"idle", "syncing", "online", "failed"},
   owner : Runs \cup {NoRun}, contact : Runs \cup {NoRun}]

\* Every variable keeps its type.
FlushTypeOK ==
  /\ mounted \in BOOLEAN
  /\ paired \in BOOLEAN
  /\ known \in BOOLEAN
  /\ call \in [Calls -> Call]
  /\ row \in [Calls -> RowState]
  /\ flight \in [run : Runs \cup {NoRun}, followUp : SUBSET Calls]
  /\ run \in [Runs -> Run]
  /\ conn \in Connection
  /\ healed \in BOOLEAN

FlushInit ==
  /\ mounted = FALSE
  /\ paired = TRUE
  /\ known = TRUE
  /\ call = [i \in Calls |->
              [reason |-> Mutation, anime |-> CHOOSE k \in Animes : TRUE,
               at |-> "none"]]
  /\ row = [i \in Calls |-> "none"]
  /\ flight = NoFlight
  /\ run = [r \in Runs |-> NotStarted]
  /\ conn = [kind |-> "idle", owner |-> NoRun, contact |-> NoRun]
  /\ healed = FALSE

-----------------------------------------------------------------------------
(* The connection store. *)

\* beginSyncConnectionAttempt: a newer generation, which run r holds if any.
Attempted(c, r) == [c EXCEPT !.kind = "syncing", !.owner = r]

\* Mutant of Invalidated: the generation is not advanced.
InvalidatedKindOnly(c) == [c EXCEPT !.kind = "idle"]

\* invalidateSyncConnectionOnline: new work exists; the evidence is kept.
Invalidated(c) == [c EXCEPT !.kind = "idle", !.owner = NoRun]

\* forgetSyncConnectionBridge: the pairing is gone and its evidence with it.
Forgotten(c) == [Invalidated(c) EXCEPT !.contact = NoRun]

\* Mutant of Published: the generation is not checked.
PublishedAlways(c, r, kind, contact) ==
  [c EXCEPT !.kind = kind, !.contact = contact]

\* markSyncConnection*: only the holder of the generation may publish.
Published(c, r, kind, contact) ==
  IF c.owner = r THEN [c EXCEPT !.kind = kind, !.contact = contact] ELSE c

-----------------------------------------------------------------------------
(* The dispatcher. *)

IsNextCall(i) == call[i].at = "none" /\ \A j \in 1 .. i - 1 : call[j].at # "none"
IsNextRun(r)  == run[r].pc = "none" /\ \A q \in 1 .. r - 1 : run[q].pc # "none"

\* Mutant of StartFlush: the run is not recorded as the one under way.
StartFlushUnrecorded(base, calls, demand, shown) ==
  \E r \in Runs :
    /\ IsNextRun(r)
    /\ run' = [base EXCEPT ![r] = [NotStarted EXCEPT
                 !.pc = "start", !.serves = calls, !.demand = demand]]
    /\ flight' = NoFlight
    /\ conn' = Attempted(shown, r)

\* startFlush, on the runs `base`: the attempt begins before the caller resumes.
StartFlush(base, calls, demand, shown) ==
  \E r \in Runs :
    /\ IsNextRun(r)
    /\ run' = [base EXCEPT ![r] = [NotStarted EXCEPT
                 !.pc = "start", !.serves = calls, !.demand = demand]]
    /\ flight' = [run |-> r, followUp |-> {}]
    /\ conn' = Attempted(shown, r)

\* Mutant of RequestFlush: a request joins the running cycle.
RequestFlushJoining(i, c, shown) ==
  /\ mounted
  /\ call' = [call EXCEPT ![i] = [c EXCEPT !.at = "waiting"]]
  /\ \/ flight.run = NoRun /\ StartFlush(run, {i}, Demand(c.reason), shown)
     \/ /\ flight.run # NoRun
        /\ run' = [run EXCEPT ![flight.run].serves = @ \cup {i}]
        /\ conn' = shown
        /\ UNCHANGED flight

\* requestFlush by call i, described by c, while the store holds `shown`.
RequestFlush(i, c, shown) ==
  \/ /\ ~mounted
     /\ call' = [call EXCEPT ![i] = [c EXCEPT !.at = "unserved"]]
     /\ conn' = shown
     /\ UNCHANGED <<flight, run>>
  \/ /\ mounted
     /\ flight.run = NoRun
     /\ call' = [call EXCEPT ![i] = [c EXCEPT !.at = "waiting"]]
     /\ StartFlush(run, {i}, Demand(c.reason), shown)
  \/ /\ mounted
     /\ flight.run # NoRun
     /\ call' = [call EXCEPT ![i] = [c EXCEPT !.at = "waiting"]]
     /\ flight' = [flight EXCEPT !.followUp = @ \cup {i}]
     /\ conn' = IF flight.followUp = {} THEN Attempted(shown, NoRun) ELSE shown
     /\ UNCHANGED run

\* A trigger asks through the facade, which forgets a bridge it knows is gone.
Trigger(i, reason) ==
  LET c == [call[i] EXCEPT !.reason = reason] IN
  /\ IsNextCall(i)
  /\ \/ known /\ RequestFlush(i, c, conn)
     \/ /\ ~known
        /\ call' = [call EXCEPT ![i] = [c EXCEPT !.at = "unserved"]]
        /\ conn' = Forgotten(conn)
        /\ UNCHANGED <<flight, run>>
  /\ UNCHANGED <<mounted, paired, known, row, healed>>

\* A committed mutation's caller has yet to run on: until it does, the write
\* door of the file is not passed on to the next writer.
DoorFree == \A i \in Calls : call[i].at # "committed"

\* A mutation commits its row together with the local change.
Commit(i, k) ==
  /\ IsNextCall(i)
  /\ DoorFree
  /\ call' = [call EXCEPT ![i] = [reason |-> Mutation, anime |-> k,
                                  at |-> "committed"]]
  /\ row' = [row EXCEPT ![i] = "queued"]
  /\ UNCHANGED <<mounted, paired, known, flight, run, conn, healed>>

\* Then it invalidates `online` and asks for a flush.
Tell(i) ==
  /\ call[i].at = "committed"
  /\ RequestFlush(i, call[i], Invalidated(conn))
  /\ UNCHANGED <<mounted, paired, known, row, healed>>

\* settleFlush and the promises it settles: the run's own callers get its
\* outcome, and its follow-up starts with the dispatcher registered now.
AnswerCallers(r) ==
  LET fate == IF run[r].failed THEN "rejected" ELSE "resolved" IN
  [i \in Calls |-> IF i \in run[r].serves THEN [call[i] EXCEPT !.at = fate]
                   ELSE call[i]]

\* What stays of a run: its history.
Over(r) == [run EXCEPT ![r] = [NotStarted EXCEPT !.pc = "over",
                                 !.seen = run[r].seen, !.old = run[r].old]]

SettleAlone(r) ==
  /\ flight.followUp = {}
  /\ call' = AnswerCallers(r)
  /\ flight' = NoFlight
  /\ run' = Over(r)
  /\ UNCHANGED conn

\* The callers' fates when the run's outcome is followed by a follow-up
\* nobody is left to run.
AnswerUnserved(r) ==
  [i \in Calls |-> IF i \in flight.followUp
                   THEN [call[i] EXCEPT !.at = "unserved"]
                   ELSE AnswerCallers(r)[i]]

\* Mutant of SettleUnserved: the follow-up is dropped without an answer.
SettleDropping(r) ==
  /\ flight.followUp # {}
  /\ ~mounted
  /\ call' = AnswerCallers(r)
  /\ flight' = NoFlight
  /\ run' = Over(r)
  /\ conn' = Invalidated(conn)

\* Mutant of SettleUnserved: the shown connection is left as it is.
SettleStillSyncing(r) ==
  /\ flight.followUp # {}
  /\ ~mounted
  /\ call' = AnswerUnserved(r)
  /\ flight' = NoFlight
  /\ run' = Over(r)
  /\ UNCHANGED conn

SettleUnserved(r) ==
  /\ flight.followUp # {}
  /\ ~mounted
  /\ call' = AnswerUnserved(r)
  /\ flight' = NoFlight
  /\ run' = Over(r)
  /\ conn' = Invalidated(conn)

SettleThenFollowUp(r) ==
  /\ flight.followUp # {}
  /\ mounted
  /\ call' = AnswerCallers(r)
  /\ StartFlush(Over(r), flight.followUp, StrongestDemand(flight.followUp), conn)

SettleRun(r) ==
  /\ run[r].pc = "ended"
  /\ flight.run = r
  /\ SettleAlone(r) \/ SettleUnserved(r) \/ SettleThenFollowUp(r)
  /\ UNCHANGED <<mounted, paired, known, row, healed>>

-----------------------------------------------------------------------------
(* One cycle, cut at its awaits. *)

\* recordSyncAttemptStarted, skipped by a run whose attempt is superseded.
RecordStart(r) ==
  /\ run[r].pc = "start"
  /\ conn.owner = r => DoorFree
  /\ run' = [run EXCEPT ![r].pc = "config"]
  /\ UNCHANGED <<mounted, paired, known, call, row, flight, conn, healed>>

\* getBridgeConfigSnapshot; without a config the pass throws.
ReadConfig(r) ==
  /\ run[r].pc = "config"
  /\ paired
  /\ run' = [run EXCEPT ![r].pc = "claim"]
  /\ UNCHANGED <<mounted, paired, known, call, row, flight, conn, healed>>

SameAnime(i, j) == call[i].anime = call[j].anime

\* The oldest queued row of an anime.
IsHead(i) ==
  /\ row[i] = "queued"
  /\ \A j \in Calls : j < i /\ SameAnime(i, j) => row[j] # "queued"

\* claimOperationLogBatch: the head of every anime nobody has claimed.
Batch ==
  {i \in Calls : /\ IsHead(i)
                 /\ \A j \in Calls : SameAnime(i, j) =>
                                        row[j] \notin {"claimed", "native"}}

RunClaims(r) ==
  /\ run[r].pc = "claim"
  /\ DoorFree
  /\ row' = [i \in Calls |-> IF i \in Batch THEN "claimed" ELSE row[i]]
  /\ run' = [run EXCEPT ![r].pc = "count", ![r].round = Batch,
                        ![r].seen = IF run[r].pass = 2 THEN @
                                    ELSE {i \in Calls : row[i] # "none"}]
  /\ UNCHANGED <<mounted, paired, known, call, flight, conn, healed>>

\* countOperationLogBacklogRows, skipped by an empty batch.
CountBacklog(r) ==
  /\ run[r].pc = "count"
  /\ run' = [run EXCEPT ![r].pc = "send",
       ![r].total = IF run[r].round = {} THEN 0
                    ELSE Cardinality({i \in Calls : row[i] \in Waiting})]
  /\ UNCHANGED <<mounted, paired, known, call, row, flight, conn, healed>>

\* The run p: one more round, the end of a pass, and what the end of the first
\* pass decides.
NextRound(p, next, read, unconfirmed) ==
  [p EXCEPT !.round = next, !.read = read, !.unconfirmed = unconfirmed]

PassOver(p) ==
  [p EXCEPT !.pc = "heal", !.round = {}, !.total = 0, !.read = 0,
            !.unconfirmed = FALSE]

AfterFirstPass(p, rated, more) ==
  [PassOver(p) EXCEPT !.pc   = IF rated THEN "config" ELSE "heal",
                      !.pass = IF rated THEN 2 ELSE 1,
                      !.more = more]

\* One round of sendSplitRound: the fate of each of its rows, and the next
\* round, made of the successors of what the bridge confirmed.  When there is
\* none, the pass is over; a delivered rating is followed by a second pass,
\* whose result is not used.
SendRound(r) ==
  /\ run[r].pc = "send"
  /\ DoorFree
  /\ \E fate \in [run[r].round -> {"settled", "queued"}] :
       LET settled == {i \in run[r].round :
                         row[i] = "claimed" /\ fate[i] = "settled"}
           heads   == {j \in Calls :
                         IsHead(j) /\ \E i \in settled : SameAnime(i, j)}
           read    == run[r].read + Cardinality(run[r].round)
           unconfirmed == \/ run[r].unconfirmed
                          \/ \E i \in run[r].round : fate[i] = "queued"
       IN \E next \in SUBSET heads :
         /\ row' = [i \in Calls |->
              IF i \in next THEN "claimed"
              ELSE IF i \in run[r].round /\ row[i] = "claimed" THEN fate[i]
              ELSE row[i]]
         /\ \/ /\ next # {}
               /\ run' = [run EXCEPT ![r] = NextRound(@, next, read, unconfirmed)]
            \/ /\ next = {}
               /\ run[r].pass = 1
               /\ \E rated \in BOOLEAN :
                    /\ rated => settled # {} \/ run[r].read > 0
                    /\ run' = [run EXCEPT ![r] = AfterFirstPass(@, rated,
                                  unconfirmed \/ run[r].total > read)]
            \/ /\ next = {}
               /\ run[r].pass = 2
               /\ run' = [run EXCEPT ![r] = PassOver(@)]
  /\ UNCHANGED <<mounted, paired, known, call, flight, conn, healed>>

\* Something throws: the attempt's telemetry, the config or backlog read, or
\* the request.  A failed request releases its rows, or gives up those the
\* bridge rejected; a throw before the sends leaves the claims behind.  The
\* failure of the second pass is only logged.
Throw(r) ==
  /\ run[r].pc \in {"start", "config", "claim", "count", "send"}
  /\ run[r].pc = "start" => conn.owner = r
  /\ IF run[r].pc = "send"
     THEN /\ DoorFree
          /\ \E rejected \in SUBSET run[r].round :
               row' = [i \in Calls |->
                 IF i \in run[r].round /\ row[i] = "claimed"
                 THEN IF i \in rejected THEN "settled" ELSE "queued"
                 ELSE row[i]]
     ELSE UNCHANGED row
  /\ run' = [run EXCEPT ![r] = [PassOver(@) EXCEPT !.failed = run[r].pass = 1]]
  /\ UNCHANGED <<mounted, paired, known, call, flight, conn, healed>>

\* Mutant of HealIsDue: a recent heal also serves a resume.
HealIsDueUnlessFresh(demand) == demand # Never /\ ~healed

HealIsDue(demand) == demand = Always \/ (demand = IfStale /\ ~healed)

\* healSnapshotOnDemand never throws; only a success is remembered.
Heal(r) ==
  /\ run[r].pc = "heal"
  /\ \/ /\ HealIsDue(run[r].demand)
        /\ DoorFree
        /\ healed' \in {healed, TRUE}
        /\ run' = [run EXCEPT ![r].heal = "tried",
                              ![r].pc = IF run[r].failed THEN "fail" ELSE "close"]
     \/ /\ ~HealIsDue(run[r].demand)
        /\ run' = [run EXCEPT ![r].heal = IF @ = "tried" THEN @ ELSE "not_due",
                              ![r].pc = IF run[r].failed THEN "fail" ELSE "close"]
        /\ UNCHANGED healed
  /\ UNCHANGED <<mounted, paired, known, call, row, flight, conn>>

\* The end of a pass that did not fail: work remains, or success is recorded
\* first - by the holder of the attempt only, and that write may throw.
Close(r) ==
  /\ run[r].pc = "close"
  /\ \/ /\ run[r].more
        /\ conn' = Published(conn, r, "idle", r)
        /\ run' = [run EXCEPT ![r].pc = "ended"]
     \/ /\ ~run[r].more
        /\ conn.owner # r
        /\ run' = [run EXCEPT ![r].pc = "ended"]
        /\ UNCHANGED conn
     \/ /\ ~run[r].more
        /\ conn.owner = r
        /\ DoorFree
        /\ \/ run' = [run EXCEPT ![r].pc = "publish"]
           \/ run' = [run EXCEPT ![r].pc = "heal", ![r].failed = TRUE]
        /\ UNCHANGED conn
  /\ UNCHANGED <<mounted, paired, known, call, row, flight, healed>>

\* After the await of that write the generation is checked again.
Publish(r) ==
  /\ run[r].pc = "publish"
  /\ conn' = Published(conn, r, "online", r)
  /\ run' = [run EXCEPT ![r].pc = "ended"]
  /\ UNCHANGED <<mounted, paired, known, call, row, flight, healed>>

\* recordSyncAttemptFailed, whose own failure is swallowed.
RecordFailure(r) ==
  /\ run[r].pc = "fail"
  /\ conn.owner = r => DoorFree
  /\ run' = [run EXCEPT ![r].pc = IF conn.owner = r THEN "publish_fail" ELSE "ended"]
  /\ UNCHANGED <<mounted, paired, known, call, row, flight, conn, healed>>

\* Only a transport failure says anything about the bridge.
PublishFailure(r) ==
  /\ run[r].pc = "publish_fail"
  /\ \E contact \in {conn.contact, r} : conn' = Published(conn, r, "failed", contact)
  /\ run' = [run EXCEPT ![r].pc = "ended"]
  /\ UNCHANGED <<mounted, paired, known, call, row, flight, healed>>

Step(r) ==
  \/ RecordStart(r) \/ ReadConfig(r) \/ RunClaims(r) \/ CountBacklog(r)
  \/ SendRound(r) \/ Throw(r) \/ Heal(r) \/ Close(r) \/ Publish(r)
  \/ RecordFailure(r) \/ PublishFailure(r)

-----------------------------------------------------------------------------
(* The rest of the app and the native engine. *)

\* registerSyncFlushDispatcher and the function it returns.
Mount ==
  /\ ~mounted
  /\ mounted' = TRUE
  /\ UNCHANGED <<paired, known, call, row, flight, run, conn, healed>>

Unmount ==
  /\ mounted
  /\ mounted' = FALSE
  /\ UNCHANGED <<paired, known, call, row, flight, run, conn, healed>>

\* clearBridgeConfig also empties the outbox.
Unpair ==
  /\ MayUnpair
  /\ paired
  /\ known
  /\ DoorFree
  /\ paired' = FALSE
  /\ row' = [i \in Calls |-> IF row[i] = "none" THEN "none" ELSE "gone"]
  /\ run' = [r \in Runs |-> [run[r] EXCEPT !.old = run[r].pc # "none"]]
  /\ UNCHANGED <<mounted, known, call, flight, conn, healed>>

\* The live query answers later; only then does the facade forget the bridge.
Notice ==
  /\ known # paired
  /\ known' = paired
  /\ conn' = IF paired THEN conn ELSE Forgotten(conn)
  /\ UNCHANGED <<mounted, paired, call, row, flight, run, healed>>

\* The user pairs again from the screen an unpaired app shows.
Pair ==
  /\ ~paired
  /\ ~known
  /\ DoorFree
  /\ paired' = TRUE
  /\ UNCHANGED <<mounted, known, call, row, flight, run, conn, healed>>

\* The native engine claims the head of a free anime and settles or returns it.
NativeTakes(i) ==
  /\ i \in Batch
  /\ row' = [row EXCEPT ![i] = "native"]
  /\ UNCHANGED <<mounted, paired, known, call, flight, run, conn, healed>>

NativeEnds(i) ==
  /\ row[i] = "native"
  /\ row' \in {[row EXCEPT ![i] = s] : s \in {"queued", "settled"}}
  /\ UNCHANGED <<mounted, paired, known, call, flight, run, conn, healed>>

\* A claim no run works on any more expires.
ExpireClaim(i) ==
  /\ row[i] = "claimed"
  /\ \A r \in Runs : i \notin run[r].round
  /\ row' = [row EXCEPT ![i] = "queued"]
  /\ UNCHANGED <<mounted, paired, known, call, flight, run, conn, healed>>

\* The last successful heal is SNAPSHOT_HEAL_STALE_AFTER_MS old.
HealAges ==
  /\ healed
  /\ healed' = FALSE
  /\ UNCHANGED <<mounted, paired, known, call, row, flight, run, conn>>

FlushNext ==
  \/ Mount \/ Unmount \/ Unpair \/ Notice \/ Pair \/ HealAges
  \/ \E i \in Calls :
       \/ \E reason \in Triggers : Trigger(i, reason)
       \/ \E k \in Animes : Commit(i, k)
       \/ Tell(i) \/ NativeTakes(i) \/ NativeEnds(i) \/ ExpireClaim(i)
  \/ \E r \in Runs : SettleRun(r) \/ Step(r)

FlushSpec == FlushInit /\ [][FlushNext]_flushVars

-----------------------------------------------------------------------------
(* Properties. *)

Active == {r \in Runs : run[r].pc \notin {"none", "over"}}

\* "Cycles never overlap" (sync-flush.helpers.ts): two would claim, heal and
\* publish side by side, and the outbox relies on one JS cycle at a time.
OneCycle == \A q, r \in Active : q = r

\* A caller told that its mutation's flush succeeded was served by a cycle
\* that read the outbox after the mutation was committed: no request is
\* answered by a cycle that claimed before it.
AnsweredAfterRead ==
  \A r \in Runs : run[r].pc = "ended" /\ ~run[r].failed =>
    \A i \in run[r].serves : call[i].reason = Mutation => i \in run[r].seen

\* A heal demanded by any of the requests a run absorbed was tried, also when
\* the sends failed; a reconnect's may find the last heal recent enough (R-7).
HealServed ==
  \A r \in Runs : run[r].pc = "ended" =>
    \A i \in run[r].serves :
      /\ Demand(call[i].reason) = Always  => run[r].heal = "tried"
      /\ Demand(call[i].reason) = IfStale => run[r].heal # "none"

\* `online` is never shown over work its cycle did not read: every mutation
\* whose caller was told is one the publishing cycle's claim could see.
OnlineOverReadWork ==
  conn.kind = "online" =>
    /\ conn.owner # NoRun
    /\ \A i \in Calls :
         row[i] \notin {"none", "gone"} /\ call[i].at # "committed"
           => i \in run[conn.owner].seen

\* The evidence of reachability belongs to the present pairing (R-9): a cycle
\* that outlives an unpairing publishes nothing once the facade knows of it.
ContactOfThisPairing ==
  known = paired /\ conn.contact # NoRun => ~run[conn.contact].old

\* Every caller waiting for a flush is answered, also when the runtime
\* unmounts while its follow-up is queued.
EveryCallerAnswered ==
  \A i \in Calls : (call[i].at = "waiting") ~> (call[i].at \in Answered)

\* The app does not show `syncing` for ever.
SyncingEnds == (conn.kind = "syncing") ~> (conn.kind # "syncing")

\* "A row still queued for retry keeps the cycle pending"
\* (sync-facade.helpers.ts): `online` means that no row its cycle saw waits.
OnlineMeansDrained ==
  conn.kind = "online" =>
    \A i \in run[conn.owner].seen : row[i] \notin Waiting

=============================================================================
