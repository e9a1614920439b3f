--------------------------- MODULE NativeAttempt ---------------------------
(* The native sync attempt of the `:sync` process: the foreground service  *)
(* and the floor worker that ask for one, the runner that queues attempts  *)
(* for its single work thread and bounds each by a watchdog, the lease and *)
(* the journal an attempt writes, the sweep of what a dead attempt left,   *)
(* and the report it ends in.  What an attempt does to the outbox is the   *)
(* module Outbox's; here its requests only succeed, fail or never return.  *)
EXTENDS Naturals, Sequences, SequencesExt, FiniteSets

CONSTANTS
  MaxAttempt,      \* bound: attempts ever started
  MaxService,      \* bound: instances of the service ever created
  MaxTick,         \* bound: the clock
  Budget,          \* ENGINE_BUDGET_MS: what the watchdog grants an attempt
  LeaseTtl         \* ENGINE_LEASE_MS

ASSUME AttemptAssumption ==
  /\ MaxAttempt \in Nat \ {0} /\ MaxService \in Nat \ {0} /\ MaxTick \in Nat
  /\ Budget \in Nat \ {0} /\ LeaseTtl \in Nat
  /\ Budget < LeaseTtl

VARIABLES
  attempt,      \* what every attempt is doing and how it was reported
  started,      \* how many attempts were started
  workQueue,    \* the executor's queue
  running,      \* the attempts the work thread is inside of
  service,      \* the service instance that is up, 0 for none
  services,     \* how many instances were created
  inFlight,     \* attemptInFlight, a field of each instance
  wakeLock,     \* the attempt heldWakeLock was acquired for, 0 for none
  dbOpen,       \* the runner holds its connection and journal
  schemaReady,  \* the foreground stamped the schema version
  lease,        \* the row of sync_cycle_lock
  attemptLog,   \* the last row of every attempt in sync-journal.db, oldest first
  now           \* the clock

attemptVars == <<attempt, started, workQueue, running, service, services, inFlight,
                 wakeLock, dbOpen, schemaReady, lease, attemptLog, now>>

AttemptIds == 1 .. MaxAttempt
Services == 1 .. MaxService
Floor == 0                  \* the caller of an attempt of the floor worker
NoLease == [fence |-> 0, until |-> 0]

TerminalStates == {"closed", "failed", "abandoned", "not_applicable"}
NonTerminalStates == {"checked", "sent", "applied"}
WorkSteps == {"unused", "queued", "probe", "claim", "sweep", "send", "await", "release", "catchup", "over"}
ReplySteps == {"none", "status", "unlock", "clear", "told"}

NotStarted == [caller |-> Floor, work |-> "unused", reply |-> "none", teller |-> "none",
               deadline |-> 0, awaited |-> TRUE]

AttemptTypeOK ==
  /\ attempt \in [AttemptIds -> [caller : Services \cup {Floor}, work : WorkSteps,
       reply : ReplySteps, teller : {"none", "caller", "worker", "watchdog"},
       deadline : 0 .. MaxTick + Budget, awaited : BOOLEAN]]
  /\ started \in 0 .. MaxAttempt /\ services \in 0 .. MaxService
  /\ workQueue \in Seq(AttemptIds) /\ running \subseteq AttemptIds
  /\ service \in Services \cup {0}
  /\ inFlight \in [Services -> BOOLEAN] /\ wakeLock \in [Services -> AttemptIds \cup {0}]
  /\ dbOpen \in BOOLEAN /\ schemaReady \in BOOLEAN
  /\ lease \in [fence : AttemptIds \cup {0}, until : 0 .. MaxTick + LeaseTtl]
  /\ attemptLog \in Seq([cycle : AttemptIds, to : TerminalStates \cup NonTerminalStates,
                         at : 0 .. MaxTick])
  /\ Len(attemptLog) <= MaxAttempt
  /\ now \in 0 .. MaxTick

AttemptInit ==
  /\ attempt = [i \in AttemptIds |-> NotStarted] /\ started = 0
  /\ workQueue = <<>> /\ running = {}
  /\ service = 0 /\ services = 0
  /\ inFlight = [s \in Services |-> FALSE] /\ wakeLock = [s \in Services |-> 0]
  /\ dbOpen = FALSE /\ schemaReady \in BOOLEAN
  /\ lease = NoLease /\ attemptLog = <<>>
  /\ now = 0

----------------------------------------------------------------------------
(* The journal and the lease.                                              *)

\* Where the journal has the row of attempt i, of which it keeps one at most.
RowOf(log, i) == {n \in DOMAIN log : log[n].cycle = i}
Without(log, i) == IF RowOf(log, i) = {} THEN log ELSE RemoveAt(log, Max(RowOf(log, i)))

\* append.  Only the last row of an attempt is ever read, and only for a state that is
\* not terminal does its time matter; the prune beyond 500 rows reaches none of these.
Journaled(log, i, to) ==
  Append(Without(log, i),
         [cycle |-> i, to |-> to, at |-> IF to \in TerminalStates THEN 0 ELSE now])

LastState(i) ==
  LET last == RowOf(attemptLog, i)
  IN  IF last = {} THEN "idle" ELSE attemptLog[Max(last)].to

\* readLatestTransition and abandonStaleAttempt: the newest row of another attempt is
\* closed as abandoned when that attempt stopped halfway, longer ago than the lease.
AbandonedStale(i) ==
  LET others == Without(attemptLog, i)
      latest == Last(others)
  IN  IF others # <<>> /\ latest.to \in NonTerminalStates /\ latest.at + LeaseTtl < now
      THEN Journaled(attemptLog, latest.cycle, "abandoned")
      ELSE attemptLog

Owns(i) == lease.fence = i
LeaseIsFree(i) == lease = NoLease \/ lease.until <= now \/ Owns(i)

Released(i) == IF Owns(i) THEN NoLease ELSE lease

----------------------------------------------------------------------------
(* Asking for an attempt.                                                  *)

Settled(i) == attempt[i].reply # "none"

\* runOnce on the caller's thread: the readiness gate, then watchdog and queue.
RunOnce(i, caller) ==
  LET asked == [NotStarted EXCEPT !.caller = caller]
  IN  IF dbOpen \/ schemaReady
      THEN /\ dbOpen' = TRUE
           /\ workQueue' = Append(workQueue, i)
           /\ attempt' = [attempt EXCEPT ![i] =
                [asked EXCEPT !.work = "queued", !.deadline = now + Budget]]
      ELSE /\ attempt' = [attempt EXCEPT ![i] =
                [asked EXCEPT !.work = "over", !.reply = "status", !.teller = "caller"]]
           /\ UNCHANGED <<dbOpen, workQueue>>

\* The bounds of the model: an attempt starts only while its budget can still end.
MayStart == started < MaxAttempt /\ now + Budget <= MaxTick

ServiceCreated ==
  /\ service = 0 /\ services < MaxService
  /\ services' = services + 1 /\ service' = services + 1
  /\ UNCHANGED <<attempt, started, workQueue, running, inFlight, wakeLock, dbOpen,
                 schemaReady, lease, attemptLog, now>>

\* onStartCommand and startOneAttempt; a command that finds an attempt in flight is coalesced.
StartCommand ==
  /\ service # 0 /\ ~inFlight[service] /\ MayStart
  /\ started' = started + 1
  /\ inFlight' = [inFlight EXCEPT ![service] = TRUE]
  /\ wakeLock' = [wakeLock EXCEPT ![service] = started + 1]
  /\ RunOnce(started + 1, service)
  /\ UNCHANGED <<running, service, services, schemaReady, lease, attemptLog, now>>

\* onDestroy; the attempt goes on in the process.
ServiceDestroyed ==
  /\ service # 0
  /\ wakeLock' = [wakeLock EXCEPT ![service] = 0]
  /\ service' = 0
  /\ UNCHANGED <<attempt, started, workQueue, running, services, inFlight, dbOpen,
                 schemaReady, lease, attemptLog, now>>

FloorIsWaiting ==
  \E i \in AttemptIds : /\ attempt[i].caller = Floor /\ attempt[i].awaited
                        /\ attempt[i].work # "unused" /\ attempt[i].reply # "told"

\* SyncFloorAttempt.run of one periodic tick that the ticker does not own.
FloorTick ==
  /\ ~FloorIsWaiting /\ MayStart
  /\ started' = started + 1
  /\ RunOnce(started + 1, Floor)
  /\ UNCHANGED <<running, service, services, inFlight, wakeLock, schemaReady, lease,
                 attemptLog, now>>

\* runAttempt's own timeout, later than the watchdog's budget, or the cancelled worker.
FloorStopsWaiting(i) ==
  /\ attempt[i].caller = Floor /\ attempt[i].awaited
  /\ attempt[i].work # "unused" /\ attempt[i].reply = "none"
  /\ now > attempt[i].deadline
  /\ attempt' = [attempt EXCEPT ![i].awaited = FALSE]
  /\ UNCHANGED <<started, workQueue, running, service, services, inFlight, wakeLock, dbOpen,
                 schemaReady, lease, attemptLog, now>>

----------------------------------------------------------------------------
(* The report.                                                             *)

\* The thread that won the interlock is inside the service's callback.
Telling(thread) ==
  \E i \in AttemptIds : /\ attempt[i].teller = thread /\ attempt[i].caller # Floor
                        /\ attempt[i].reply \in {"status", "unlock", "clear"}

\* settled.compareAndSet: the first to settle reports, the other does nothing.
SettledBy(rec, thread) ==
  IF rec.reply # "none" THEN rec ELSE [rec EXCEPT !.reply = "status", !.teller = thread, !.deadline = 0]

\* Mutant: the watchdog is armed only once the work thread begins the attempt.
WatchdogFiresOnceBegun(i) ==
  /\ attempt[i].work \notin {"unused", "queued"} /\ ~Settled(i)
  /\ attempt[i].deadline <= now /\ ~Telling("watchdog")
  /\ attempt' = [attempt EXCEPT ![i] = SettledBy(@, "watchdog")]
  /\ attemptLog' = Journaled(attemptLog, i, "abandoned")
  /\ UNCHANGED <<started, workQueue, running, service, services, inFlight, wakeLock, dbOpen,
                 schemaReady, lease, now>>

\* The watchdog, armed when the attempt was queued, on a thread of its own.
WatchdogFires(i) ==
  /\ attempt[i].work # "unused" /\ ~Settled(i)
  /\ attempt[i].deadline <= now /\ ~Telling("watchdog")
  /\ attempt' = [attempt EXCEPT ![i] = SettledBy(@, "watchdog")]
  /\ attemptLog' = Journaled(attemptLog, i, "abandoned")
  /\ UNCHANGED <<started, workQueue, running, service, services, inFlight, wakeLock, dbOpen,
                 schemaReady, lease, now>>

Told(rec) == [rec EXCEPT !.reply = "told", !.teller = "none", !.awaited = TRUE]

\* Mutant: the callback lifts the in-flight guard before it releases the lock.
RecordStatusClearing(i) ==
  /\ attempt[i].reply = "status"
  /\ attempt' = [attempt EXCEPT ![i] =
       IF @.caller = Floor THEN Told(@) ELSE [@ EXCEPT !.reply = "unlock"]]
  /\ inFlight' = IF attempt[i].caller = Floor THEN inFlight
                 ELSE [inFlight EXCEPT ![attempt[i].caller] = FALSE]
  /\ UNCHANGED <<started, workQueue, running, service, services, wakeLock, dbOpen,
                 schemaReady, lease, attemptLog, now>>

\* The callback projects the outcome into the runtime status; for the floor that is all.
RecordStatus(i) ==
  /\ attempt[i].reply = "status"
  /\ attempt' = [attempt EXCEPT ![i] =
       IF @.caller = Floor THEN Told(@) ELSE [@ EXCEPT !.reply = "unlock"]]
  /\ UNCHANGED <<started, workQueue, running, service, services, inFlight, wakeLock, dbOpen,
                 schemaReady, lease, attemptLog, now>>

\* releaseWakeLock: whatever lock the instance holds now.
ReleaseWakeLock(i) ==
  /\ attempt[i].reply = "unlock"
  /\ wakeLock' = [wakeLock EXCEPT ![attempt[i].caller] = 0]
  /\ attempt' = [attempt EXCEPT ![i].reply = "clear"]
  /\ UNCHANGED <<started, workQueue, running, service, services, inFlight, dbOpen,
                 schemaReady, lease, attemptLog, now>>

ClearInFlight(i) ==
  /\ attempt[i].reply = "clear"
  /\ inFlight' = [inFlight EXCEPT ![attempt[i].caller] = FALSE]
  /\ attempt' = [attempt EXCEPT ![i] = Told(@)]
  /\ UNCHANGED <<started, workQueue, running, service, services, wakeLock, dbOpen,
                 schemaReady, lease, attemptLog, now>>

----------------------------------------------------------------------------
(* The work thread.                                                        *)

\* Mutant: a pool of threads takes the queue.
TakeNextParallel ==
  /\ workQueue # <<>>
  /\ LET i == Head(workQueue)
     IN  /\ running' = IF Settled(i) THEN running ELSE running \cup {i}
         /\ attempt' = [attempt EXCEPT ![i].work = IF Settled(i) THEN "over" ELSE "probe"]
  /\ workQueue' = Tail(workQueue)
  /\ UNCHANGED <<started, service, services, inFlight, wakeLock, dbOpen, schemaReady,
                 lease, attemptLog, now>>

\* The next queued attempt; one abandoned while it waited does nothing.
TakeNext ==
  /\ running = {} /\ workQueue # <<>>
  /\ LET i == Head(workQueue)
     IN  /\ running' = IF Settled(i) THEN running ELSE running \cup {i}
         /\ attempt' = [attempt EXCEPT ![i].work = IF Settled(i) THEN "over" ELSE "probe"]
  /\ workQueue' = Tail(workQueue)
  /\ UNCHANGED <<started, service, services, inFlight, wakeLock, dbOpen, schemaReady,
                 lease, attemptLog, now>>

\* The presence probe fails, or reading the configuration for it throws.
ProbeRefused(i) ==
  /\ attempt[i].work = "probe"
  /\ attempt' = [attempt EXCEPT ![i] = SettledBy([@ EXCEPT !.work = "over"], "worker")]
  /\ UNCHANGED <<started, workQueue, running, service, services, inFlight, wakeLock, dbOpen,
                 schemaReady, lease, attemptLog, now>>

\* transition: the journal names the state before its effect.
Enter(i, to, work) ==
  /\ attemptLog' = Journaled(attemptLog, i, to)
  /\ attempt' = [attempt EXCEPT ![i].work = work]

\* The bridge answers the probe and the cycle starts.
ProbeAnswered(i) ==
  /\ attempt[i].work = "probe"
  /\ Enter(i, "checked", "claim")
  /\ UNCHANGED <<started, workQueue, running, service, services, inFlight, wakeLock, dbOpen,
                 schemaReady, lease, now>>

\* SyncCycleLease.claim: one conditional upsert, verified by reading it back.
ClaimLease(i) ==
  /\ attempt[i].work = "claim"
  /\ IF LeaseIsFree(i)
     THEN /\ lease' = [fence |-> i, until |-> now + LeaseTtl]
          /\ attempt' = [attempt EXCEPT ![i].work = "sweep"]
          /\ UNCHANGED attemptLog
     ELSE /\ Enter(i, "not_applicable", "release")
          /\ UNCHANGED lease
  /\ UNCHANGED <<started, workQueue, running, service, services, inFlight, wakeLock, dbOpen,
                 schemaReady, now>>

\* The configuration is gone or incomplete when the cycle reads it.
ConfigMissing(i) ==
  /\ attempt[i].work = "claim"
  /\ Enter(i, "not_applicable", "release")
  /\ UNCHANGED <<started, workQueue, running, service, services, inFlight, wakeLock, dbOpen,
                 schemaReady, lease, now>>

\* SyncEngineRecovery.sweep, then the backlog read of the first round.
Sweep(i) ==
  /\ attempt[i].work = "sweep"
  /\ IF Owns(i)
     THEN /\ attemptLog' = AbandonedStale(i)
          /\ attempt' = [attempt EXCEPT ![i].work = "send"]
     ELSE Enter(i, "abandoned", "release")
  /\ UNCHANGED <<started, workQueue, running, service, services, inFlight, wakeLock, dbOpen,
                 schemaReady, lease, now>>

\* sendRound up to the request; `claimed`, when there are rows to push, is the row before.
SendRound(i) ==
  /\ attempt[i].work = "send"
  /\ Enter(i, "sent", "await")
  /\ UNCHANGED <<started, workQueue, running, service, services, inFlight, wakeLock, dbOpen,
                 schemaReady, lease, now>>

\* The answer is applied in a transaction that first checks the lease; another round
\* may follow, or the cycle prunes and closes.
ApplyAnswer(i) ==
  /\ attempt[i].work = "await"
  /\ IF Owns(i)
     THEN \/ Enter(i, "applied", "send")
          \/ Enter(i, "closed", "release")
     ELSE Enter(i, "abandoned", "release")
  /\ UNCHANGED <<started, workQueue, running, service, services, inFlight, wakeLock, dbOpen,
                 schemaReady, lease, now>>

\* A request, an answer or the database fails.
CycleFails(i) ==
  /\ attempt[i].work \in {"claim", "sweep", "send", "await"}
  /\ Enter(i, "failed", "release")
  /\ lease' = IF attempt[i].work = "claim" THEN Released(i) ELSE lease
  /\ UNCHANGED <<started, workQueue, running, service, services, inFlight, wakeLock, dbOpen,
                 schemaReady, now>>

\* The cycle's finally block releases the lease; then the runner settles the attempt.
ReleaseLease(i) ==
  /\ attempt[i].work = "release"
  /\ lease' = Released(i)
  /\ attempt' = [attempt EXCEPT ![i] =
       [SettledBy(@, "worker") EXCEPT !.work =
          IF ~Settled(i) /\ LastState(i) = "closed" THEN "catchup" ELSE "over"]]
  /\ UNCHANGED <<started, workQueue, running, service, services, inFlight, wakeLock, dbOpen,
                 schemaReady, attemptLog, now>>

\* The work thread is done with the report and with the catch-up a closed attempt earns.
WorkerDone(i) ==
  /\ i \in running /\ attempt[i].work \in {"over", "catchup"}
  /\ ~Telling("worker")
  /\ running' = running \ {i}
  /\ attempt' = [attempt EXCEPT ![i].work = "over"]
  /\ UNCHANGED <<started, workQueue, service, services, inFlight, wakeLock, dbOpen,
                 schemaReady, lease, attemptLog, now>>

----------------------------------------------------------------------------
(* The process, the foreground and time.                                   *)

\* What is in memory goes; the lease, the journal and the status row stay.
ProcessDies ==
  /\ dbOpen
  /\ attempt' = [i \in AttemptIds |->
       IF attempt[i].work = "unused" THEN attempt[i]
       ELSE [Told(attempt[i]) EXCEPT !.work = "over", !.deadline = 0]]
  /\ workQueue' = <<>> /\ running' = {} /\ service' = 0 /\ dbOpen' = FALSE
  /\ inFlight' = [s \in Services |-> FALSE] /\ wakeLock' = [s \in Services |-> 0]
  /\ UNCHANGED <<started, services, schemaReady, lease, attemptLog, now>>

\* The last step of the foreground's schema preparation.
SchemaStamped ==
  /\ ~schemaReady /\ schemaReady' = TRUE
  /\ UNCHANGED <<attempt, started, workQueue, running, service, services, inFlight, wakeLock,
                 dbOpen, lease, attemptLog, now>>

AttemptTick ==
  /\ now < MaxTick /\ now' = now + 1
  /\ UNCHANGED <<attempt, started, workQueue, running, service, services, inFlight, wakeLock,
                 dbOpen, schemaReady, lease, attemptLog>>

WorkStep(i) == \/ ProbeRefused(i) \/ ProbeAnswered(i) \/ ClaimLease(i) \/ ConfigMissing(i)
               \/ Sweep(i) \/ SendRound(i) \/ ApplyAnswer(i) \/ CycleFails(i)
               \/ ReleaseLease(i) \/ WorkerDone(i)
ReplyStep(i) == RecordStatus(i) \/ ReleaseWakeLock(i) \/ ClearInFlight(i)

AttemptNext ==
  \/ ServiceCreated \/ StartCommand \/ ServiceDestroyed \/ FloorTick
  \/ TakeNext \/ ProcessDies \/ SchemaStamped \/ AttemptTick
  \/ \E i \in AttemptIds : \/ FloorStopsWaiting(i) \/ WatchdogFires(i)
                           \/ WorkStep(i) \/ ReplyStep(i)

AttemptSpec == AttemptInit /\ [][AttemptNext]_attemptVars

----------------------------------------------------------------------------
(* Properties.                                                             *)

\* While a service that is up has an attempt that is not yet reported, the wake lock
\* it holds is that attempt's (SyncForegroundService: per attempt, released on its
\* result), however the threads that report and the commands that start interleave.
AwakeWhileWorking ==
  \A i \in AttemptIds :
    (attempt[i].caller = service /\ service # 0 /\ attempt[i].work # "unused"
       /\ attempt[i].reply \in {"none", "status"}) => wakeLock[service] = i

\* An attempt past its claim keeps the lease to its end, even when it outlasts the
\* lease: nobody else can claim it while the work thread is inside of it.
HolderKeepsLease ==
  \A i \in AttemptIds :
    attempt[i].work \in {"sweep", "send", "await"} => Owns(i)

\* The guard that coalesces start commands is always lifted again: the callback comes
\* within the budget also for an attempt queued behind one that never returns.
InFlightClears == \A s \in Services : inFlight[s] ~> ~inFlight[s]

============================================================================
