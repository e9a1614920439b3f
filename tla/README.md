# Convergent sync, specified

A TLA+ development for the offline-first Android app of this repository. It
models the parts where the app can go wrong in ways a test hardly reaches: two
processes that share one SQLite file drain one outbox into a remote bridge and
never signal each other, and around them everything that starts, stops, repairs
and feeds that work. TLC checks the models on small instances; TLAPS proves
the safety properties of every passing run for every size.

Paths are relative to the repository root. "ADR 009" is
`docs/adr/009-convergent-sync.md`, whose rules are cited as R-n.

## 1. The system

The `main` process runs React Native; the `:sync` process runs a Kotlin engine
when Android wakes it. Both open `autoreas.db`. The bridge is the desktop
application's HTTP and WebSocket server; it is another program.

| Component | State | Operations | Module |
|---|---|---|---|
| JS outbox and reconcile cycle (`src/features/sync/reconcile*.ts`, `outbox-claim`, `missing-token`, `season-rating-round`, `unresolved-supersede`) | `operation_log`, `animes.bridge_modified_at`, `bridge_config.last_changelog_id`, the cycle's variables | claim, re-check, fetch-first, send, apply, isolate, rate, chain, release | `Outbox` |
| Native cycle (`SyncEngineCycle.kt` and the files it calls) | the same tables, its own variables | the same, plus the recovery sweep | `Outbox` |
| Native attempt (`SyncEngineRunner.kt`, `SyncCycleLease.kt`, journal, recovery, service, floor worker) | `sync_cycle_lock`, the journal, work queue, watchdog, wake lock | start, queue, claim/release the lease, abandon, sweep, report | `NativeAttempt` |
| Trigger owners (execution facade, ticker, floor scheduler) | persisted flag, alarm, WorkManager request, generation | register, release, tick, re-arm, reboot | `BackgroundTriggers` |
| Runtime status row | `sync_runtime_status`, sequence of projections | project, settle, record an attempt | `RuntimeStatus` |
| JS flush dispatcher and connection state (`sync-flush`, `sync-facade`, `sync-connection-store`) | running cycle, one follow-up, connection snapshot and generation | request, start, settle, publish | `SyncFlush` |
| Remote changes (`merge/`, staging, drain, heal, pairing) and unresolved keys | `animes`, `pending_remote_changes`, cursor, given-up rows | stage, drain, merge per field, heal, keep_local, keep_bridge, pair, unpair | `RemoteMerge` |
| Diagnostics outbox | telemetry database shared by both processes, its gate | record, deliver, dispose, reap | `DiagnosticsOutbox` |
| Chapter buttons and the write door | the row, the queue of writes, the projection over the list | press, begin, commit, roll back, time out, render | `ChapterActions` |
| Schema preparation and repair | tables and columns, `__drizzle_migrations`, the retired rating queue | pin, migrate, repair, move, validate | `SchemaRepair` |
| Startup and recovery reset | file, durable intent, phase, splash, stage | open, prepare, fail, reset, remount, navigate | `StartupRecovery` |
| WebSocket listener | socket, session, backoff timer | connect, close, reconnect, announce | `WebSocketListener` |
| Cover sweep | cover files, manifest, inbox, lock | hydrate, adopt, fetch, settle, prune | `CoverSweep` |
| Anime folders | index, walks, probe | index, recheck, probe | `AnimeFolders` |
| Pairing screen (`setup/`, re-pair of the settings) | route, link, scanner, busy flag, configuration | open a link, scan, press, pair, re-pair | `DeviceSetup` |
| Other screens, settings, theme, plugins, scripts | presentation | | not modelled |

How they interact: a mutation writes the local change and one `pending` row in
one transaction, through the write door, and asks the dispatcher for a flush.
The dispatcher, or the native engine on its own triggers, runs a cycle. A cycle
*claims* rows (owner and time), sends them, and writes the answer's verdicts in
one transaction by compare-and-set on the claim. A claim expires after 60 s, and
then anyone may take the row. The bridge applies an edit only when the token
(`base`) it carries is the anime's current one. Answers also bring remote
changes, which are merged around the rows still in the outbox; the native engine
only stages them. A socket event, a resume or a reconnect asks for a flush too.
What wakes the native engine is registered by the JS runtime when it is paired,
and lives on without it.

What is hard: a claim that expires while its request is under way; an answer
that comes back to a past holder; a request that arrives after its sender gave
up; a crash or a throw between the claim and its release; a process frozen
between two reads; a batch in which one message is bad; rows of one anime that
must not overtake each other; a snapshot fetched before the lock under which it
is written; a prompt or a reading answered after the state it was asked in is
gone; a watchdog racing the work it bounds; a deadline that answers a caller
whose write goes on; a process killed between two file operations; a schema
history no migration file describes.

What makes each part correct is stated by the properties of section 3.

## 2. Modules

* `OperationLog` - the table and the SQL statements both runtimes run on it,
  each a pure operator from a log to a log or to a set of row ids.
* `Outbox` - the protocol: the two runtimes, the clock, the user, the bridge and
  the requests under way. One action per atomic unit of the code: one write
  transaction, one local read, or one network effect.
* `DurableQueue` - what the outbox promises the user: an in-order queue per anime
  that loses nothing. Claims, rounds and processes are invisible in it.
  The user's two choices on a given-up key are part of it (queue again, or keep what
  the bridge has, the one way to drop an intent that waits). What being confirmed says
  of the bridge is not, and neither is unpairing, which deletes the whole log
  (`clearBridgeConfig`): the promise is that of one pairing.
* `OutboxImplements` - the refinement mapping from `Outbox` to `DurableQueue`.
* `SyncFlush` - the JS dispatcher: `requestFlush` with its single flight, the
  coordinated cycle, the heal and the connection the app shows.
* `RemoteMerge`, `DiagnosticsOutbox`, `ChapterActions`, `CoverSweep`,
  `AnimeFolders`, `RuntimeStatus` - what the app keeps, and how it is written from
  several sides.
* `NativeAttempt`, `BackgroundTriggers`, `SchemaRepair`, `StartupRecovery`,
  `WebSocketListener`, `DeviceSetup` - what runs the sync.
* `MCOutbox`, `MCRefused`, `MCSync`, `MCSyncFlush`, `MCContent`, `MCRuntime` - the
  instances TLC checks. `MCRefused` bounds what two animes may do, `MCSync` chooses whether a
  behaviour is one of `Outbox` or of `SyncFlush`, and adds their fairness.
* `OutboxProofs`, `OutboxCycleProofs`, `OutboxBridgeProofs`, `SyncFlushProofs`,
  `RemoteMergeProofs`, `ContentProofs`, `BackgroundProofs`, `StartupProofs` - the
  theorems. `ContentProofs` extends `MCContent` and `StartupProofs` extends
  `MCRuntime`, so that their last theorems are about the specifications of the runs.

### `Outbox`: state and code

| Variable | Code |
|---|---|
| `log` | `operation_log` (`database.schema.ts`): status, anime, kind, the claim columns, `conflict_attempt_count`. A row's id is its position |
| `token` | `animes.bridge_modified_at`, `NoToken` for NULL |
| `cursor` | `bridge_config.last_changelog_id` |
| `clock` | `Date.now()` and `System.currentTimeMillis()`: one device, one clock |
| `cyc` | the local variables of each runtime's cycle. `pc` says which await it is at; `mine` is `claimedIds` / `attemptClaimedIds`; `send`, `base`, `answer` belong to the request under way; `since` is the changelog id sent along; `next` are the chained successors |
| `bridge` | external: its changelog, the token and latest content of every anime, every row it ever took in; `shown`, the rows an answer gave evidence of by a change with their fields |
| `stray` | requests whose sender timed out but which are still on the wire |

| Action | Code |
|---|---|
| `LocalEdit` | `applyAnimeMutationPatch`, season rating mutation |
| `NativeSweep` | `SyncEngineRecovery.sweep` |
| `ClaimBatch` | `claimOperationLogBatch` / `claimOperationLogBacklog` |
| `BeginSend`, `ReadTokens`, `BridgeAnswers`, `ApplyResponse` | `sendReconcileRound` / `sendRound`, cut at its awaits |
| `FetchMissing`, `StoreFetched` | `resolveMissingTokens` / `MissingTokenResolver.resolve` |
| `RejectRound`, `IsolateNext`, `RejectIsolated`, `RejectLone`, `EndIsolation` | `sendOneMessagePerRequest` / `isolateMessages` and `settleRejection` |
| `RatingCheck`, `RatingArrives`, `RatingDelivered`, `RatingRefused`, `RatingUnsettled` | `sendSeasonRatingRound` / `SeasonRatingSender` |
| `EndRound` | the chain loop |
| `KeepLocal`, `KeepBridge` | `keepLocalForAnime` / `keepLocalForRating`, `keepBridgeForAnime` / `keepBridgeForRating` |
| `FailCycle` | the catch blocks: revert the round, release what is still held |
| `EarlyThrow` | `countOperationLogBacklogRows` throwing before the try |
| `Crash` | the process dies, or the release itself cannot be written |
| `Tick`, `BridgeEdit`, `StrayArrives` | environment |

JS and Kotlin differ in two places and the model keeps both: only native sweeps,
and only JS re-reads its claim before a whole round (`BeginSend`).

### `Outbox`: abstractions

* Rows are ordered by `created_at, id`. The clock of the model never steps back,
  so that is the order of the ids. A wall clock set back is a listed hazard that
  nothing here covers.
* Payloads are gone: an edit is its row id, and the bridge remembers the last
  edit it took per anime. That is enough to tell "applied", "repeat" and
  "overwritten" apart.
* Local reads and writes take no time unless the run has the `"suspend"` fault:
  between two network waits neither the clock nor the other runtime's exchange
  with the bridge moves (`TimeMayPass`). Without this restriction the clock
  could pass 60 s between two SQLite reads in every run. Android does freeze
  processes (`docs/mobile-background-sync-investigation-log.md`), so
  the outbox half of `sync` adds the fault.
  Adding it to `takeover` makes TLC refute `NoStaleOverwrite`: JS frozen between
  the re-check of its claim and the read of the tokens sends an older edit with
  the newer token. That is a limit of the protocol, not a disagreement between
  the code and what it says.
* Reverting a failed round and releasing the other held rows is one step: both
  are compare-and-set on the same claim and nothing reads in between.
* A sweep that fails is a sweep that did nothing; the pruner only removes
  settled rows outside the window of the model.
* One cycle per runtime at a time. In JS the dispatcher guarantees it
  (`OneCycle` of `SyncFlush`), natively the single worker and the lease
  (`NativeAttempt`).
* A row the answer does not name is confirmed if some change of its anime in the answer
  lists every field of the row (`isOperationConfirmed`): the verdict `"shown"`. Fields are
  gone, so such a change may be any change of the anime after the `since` of the request,
  the device's own or a foreign one, whether or not the bridge took the row. That the
  bridge leaves rows unnamed is the refusal `"silent"`.
* One pairing: unpairing deletes the log with the bridge's tokens and cursor. It is an
  action of `SyncFlush` and `RemoteMerge`, not here.
* The user may resolve any key whose list entry was once given up, with either choice and
  either kind, also after it was settled meanwhile; which choices a reason leaves
  (`offeredChoices`) is not modelled. `KeepBridge` fetches and writes in
  one step: the token it stores may be any the bridge ever gave the anime, so an old fetch is
  covered, and it may delete waiting rows and those of an expired claim. The write door
  refuses both while a live claim holds the key.
* The pull half of an answer (staging, merge, heal) is left to `RemoteMerge`;
  here an answer moves the cursor and the tokens.
* The bridge is modelled from what the code sends and reads: a token mismatch is
  a conflict, an identical repeat is applied again without a change (R-4), and a
  run may add refusals: conflict on the very token sent, unsupported, rows it does not
  name, a 4xx, an anime that is gone.

### `SyncFlush`: state and code

| Variable | Code |
|---|---|
| `mounted` | `SYNC_FLUSH_DISPATCHER.current` is set |
| `paired`, `known` | `bridge_config` has a row; what the live query of `useBridgeConfig` last told the facade |
| `call` | one call of `requestFlush`: its reason and the fate of its promise; of a mutation also whether its row is committed and its caller not yet resumed |
| `row` | the row a mutation call wrote |
| `flight` | `SYNC_FLUSH_STATES`: the running run and the calls its follow-up absorbed |
| `run` | each run of `runCoordinatedForegroundSyncCycle`: its next await, what it absorbed, the locals of `syncPendingOperations` |
| `conn` | `syncConnectionStore` and `SYNC_CONNECTION_ATTEMPT_STATE`. `owner` is the run that holds the current generation |
| `healed` | `LAST_SUCCESSFUL_SNAPSHOT_HEAL_AT` is recent |

| Action | Code |
|---|---|
| `Trigger` | `requestSync` of `useSyncFacade` |
| `Commit`, `Tell` | `applyAnimeMutationPatch`, `enqueueSeasonRatingIntent`: up to the commit, and after it |
| `RunClaims` | `claimOperationLogBatch` of the run's pass |
| `SettleRun` | `settleFlush` with the promises it settles |
| `RecordStart` ... `PublishFailure` | the awaits of `runCoordinatedForegroundSyncCycle` and `syncPendingOperations` |
| `Mount`, `Unmount` | `registerSyncFlushDispatcher` and the function it returns |
| `Unpair`, `Notice`, `Pair` | `clearBridgeConfig`, the live query that notices it, `persistPairedBridgeConfiguration` |
| `NativeTakes`, `NativeEnds`, `ExpireClaim`, `HealAges` | environment |

### `SyncFlush`: abstractions

* What a cycle does to a row is only that it leaves the queue ("settled" covers
  confirmed and given up), returns to it, or stays claimed after a throw between
  claim and sends. Which of these happens is left open; `Outbox` has the causes.
* A claim does not expire while its run works on it; takeovers are in `Outbox`.
* `DoorFree`: the caller of a write that just committed runs on before the next
  writer's transaction does anything, since only microtasks lie between the
  commit and the caller, and a native call between the door and the next commit.
  Reads do not wait for it.
* `unreachable` and `sync_error` are one kind, `failed`; they differ in whether
  the evidence of reachability changes, which `PublishFailure` leaves open.
* The batch limit of 50 keys is never reached. A crash ends every variable here
  and leaves the rows to `Outbox`.
* A facade that does not know the pairing yet ignores a trigger; the model starts
  when it knows.

### `RemoteMerge`: state and code

| Variable | Code |
|---|---|
| `local` | `animes`: two columns stand for the twenty-one, one the user edits and one only the bridge writes; `last_applied_change_ms`, `bridge_modified_at`, whether the row is there |
| `rows` | the `update` rows of `operation_log` |
| `staged`, `cursor`, `paired` | `pending_remote_changes`, `last_changelog_id`, whether `bridge_config` has a row |
| `cyc` | the reconcile request of each runtime |
| `heal`, `keep`, `pairing` | a heal, a keep_bridge choice and a pairing between its fetch and its write |
| `feed` | external: the bridge's changelog. A change is named by its place in it |
| `drift` | history: animes that an older snapshot, or a change revived after a deletion, came over |

| Action | Code |
|---|---|
| `LocalEdit`, `KeepLocal`, `KeepBridgeFetch`, `KeepBridgeWrite` | `applyAnimeMutationPatch`, `keepLocalForAnime`, `keepBridgeForAnime` cut at its fetch |
| `Begin`, `FetchBase`, `BridgeAnswers`, `Fail` | a round of either runtime, reduced to what the merge needs |
| `ApplyAnswer`, `StageAnswer`, `Drain` | `applyReconcileResponseWrites`, the native `apply`, `drainPendingRemoteChanges`: `MergeOne` folded over the changes in order |
| `HealFetch`, `HealWrite` | `resyncFromBridgeSnapshot` cut at its fetch |
| `Unpair`, `PairFetch`, `PairWrite` | `clearBridgeConfig`, `persistPairedBridgeConfiguration` |

Abstractions. A claim lasts as long as its cycle (its expiry is `Outbox`'s). The
user pairs again only with the same bridge and when nothing is in flight. Polls
that find nothing are left out, and so are the rating keys of the unresolved
list. `drift` is what the properties must leave out: nothing in the code stops a
heal, a keep_bridge choice or a redelivered change from writing an older state
over an edit that was confirmed meanwhile, until the next heal repairs it.

### `NativeAttempt`: state and code

| Variable | Code |
|---|---|
| `attempt`, `started` | each call of `runOnce`: its caller, where its work is (`work`), how far its report is (`reply`), who won the interlock `settled` (`teller`), its deadline |
| `workQueue`, `running` | the single-thread executor and what it is inside of |
| `service`, `inFlight`, `wakeLock` | the service instance, its `attemptInFlight` and `heldWakeLock` |
| `lease`, `attemptLog` | `sync_cycle_lock`, the last row of each attempt in `sync-journal.db` |
| `dbOpen`, `schemaReady`, `now` | the runner's connection, the stamp of the foreground, the clock |

`StartCommand`, `ServiceDestroyed` and `FloorTick` are the callers; `TakeNext`,
`ProbeRefused` ... `WorkerDone` (`WorkStep`) the work thread; `WatchdogFires` the
watchdog; `RecordStatus`, `ReleaseWakeLock`, `ClearInFlight` (`ReplyStep`) the
report, one step per statement because a start command may come in between.
`ProcessDies` keeps only what is on disk. The requests of a cycle succeed, fail
or never return. HTTP, the notification and what the presence probe looks at are
left out.

### `BackgroundTriggers`: state and code

`strategies`, `generation` and `asking` are the execution facade's
`concurrentStrategies`, `registrationGeneration` and open permission prompts;
`floorOps` the queue of the native module's asynchronous functions; `ticking`,
`alarm`, `token` the ticker's persisted flag, its alarm and its `PendingIntent`;
`receiver` where `TickAlarmReceiver.onReceive` is; `floorWork` and `legacyWork`
the WorkManager requests. `RegisterStrategies` / `UnregisterStrategies` /
`PermissionAnswered` are the facade, `FloorRegisters` / `FloorUnregisters` the
scheduler, `AlarmFires` / `ReceiverReads` / `ReceiverReArms` the ticker,
`AppOpens` ... `ServiceKilled` the platform. `FloorServes` is the floor's gate: its
tick runs an attempt only when the ticker's token is gone. `missed` remembers
that a broadcast was lost since the app was last opened, or that a reboot took
the alarm before any floor was scheduled: nothing can re-arm the chain then.
Assumed: Expo runs a module's asynchronous functions one at a time in order,
`apply()` on the preferences is durable, a cancellation succeeds, starting and
stopping are atomic against the receiver.

### `RuntimeStatus`: state and code

`runtimeOn`, `registering`, `releasing`, `settling` are the effects of
`useSyncRuntime`; `sequence` is `projectionSequenceRef`, `asked` the readings of
the facade not answered yet; `statusRow` is `sync_runtime_status` and `statusDoor` the
whole rows waiting at the write door. `Project` numbers a reading;
`ProjectionAnswered` checks the number, reads the row and queues the merged one
in one step, because drizzle's read of this driver is synchronous;
`DoorCommits` writes it whole; `NativeRecords` updates its columns in place.
`projected` is history. The execution mode, ids, stages and error names are left
out. `RowOfThisRuntime` excuses a failed write. An attempt's columns can be lost
to a row read before them: nothing in the code or its documents promises more,
so no property does.

### `DiagnosticsOutbox`: state and code

`stored`, `ageOf` are `sync_diagnostics_outbox`, `gate` its `not_before`,
`telemetry` the user's switch, `pass` what each drainer (JS flush, native
courier) holds of its batch. `Record` includes the eviction trigger of the
table; `BeginPass`, `SkipUnrouted`, `Post`, `RemoveAnswered`, `Stop`, `EndPass`
are one pass, a row at a time; `RowsAge`, `GateOpens` are time. `judged`,
`unjudged`, `shed` are history. The registries of kinds differ: JS accepts
`screen_stall`, the native one does not. The sealed bodies and the counters of a
pass are left out. A comment of the constants says the courier drains in "the
same order eviction uses"; the trigger evicts the newest row, as modelled.

### `ChapterActions`: state and code

| Variable | Code |
|---|---|
| `row`, `unsent` | the anime's chapters and status; the actions whose operation is not settled |
| `door`, `open` | the queue of `withQueuedWrite`, the transactions begun |
| `action` | the gesture, the fate of its write and of its caller |
| `entries`, `durable` | the projection: accepted intents and the row the list rendered last |
| `listRead` | a row the list has read and not rendered |
| `report` | the phases recorded of an action |

`Press` accepts the intent over what the card shows; `BeginTransaction`,
`Commit`, `FindsNothing`, `RollBack`, `BeginFails` are the door; `DeadlinePasses`
answers the caller while its write stays in the queue; `ListReads`, `ListRenders`
the live query. `disturbed` is history: the row went another way than the
accepted intents (a remote write, a failed write with others behind it, one that
landed late), or a rendering retired intents whose writes still wait. A row that
so comes back to where an intent began revives it, and the property leaves that
out.

The last case is one the proof brought up. A chain of intents that returns to the
rendered row is dropped as absorbed (`isAnimeMutationProjectionAbsorbed`) although
its writes are still at the door; a press made after that begins from the old row. When
the writes then bring the row back there without the list reading it in between, that
press stays over a row that has carried it already, until the row changes again. Without
the clause in `ListRenders`, TLC finds this with four presses (+1, +1, -1, -1) and no
failure, none with three; the instance of the run has two, the theorem any number. The
rating dialog is not modelled.

### `SchemaRepair`: state and code

`schema` is the set of tables and late columns of the file, `ledger`
`__drizzle_migrations` against the journal, `stamped` the `user_version`, `queue`
the retired `season_rating_queue`, `log` what the move inserted, `at` the step of
the preparation, `open` an exclusive transaction. Every action is a step of
`prepareForegroundDatabase` in its order; a statement SQLite would refuse goes to
`"refused"`. `Interrupted` is a death or a busy database: both roll an open
transaction back and begin anew. `RepairInit` is any history an
install can come from: no file, or a file with any subset of the tables that only
repairs create, up to `MaxMissing` late columns lost, the retired columns or not,
an absent, empty or older ledger and an old rating queue or none. Columns
of a table that came together are named by the first and the last. One
preparation runs at a time; the cursor backfill and the retention index are left
out.

### `StartupRecovery`: state and code

| Variable | Code |
|---|---|
| `file`, `intent` | `autoreas.db` (version against the journal, whole, damaged, with data) and the durable reset intent |
| `phase`, `cause`, `prep`, `overdue`, `completed` | the startup state, its classification, where the provider's preparation is, its deadline, `hasCompletedStartupRef` |
| `fonts`, `splash`, `entered` | what the boundary waits for and releases |
| `reset`, `confirming`, `stage` | the recovery controller and the orchestrator's stage |

`ProviderOpens` ... `ReadConfig` are `createStartupDatabaseInitializer`; the
deadlines and releases are the effects of `useStartupBoundary`; `ReadIntent` ...
`ClearIntent` are the stages of `executeReset`, `StageFails` any of their ports
throwing; `Dies` and `Launch` keep `file` and `intent` only. Retries of a busy
database inside its budget, the native writers a reset cancels, the sidecar
files, the slow notice and logs are left out; the provider initialises once per
mount.

### `WebSocketListener`: state and code

One run of `useWebSocket`'s effect is a session; `connecting` are sessions whose
`connect` awaits the config, `sockets` what became of each socket, `wsRef` the
shared reference, `backoff` the pending timer, `opened`, `failed` the refs that
decide whether an open asks for a flush. `unheard` is history: a change announced
while nobody listened and no flush has followed. How long the backoff is, and
what a message says, is left out.

### `DeviceSetup`: state and code

| Variable | Code |
|---|---|
| `route`, `configured`, `url` | the tabs or the setup screen with or without the repair parameter; whether `bridge_config` has its row; `useLinkingURL` |
| `initialUrl`, `handledUrl` | `initialDeepLinkUrlRef`, `lastHandledDeepLinkUrlRef` of the mounted screen |
| `scannerVisible`, `loading`, `drawn` | the flags of the screen, and what its handlers were last rendered with |
| `scanned`, `inView` | `acceptedScanValueRef`, the code before the camera |
| `pairings` | each call of `pair`: its next await, whether its screen is mounted, what began it |

`LinkOpened`, `ShowCode` are the user; `HandleLink` is the effect of
`useSetupScreen`, `BarcodeScanned` the handler of `useSetupQrScanner`,
`HandlePair` the button. `PairingProceeds`, `PairingFails`, `PairingSaves` cut
`usePairDevice` at its awaits; a call goes on when its screen is gone, two calls
may overlap, and a write that missed its deadline may still commit
(`LateWriteEnds`). `RePair` is the confirmed dialog of the settings: its deletion
goes through the write door, behind a pairing's write that is queued there.
`offered` is history: what the user offered and nothing has used. React renders a
press before the next event, and what a native event or an answer set some time
later (`Render`); between the two the handlers see what was drawn. The form's
fields, toasts, the camera permission and what the router does with a link by
itself are left out; one life of the activity is modelled.

### `CoverSweep`: state and code

`coverFiles`, `manifest`, `spare` are the files of `covers/`; `inbox` the pairs
native and JS share; `tasks` and `sweepStep` the exclusive queue of the cover
store and where its head is; `found` its memory; `shown` the URI map of the
cards; `prefetch` the native download. `ClearSpare`, `FillSpare`, `DropManifest`,
`MoveSpare` are the four file operations of `writeCoverManifest`, between which
the process may die (`AppDies`); the other file operations of one synchronous
call are one step. `Answer(a, k)` is what the bridge says of a cover, `CutOff` a
spent budget. The etag is the image's version; the waiting time between tries is
a choice; two downloads at a time are answers in any order.

### `AnimeFolders`: state and code

`tree` and `readable` are the device; `root`, `status`, `index` the store;
`walks` the runs of `walkFolderTree`, one tree level per step, `sharedWalk` the
one callers join; `probe` a probe between its listings. `MatchByPath` and
`Expected` are `matchByPath` and `findExpectedFolder`. Uris, labels, files,
hidden folders, names without a Latin letter and the buttons are left out.

### `MCRuntime` and `MCContent`

These twelve components share no state that their properties relate: what they
exchange with each other or with `Outbox` is a free choice in each. Interleaving
them would only multiply their states. `MCRuntime` (what runs the sync, with the
fairness its liveness needs) and `MCContent` (what the app keeps, safety only)
therefore choose, in the first state of a behaviour, the one component that moves
in it, and hold the others still where they start. Every behaviour of each component is a behaviour
of the run, with the bounds of its own constants and the fairness of its own
actions.

## 3. Runs

| Run | Instance | Shows |
|---|---|---|
| `takeover` | one anime, two rows, both runtimes, clock 0..2 with a claim of 2 ticks, missing tokens, a crash or a throw before the try, two bridge changes, one late request | order at the bridge and in the log, no stale overwrite, the holder sends, tokens only forward |
| `refusals` | `MCRefused`, one runtime, conflict cap 2. One anime: every refusal, unnamed rows, both choices of the user. Two animes: an edit and a rating in one request, 4xx | confirmation only on evidence, conflicts bounded, `Outbox` implements `DurableQueue`, and a request gives up no row but the bad one and no cycle leaves a row claimed |
| `sync` | `MCSync`, fair. Outbox: one runtime with crash, early throw and suspension. Dispatcher: two requests with both heal demands, mounting, unpairing and pairing again, the native engine, throws anywhere | `NeverStuck`: a `processing` row always leaves that status; cycles never overlap, nobody is answered by a cycle that claimed too early, `online` never covers unread work, no heal demand is lost, every caller is answered, `syncing` ends, evidence of an old pairing is not shown |
| `content` | `MCContent` | see below |
| `runtime` | `MCRuntime`, fair | see below |
| `drained` | *violated*: `OnlineMeansDrained` | finding 3 |
| `native_chain` | *violated*: `HolderSends` | finding 1 |
| `early_throw` | *violated*: `NothingLeftClaimed` | finding 2 |
| `inferred` | *violated*: `SyncedWasApplied` | finding 6 |
| `unrouted` | *violated*: `OnlyParkedRowsExpire` | finding 7 |
| `redelivered` | *violated*: `RedeliveryIsDropped` | finding 4 |
| `unresumed` | *violated*: `NextLaunchResumes` | finding 5 |

| Property | Of | What could break it |
|---|---|---|
| `NothingLostBehindCursor` | `RemoteMerge` | a change deferred for a pending edit, refused by the guard or fetched before a pairing, with the cursor already past it |
| `UnackedEditUntouched` | `RemoteMerge` | a merge, drain, heal or answer that does not see an edit made since its fetch |
| `OutageKeepsRows` | `DiagnosticsOutbox` | the age bound on a row of an outage, of a kind both drainers route; one drainer removing what the other is refused |
| `ScreenSettlesOnRow` | `ChapterActions` | an intent left over the row by a failed or overdue write, or a row version the list skipped |
| `CoverStays` | `CoverSweep` | a death between two file operations, the inbox adopted twice, an answer for a cover replaced meanwhile |
| `ProbesConverge` | `AnimeFolders` | a probe that hits where the walk matches nothing, at the bound of its depth (an older walk that publishes after a newer one is not what it catches) |
| `AwakeWhileWorking`, `HolderKeepsLease`, `InFlightClears` | `NativeAttempt` | watchdog, work thread and start command around one another |
| `TriggersMatchPairing`, `SomebodyTriggers` | `BackgroundTriggers` | a prompt answered after an unpairing; a kill or a reboot between two ticks, with alarm and floor each leaving the work to the other |
| `RowOfThisRuntime`, `ProjectionsInOrder` | `RuntimeStatus` | a release or a reading that ends after the next enabling |
| `EveryHistoryPrepares`, `RatingsSurviveMove` | `SchemaRepair` | a repair or migration against a column that is, or is not, there; a death inside the move |
| `StartsOrExplains`, `OnlyDamageIsDeleted` | `StartupRecovery` | a preparation that hangs, a remount, a reset cut short |
| `ListensAgain` | `WebSocketListener` | an old socket's close emptying the new session's reference |
| `OnlyAskedFor` | `DeviceSetup` | the effect, the camera or a remounted screen starting a pairing again; a re-pair pairing by the link of the launch |

Bounds and why they suffice. In `Outbox` every ordering property relates two rows
of one key, so two rows show it: a rating and an edit chained behind each other, or two
rows of two animes in one batch. The claim lives two ticks of a clock that
reaches 2, so a claim made at 0 can expire, be taken over and be held again; the
chain budget of one tick lets a round chain or not. Two bridge changes are both
edits, or an edit and a foreign one. One late request at a time is enough for a
late effect after any other. The conflict cap is 2 where it is exercised, so that
one conflict and the last one differ. `BatchLimit` 2 never binds with one key and
binds nothing in two; what it orders is covered by the order properties. In `refusals`
the clock stands still: claims do not expire there. That is more than a bound. A user who
queues an older given-up row again while a newer one of its key stands under an expired
claim puts it in front of what may still be confirmed, and order is no longer the queue's;
`keep_local` waits for a live claim only. Claims, lost answers and late requests without
the choices are the subject of `takeover` and `sync`, and of the theorems; that a cycle whose
claim expired leaves nothing claimed rests on the theorem `LeavesNothingClaimed`. With
two animes the run explores only states without foreign edits, lost names and
keep_bridge (`Bounded`, the only CONSTRAINT of the project); with one it has them all.

`SyncFlush` needs two requests for a run and its follow-up. `RemoteMerge` has
one anime, three changes (one merged, one staged, one newer), one edit and two
requests at once: a change and what makes it stale. `DiagnosticsOutbox` has two
observations and a cap of one, so that one is shed while the other is in a pass;
`ChapterActions` two presses (one queued behind the other) on a row at either
end of its chapters; `CoverSweep` two versions of one cover, two tasks, two
passes and one death; `AnimeFolders` three folders of two names at two depths and
two walks. `NativeAttempt` has two attempts (one stuck, one queued behind it) and
a clock that passes a budget and a lease; `BackgroundTriggers` two registrations
and two outages; `RuntimeStatus` four readings, enough for a settle pass beside a
quick disable; `SchemaRepair` any subset of the late tables with one column lost
and one death; `StartupRecovery` two launches; `WebSocketListener` two sessions
and three sockets; `DeviceSetup` one pairing payload beside a text that is none, and
two pairings: one that leaves a link behind and the one that might take it, or
two that overlap. The `Max...` constants are the only artificial bounds; each is
a guard of the action that would exceed it.

Deadlock is checked where nothing but work bounds the behaviour: in `Outbox` a
runtime can always begin another cycle, in `SyncFlush` the dispatcher can always
be mounted or unmounted. The other instances are capped and may stop, so their
cfgs turn the check off.

The proofs do not have these bounds: their theorems are about any value of the
constants that the named assumptions of the modules allow.

### Fairness

For the outbox, `sync` assumes weak fairness of `Tick` (time passes) and of `Advance(r)` for
every runtime: a runtime that can take its next step takes one. R-8 justifies it
- the foreground tick, the floor worker and the service trigger it again and
again - and every request ends in an answer or its 10 s timeout. Nothing is
assumed of the bridge, the user or the faults.

For the dispatcher, it assumes weak fairness of each run's steps, of its settling and of the
rest of a mutation after its commit: the JS thread runs its continuations, and
every request and statement a cycle awaits ends or times out. Nothing is assumed
of mounting, pairing, the native engine or new requests.

`runtime` assumes, while the component is the one that moves: time passes, the
watchdog's handler thread runs and a thread that began to report goes on (nothing
of the work thread, which may hang); the boundary's timers fire and its effects
run (nothing of opening, preparing or the ports of a reset, which may hang); the
reconnect timer fires, the network settles a connection one way or the other,
and reading the config does not throw for ever (the only strong fairness).

### Findings

1. **The native chain does not re-check its claim.** ADR 009:150: "The holder
   re-checks its claim before each send." `sendRound` (`SyncEngineCycle.kt:295`)
   sends a chained round as it stands, although the season ratings posted since
   the round was claimed may have outlasted the 60 s claim. TLC shows native
   sending a row JS has taken over. On the same instance `NoStaleOverwrite` is
   violated too: native reads the newer token and overwrites the newer edit.
2. **A throw between the claim and the try.** `reconcile.helpers.ts:32-35` says
   that nothing is left claimed by a cycle that is no longer running when the
   pass "returns or throws". The backlog count at lines 68-70 runs after the claim and
   before the try at line 106. When it throws, the rows stay `processing` until
   the claim expires (`sync` shows that they do come back).
3. **`online` over rows the native engine holds.** `sync-facade.helpers.ts:102`:
   "a row still queued for retry keeps the cycle pending". The total that decides
   it (`reconcile.helpers.ts:68-70`) is read only when the cycle claimed a row.
   With every waiting key held by the native engine the batch is empty, the total
   is taken as 0, and the cycle records success and publishes `online`.
4. **A re-delivery after a deletion is not dropped.** `remote-change-drain.helpers.ts:45-46`
   promises that "the staleness guard drops re-deliveries". The guard is a column
   of the anime's row and goes with it: when a drain has applied a deletion, a JS
   answer asked for before it merges its older update into no row, and the
   deleted anime is back with the cursor past its deletion.
5. **No launch resumes a reset.** `recovery.helpers.ts:52-53`, and
   `docs/mobile-database-recovery.md:194-196`, promise that the next launch
   resumes a reset the process died in. Only a reset the user starts again reads
   the intent; a launch prepares whatever file is there.
6. **A row confirmed by somebody else's edit.** `reconcile-confirmation.helpers.ts:26`
   asks for "real evidence of having landed on the bridge". When the answer does not name
   the row, lines 55-67 take any non-delete change of the anime that lists its fields as
   such evidence, whoever made it: the value is compared only for fields it does not list.
   TLC shows a desktop edit of the same field marking a row `synced` that the bridge never
   took. It takes a bridge that leaves a row unnamed; `reconcile.schema.ts:44` reads a
   malformed list as an empty one.
7. **A kind only one drainer routes.** `SyncEngineDiagnosticsCourier.kt:51` has the
   native registry "mirroring" the JS one; it lacks `screen_stall`. The courier sees such
   a row as parked and reaps it past the age bound, although JS would post it and no
   bridge ever judged it, against `sync-diagnostics-flush.constants.ts:116-117`.
   `OutageKeepsRows` is what holds: rows of a kind both route survive any outage.

Smaller slips the modelling met. A device left at migration 0000 or 0001 has no
`sync_runtime_status`, which no repair creates, against
`client.helpers.ts:326-329`; the histories of `SchemaRepair` begin at 0002.
`SyncEngineCycle.kt:37-39` calls conflict exhaustion deferred,
`SyncEngineResponseApplier.kt:81-103` implements it. A manifest that is only in
its temporary copy is lost by a second death, since `writeCoverManifest` deletes
that copy first (`CoverStays` leaves it out). A screen opened to re-pair takes the
first link it gets for the launch's (`use-setup-screen.ts:166`), so a fresh link
opened then does nothing, against `docs/specs/07-setup-device.md:33`.

## 4. Proofs

`OutboxProofs` proves, for every set of animes, every number of rows, every
claim time, batch size, conflict cap and every choice of faults and refusals:

* `TypeCorrect`: `Spec => []TypeOK`;
* `SendsOldestFirst`: `Spec => []OldestFirst`, if the user queues no given-up row again;
* `ConfirmsInOrder`: `Spec => []InOrder`, if the user queues no given-up row again;
* `ConflictsAreBounded`: `Spec => []ConflictBudget`;
* `CursorNeverBack`: `Spec => CursorForwardOnly`.

The hypothesis (`NeverRequeues`) is needed: `keep_local` puts an older row back in
front of what may already be confirmed, so `InOrder` is false with it, and of what may
stand under an expired claim, so `OldestFirst` is. `KeepBridge` only takes rows away.

The assumptions are `OperationLogAssumption` and `OutboxAssumption`: numbers are
numbers, there is at least one anime, and the cap is positive.

The argument. `OldestFirst` and `InOrder` are not inductive: inserting a row
behind the others keeps them only because ids are given out in order, and a
claim keeps `InOrder` only because it takes the oldest row. The inductive
invariant `QueueOrdered` is their conjunction (under that hypothesis) with `FillsUp`
(absent rows come after all others) and the conflict budget, stated of one log,
`Ordered(l)`. Every statement of `OperationLog` lets rows go (`LetsGo`: a processing
row is settled or released, one that waits or was given up deleted, nothing else moves)
or takes oldest rows (`TakeOrdered`), and both kinds keep `Ordered`; queueing again keeps
what does not hang on the hypothesis, since the count is fresh. The
actions compose these statements, so each of the action lemmas follows the order
of the statements in the transaction.

`OutboxCycleProofs` goes on, under the same assumptions, to what the cycles do to
the rows:

* `ConfirmsOnEvidence`: `Spec => []SyncedOnEvidence`, with every fault, refusal and choice;
* `ConfirmsOnlyApplied`: `Spec => []SyncedWasApplied`, if the bridge names every row of a
  request (`"silent" \notin Refusals`): without that it is false, finding 6;
* `ImplementsTheQueue`: `Spec => ImplementsQueue`, the refinement of
  `DurableQueue`, with every fault and every refusal, if the user queues no given-up row
  again. With both choices TLC checks it (`refusals`), where no claim expires;
* `LeavesNothingClaimed`: `Spec => []NothingLeftClaimed`, if the process does not
  die and the backlog count does not throw. Both assumptions are needed: a
  process that is gone cannot release anything, and the throw is finding 2;
* `RefusesOneRow`: `Spec => NoCollateral`, without further hypotheses: it is about
  the end of a request, where a 4xx gives up one row.

That a row becomes `synced` only on evidence of that very row depends on where a cycle
keeps the row between its reads. `CycleInv` adds, for every cycle, `InShape`: the
rows in its lists exist and are in the list of their kind (`KnowsItsRows`), each
list is empty at the steps where the code has used it up (`KeepsItsLists`), an
answer has a verdict for every row of its request and confirms only what the
bridge took or showed (`IsAnswered`), and whatever is still held is still to be dealt with
(`HeldIsToDo`), which is what makes the release at the end complete. Other
runtimes disturb none of it: `Works` says that a step touches a row only by
claiming it or under the claim it was held by. The refinement takes every step of a runtime, key
by key (`QueueStep`): either rows of the key fade (stay, or are given up), or the
oldest queued one is delivered and the given-up edits it makes up for go. The
second needs `Ordered`, and `RatingsAreDeadLetters`: a rating is never given up as
a conflict, so the delivery of a later rating has none of those to clear.

`OutboxBridgeProofs` relates the rows to what the bridge took in:

* `TokensForward`: `Spec => TokenForwardOnly`;
* `KeepsTheNewest`: `Spec => []NoStaleOverwrite`, given `Undisturbed`;
* `SendersHold`: `Spec => HolderSends`, given `Undisturbed` and `ChainsInTime`;

each given that the user leaves given-up rows alone (`Choices = {}`). Both choices write a
token that may be older than the stored one on purpose, and `keep_local` sends an old row
again because the user wants it to win: with them the properties are not promised.

`Undisturbed` says that no process is frozen between two local reads (the fault
`"suspend"`) and that, beside the native runtime, rows are edits and no request is
answered 4xx. Crashes, throws, expiring claims, late requests and the other refusals
stay; with JS alone so do ratings and 4xx. The hypotheses are needed: the first is
the limit of the protocol named in section 2; ratings, or messages sent one by one
after a 4xx, let a claim expire under rows that native then sends without looking
(finding 1). `ChainsInTime` is what the constants say: the chain's budget of 20 s is
within the 60 s of a claim.

A token can go back only if an answer is written after a newer one. A runtime
writes the token of an anime only while it holds a row of it, and `OldestFirst`
gives one runtime at a time such a row; so while a cycle still holds a row it has an
answer for, the stored token is no newer than the answer (`AnswersNewer`), and
nothing stored is ahead of the bridge (`TokensKnown`).

`NoStaleOverwrite` needs the whole story of a row, `BridgeInv`. Whatever is being
sent, was abandoned in flight or taken in has left the older rows of its anime
behind it (`ChosenInOrder`), and no cycle works on two rows of one anime
(`ListsApart`). A row that another runtime took over and delivered past may still
go out, so it must lose at the bridge: when its tokens are read, either it is still
the newest, or the stored token is behind the bridge's and no answer of the other
runtime can put it right first (`ReadsInTime`, where `TimeMayPass` is used); from
then on its base is behind the bridge's token (`InFlightLoses`), which only grows.
`BridgeKnows` rules out a request with no base at all.

`SendersHold` adds `NativeHoldsNext`: what native sends next without looking is held
under a claim that is live. The chain takes rows only within its budget, no time
passes until they go out, and nobody touches a row under a live claim
(`LiveIsLeft`).

`SyncFlushProofs` proves, for every set of animes and triggers and every number of
requests, from `SyncFlushAssumption` (there is an anime; a trigger is not a
mutation):

* `FlushTypeCorrect`: `Spec => []TypeOK`;
* `CyclesNeverOverlap`: `Spec => []OneCycle`, on which the one JS cycle at a time
  of `Outbox` rests. `OneCycle` alone is not inductive, for a request only looks
  at the entry of `SYNC_FLUSH_STATES`; `OnlyTheFlight` adds that whoever is under
  way is that entry. It is kept because `startFlush` runs only when the entry is
  empty, or when `settleFlush` has just ended the run that was in it;
* `FlushInvariant`: `Spec => []FlushInv`, and from it
  `CallersGetTheirRead`: `[]AnsweredAfterRead`, `HealsAreServed`: `[]HealServed`,
  `OnlineIsHonest`: `[]OnlineOverReadWork`, `EvidenceIsOfThisBridge`:
  `[]ContactOfThisPairing`.

The four are conjuncts of one story, so they share an invariant. A run's demand
is as strong as that of each call it serves (`DemandsMerged`) and its progress
accounts for the heal (`HealsDone`); once it has read the log, what it saw holds
every mutation it serves (`ServedAreSeen`), because a call is absorbed by a
follow-up that has not begun, never by the run under way. The owner of the
connection attempt has seen all work whose caller went on (`OwnerHasRead`), since
telling the dispatcher of later work takes the attempt away; therefore `online`,
which only a finished owner shows (`OnlineIsOver`), covers no unread row.
`OfThisPairing` excepts the moment between an unpairing and the live query that
notices it.

`BackgroundProofs` proves, of the native attempts and for every number of attempts, service instances and
instants:

* `LeaseKept`: `AttemptSpec => []HolderKeepsLease`;
* `AwakeForIts`: `AttemptSpec => []AwakeWhileWorking`;
* `AttemptTypes`: `AttemptSpec => []AttemptTypeOK`.

The journal has one row of an attempt at most (`OneRowEach`), because a row that is
journaled takes the place of the last one, and therefore no more rows than there are
attempts (`JournalIsShort`, by counting an injection). The model says where the row is
instead of filtering, so that the prover can follow.

The lease is kept because the one work thread is inside one attempt at most
(`OneInside`), whatever the watchdog has told the caller meanwhile. The wake lock
is held because the in-flight guard of an instance stands until its one
unreported attempt is reported (`OneInFlight`), and because attempts are started
in order by instances that were created (`StartedInOrder`, `CallersExist`).

and of what triggers them, for any number of registrations and outages:

* `TriggersTyped`: `TriggersSpec => []TriggersTypeOK`;
* `TriggersMatch`: `TriggersSpec => []TriggersMatchPairing`;
* `TriggersServed`: `TriggersSpec => []SomebodyTriggers`.

What decides the first is the order of generations: an open prompt is of the past
once the strategies are off (`PromptsAreOfThePast`), so its late answer is
recognised; the ticker follows the strategies unless the prompt of this very
generation is open (`TickerFollows`); the last operation queued for the floor is
the last one asked for (`FloorFollows`). `ChainWhileUp` carries the second: the
chain of alarms is whole, or a broken link is known and the floor has it.

`StartupProofs` proves, for every number of launches:

* `StartupTypeCorrect`: `StartupSpec => []StartupTypeOK`;
* `DeletesOnlyDamage`: `StartupSpec => OnlyDamageIsDeleted`. The step that deletes
  does not look at the file, so the action property needs an invariant of how it
  was reached: `ResetsOverDamage` says that a reset only stands over a failure
  classified as corruption, and that this cause means a damaged file or one
  without data; `PreparesAFile`, that a preparation under way has a file and
  comes from a launch or a retry, never from beside a reset. `StartupInv` is
  their conjunction with the type.

and, of the rest of a launch, for any schema history and any number of launches,
texts, pairings, sessions and sockets:

* `AnyHistoryPrepares`: `RepairSpec => []EveryHistoryPrepares`, with the type,
  `RepairTypes`. No statement can be refused: a file has no table at all or the ones
  every installed version had (`NothingOrBase`), so the ledger is empty where the
  migrations must run and pinned where they must not (`LedgerPinned`); each step that
  is past has made the tables and columns it is there for (`StepsTookEffect`), and no
  later step or interruption takes them away, since a transaction drops only what is
  retired (`OpenWork`). These and the type are `HistoryInv`. Columns may be missing in
  any number, not only the `MaxMissing` of the run;
* `RatingsMoved`: `RepairSpec => []RatingsSurviveMove`. The move is one transaction
  that any step may interrupt. What it has inserted is the mapped head of the queue
  (`InsertedInOrder`), nothing outside the step of the move, so that a commit or an
  interruption finds the queue whole and the log empty, or the queue gone and the log
  complete (`AllOrNothing`). The queue is the two rows the model gives it, of any
  kind and status;
* `PairsOnRequest`: `DeviceSpec => OnlyAskedFor`, from `SetupAssumption`. An effect
  that renders again must not find a link or a code to pair by that nobody offered
  since: one the screen has not handled is still on offer, or is what a screen opened
  to re-pair takes for the launch's and drops (`LinksAreOffered`,
  `CodesAreOffered`), and the tabs leave nothing behind for the next screen
  (`TabsAreClean`);
* `DeviceTyped` and `ListenerTyped`: the types of the pairing screen and of the
  socket's listener. They carry two facts: on the tabs the device is configured, and a
  reconnect is pending only for the session that is mounted.

`RemoteMergeProofs` proves, for any animes, changes, edits, cycles of both runtimes,
drains, heals, choices, crashes and pairings:

* `RemoteMergeTypes`: `Spec => []TypeOK`;
* `MergeInvariant`: `Spec => []MergeInv`, and from it
  `NothingIsLost`: `[]NothingLostBehindCursor`;
* `UnackedEditIsUntouched`: `Spec => UnackedEditUntouched`.

That nothing is lost is a statement about the past: the cursor moved over a change, and
the table must still show it or what came after. The invariant cuts it at the guard of
an anime (`last_applied_change_ms`): every change up to the guard is shown in the
columns it names (`GuardShows`), and every change the cursor has passed is staged, or
behind the guard, or under an edit of the user (`CursorShows`). Keeping these takes
what each writer knows when it writes. Whatever was fetched is a prefix of the feed, and
nothing that is staged is later than it (`RequestsBehind`, `StagedIsBehind`): so a heal
or a choice does not go behind what waits. The echo of an applied edit comes in the page of
the same answer and is later than the guard it meets (`EchoesAwaited`): so the columns
an edit kept back are written when it is confirmed. What is there comes from the feed
(`ComesFromFeed`), and no change of an anime follows its deletion
(`NothingAfterDelete`). An unpaired app has no rows, and what is staged from before is a whole
stretch of the feed (`UnpairedIsQuiet`); a pairing runs with nothing beside it
(`PairingIsAlone`). The merge of a page is a fold, which `MergedUpTo` spells out as a
recursive function, so that one change at a time can be taken from it.

`ContentProofs` proves, for any number of observations, cap, batch and age bound:

* `DiagnosticsTyped`: `DiagnosticsSpec => []DiagnosticsTypeOK`;
* `DiagnosticsKept`: `DiagnosticsSpec => []OutageKeepsRows`;

and for any roots, names, depth of the walk and number of walks:

* `FoldersTyped`: `FoldersSpec => []FoldersTypeOK`;
* `ProbesEnd`: `FoldersSpec => []ProbesConverge`.

`DiagnosticsKept` needs that a verdict a drainer has yet to act on is one the bridge gave on
the row at the head of its batch (`VerdictsOfCandidates`). The batch of a pass is a set
and its head the least of it: the code reads the rows by age, and the order is that of
their numbers. The last is about the matching itself. The
longest known prefix of the path has one match, and if the folder below it were in
the index, that folder would match the prefix one name longer (`RelatedBelow`), or
its name would have been found outright; a folder no deeper than the walk goes and on
disk is in the index (`ExpectedIsNew`).

Of the covers, for any animes, images, queue of tasks and number of passes:

* `CoverTypes`: `CoverSpec => []CoverTypeOK`;
* `CoversStay`: `CoverSpec => CoverStays`. No file of the manifest is safe by itself:
  the pass deletes what its own manifest does not name and replaces the manifest
  through a copy. So the invariant follows the entries in memory: from the moment
  they are asked for they name a file for every cover the disk has, unless the anime
  left the list or its source changed (`Carried`); the copy, and at the deletion the
  manifest itself, are those entries (`CoverCarried`).

Of the chapter buttons, for any number of presses, chapters and remote writes:

* `ScreenSettles`: `ChapterSpec => []ScreenSettlesOnRow`;
* `ChapterTypes`: `ChapterSpec => []ChapterTypeOK`.

That the card shows the row in the end depends on three orders that must agree. Writes
settle in the order of the gestures (`WritesInOrder`): the door holds later ones behind
earlier ones. The accepted intents are of rising gestures and form a chain from the row
the list rendered last, each patched by its own gesture from where the one before it
ends (`EntriesInOrder`); this is what the fold computes. The row is where the
chain is after the intents whose writes are over, or another writer moved it while
nothing was shown and what still waits leaves it there (`RowFollows`), and what the list
has read of it is an earlier value of the same chain. When nothing waits, all intents are
committed and the row is the end of the chain, which is what the card shows. Their
conjunction with the shapes of the values is `ChapterInv`. `ChapterTypes` adds how far the
chapters can be counted (`RowsBounded`) and that a caller which waits has heard no verdict
and one that was told heard one (`Reported`).

Of the runtime status row, for any number of projections, releases and attempts:

* `StatusTyped`: `StatusSpec => []StatusTypeOK`;
* `StatusOrdered`: `StatusSpec => ProjectionsInOrder`;
* `StatusCurrent`: `StatusSpec => []RowOfThisRuntime`.

The write door keeps the order readings were answered in (`InOrder`). The newest
projection is unanswered, at the door, or the one in the row unless a write was
lost (`NewestIsSomewhere`), and while the hook has nothing under way it is of the
runtime as it is (`NewestIsCurrent`); a release beside a runtime that is on is one
the registration waits for (`ReleaseBeforeRegistration`).

The compositions. In `MCContent` and `MCRuntime` a step of one component leaves the
variables of the others alone, so a behaviour of either is one of each of its components
(`ContentIsEach`, `RuntimeIsEach`), and what is proved of a component holds of the
specification the run checks:

* `ContentTypes`: `ContentSpec => []ContentTypeOK`; `RuntimeTypes`:
  `RuntimeSpec => []RuntimeTypeOK`;
* `ContentKeeps` and `RuntimeKeeps`: every safety property of the `content` and of the
  `runtime` run, together.

Recursive functions. What the fold of the intents, the fold of a merge and the steps of a
chain return for every length is proved by the least counterexample: a non-empty set of
naturals has a least element (`LeastNatural`, from the well-foundedness of `<`), at which
the fact fails although it holds just before. The models write these definitions as
recursive functions, and choose by place or by least element where a filter or a sort
would do, since those are recursive operators of which the prover knows nothing. The
refactored definitions are `MergedUpTo`, `Echoed` and `DriftAfter` of `RemoteMerge`, `Fold` of
`ChapterActions`, `AddColumn` and `DropDead` of `SchemaRepair`, `OldestStored` of
`DiagnosticsOutbox`, and `Without` of `NativeAttempt`; the runs check them.

Only model-checked: liveness (`NeverStuck`, `EveryCallerAnswered`, `SyncingEnds`,
`InFlightClears`, `StartsOrExplains`, `ListensAgain`), which is out of the prover's reach.
Every invariant and every action property of a passing run is stated by a theorem, seven of
them (`OldestFirst`, `InOrder`, `ImplementsQueue`, `NothingLeftClaimed`, `TokenForwardOnly`,
`NoStaleOverwrite`, `HolderSends`) under the hypotheses named above. The queue with
`keep_local` is only model-checked too.

## 5. What is left

1. A press made after an absorbed chain was dropped (section 2, `ChapterActions`): an
   instance with four presses would show it, and what the card should do then is open.
2. A second database object for the same file: two JS cycles, two preparations.
3. The season of a rating key (an anime has one rating key here), the choices a reason
   leaves, and what order a queue with a claim that expires under keep_local should keep.
4. The hand-over between service and floor by presence flags.

### Not modelled

* Screens but the pairing screen, settings, theme, copy (the visible status too),
  the screen stall probe: presentation, without state that others rely on.
* Config plugins, scripts, build files: they do not run in the app.
* HTTP clients, response parsers and sealed diagnostic bodies: conversions; the
  models begin where their result is classified.
* Retention pruning, journal pruning: they remove rows nothing here reads again.
* A wall clock set back, and a process frozen between two reads where a run does
  not say so: the code makes no promise for them (hazards list them).
