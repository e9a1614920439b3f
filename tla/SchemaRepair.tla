---------------------------- MODULE SchemaRepair ----------------------------
(* The preparation of the database file of a launch: the migration ledger,  *)
(* the migrator, the ordered repair steps, the move of the retired rating   *)
(* queue, the validation and the readiness stamp.  A statement fails or the *)
(* process dies anywhere, and the next launch prepares again; two           *)
(* preparations never overlap.  A list of columns stands by its first and   *)
(* last one; types, defaults, the backfill of the cursor and the index are  *)
(* left out, and damage of the file is StartupRecovery's.                   *)
EXTENDS Naturals, Sequences, SequencesExt, FiniteSets

CONSTANTS
  MaxMissing,      \* bound: columns an installed device lacks
  MaxInterrupt     \* bound: statements that fail and processes that die

ASSUME RepairAssumption == MaxMissing \in Nat /\ MaxInterrupt \in Nat

VARIABLES
  schema,       \* the tables and columns of the file
  ledger,       \* __drizzle_migrations against the newest of the journal
  stamped,      \* user_version is the expected one
  queue,        \* the rows of season_rating_queue, or NoQueue without the table
  log,          \* the rows the move inserted in operation_log
  at,           \* the step the preparation is in
  open,         \* the uncommitted work of an exclusive transaction
  rated,        \* history: the rows the queue held
  interrupts    \* counts towards MaxInterrupt

preparation == <<schema, ledger, stamped, queue, log, at, open>>
repairVars == <<preparation, rated, interrupts>>

BaseTables == {"animes", "bridge_config", "operation_log", "sync_runtime_status"}
RepairTables == {"pending_remote_changes", "sync_cycle_lock", "app_preferences"}

\* The columns added after their table first shipped.
ColumnsOf ==
  [bridge_config |-> <<"last_changelog_id", "is_sync_telemetry_enabled", "season_mode">>,
   sync_runtime_status |-> <<"execution_mode", "last_cycle_id">>,
   animes |-> <<"last_applied_change_ms", "season">>,
   operation_log |-> <<"conflict_attempt_count", "unresolved_reason">>,
   pending_remote_changes |-> <<>>,
   sync_cycle_lock |-> <<"fence">>,
   app_preferences |-> <<"anime_folders_root_uri">>]

Added(tables) == UNION {ToSet(ColumnsOf[t]) : t \in tables}
DeadColumns == <<"is_cycle_active", "last_pending_row_count">>
Retired == ToSet(DeadColumns) \cup {"active_season_cache"}
Tables == BaseTables \cup RepairTables

\* validatePreparedSchema.
Whole(features) ==
  Tables \cup (Added(Tables) \ {"last_changelog_id", "execution_mode"}) \subseteq features

\* What a fresh install's migrations leave: everything but what only repairs create.
Migrated == BaseTables \cup {"pending_remote_changes"} \cup Added(BaseTables)

NoQueue == <<"absent">>
NoWork == [on |-> "nothing", inserted |-> <<>>, dropped |-> {}]
QueuedRatings == [rating : {"first", "second"}, status : {"syncing", "failed"},
                  kind : {"unreachable", "conflict"}]

\* The order of prepareDatabaseSchema.
\* Mutant: the queue moves before operation_log has its columns.
PipelineMovingEarly ==
  <<"ledger", "migrate", "bridge_config", "sync_runtime_status", "dead", "animes", "queue",
    "operation_log", "pending_remote_changes", "cache", "sync_cycle_lock",
    "app_preferences", "validate">>

Pipeline ==
  <<"ledger", "migrate", "bridge_config", "sync_runtime_status", "dead", "animes",
    "operation_log", "pending_remote_changes", "queue", "cache", "sync_cycle_lock",
    "app_preferences", "validate">>

StepAfter(step) ==
  Pipeline[1 + CHOOSE i \in 1 .. Len(Pipeline) - 1 : Pipeline[i] = step]

RepairTypeOK ==
  /\ schema \subseteq Tables \cup Added(Tables) \cup Retired
  /\ ledger \in {"absent", "empty", "behind", "newest"} /\ stamped \in BOOLEAN
  /\ (queue = NoQueue \/ queue \in Seq(QueuedRatings))
  /\ at \in ToSet(Pipeline) \cup {"closed", "ready", "refused"}
  /\ open.on \in {"nothing", "dead", "queue"} /\ (open.on # "nothing" => at = open.on)
  /\ interrupts \in 0 .. MaxInterrupt

\* Any installed history since 0002: the columns and repair tables some launch did not get,
\* with or without what later versions retired, and any ledger.
Installed ==
  /\ \E tables \in SUBSET RepairTables, old \in {{}, Retired} :
        \E lost \in SUBSET Added(BaseTables \cup tables) :
          /\ Cardinality(lost) <= MaxMissing
          /\ schema = ((BaseTables \cup tables \cup Added(BaseTables \cup tables)) \ lost) \cup old
  /\ ledger \in {"absent", "empty", "behind"} /\ stamped \in BOOLEAN
  /\ \E a, b \in QueuedRatings :
       /\ a.rating = "first" /\ a.kind = "conflict" /\ b.rating = "second" /\ b.status = "failed"
       /\ queue \in {NoQueue, <<a, b>>}

NothingInstalled ==
  schema = {} /\ ledger \in {"absent", "empty"} /\ stamped = FALSE /\ queue = NoQueue

RepairInit ==
  /\ NothingInstalled \/ Installed
  /\ rated = IF queue = NoQueue THEN <<>> ELSE queue
  /\ log = <<>> /\ at = "closed" /\ open = NoWork /\ interrupts = 0

----------------------------------------------------------------------------
(* The launch.                                                             *)

\* prepareForegroundDatabase: a stamp over a whole schema is trusted.
PrepareStarts ==
  /\ at = "closed" /\ at' = IF stamped /\ Whole(schema) THEN "ready" ELSE "ledger"
  /\ UNCHANGED <<schema, ledger, stamped, queue, log, open, rated, interrupts>>

\* A statement fails, a lock does not come, or the process dies: what was not committed is
\* gone, and a later launch prepares again.
Interrupted ==
  /\ at \in ToSet(Pipeline) /\ interrupts < MaxInterrupt /\ interrupts' = interrupts + 1
  /\ at' = "closed" /\ open' = NoWork
  /\ UNCHANGED <<schema, ledger, stamped, queue, log, rated>>

\* SQLite refuses a statement, and would on every launch.
Refused == at' = "refused" /\ open' = NoWork /\ UNCHANGED <<schema, ledger, queue, log>>

----------------------------------------------------------------------------
(* Migrations.                                                             *)

\* reconcileMigrationLedger: created, then seeded or pinned.
ReconcileLedger ==
  IF "animes" \in schema /\ ledger # "newest"
  THEN ledger' = (IF ledger = "absent" THEN "empty" ELSE "newest") /\ UNCHANGED at
  ELSE at' = StepAfter("ledger") /\ UNCHANGED ledger

Reconcile ==
  /\ at = "ledger" /\ ReconcileLedger /\ UNCHANGED <<schema, queue, log, open>>

\* The migrator, in one transaction: everything newer than the ledger, which on a file with
\* tables repeats an ADD COLUMN or a CREATE TABLE.
RunMigrator ==
  /\ at = "migrate"
  /\ CASE ledger = "newest" -> at' = StepAfter(at) /\ UNCHANGED <<schema, ledger, queue, log, open>>
       [] ledger # "newest" /\ schema = {} ->
            /\ schema' = Migrated /\ ledger' = "newest" /\ at' = StepAfter(at)
            /\ UNCHANGED <<queue, log, open>>
       [] OTHER -> Refused

----------------------------------------------------------------------------
(* Repairs.                                                                *)

\* ensureMissingColumns, in declaration order; ALTER needs the table.
AddColumn(table) ==
  LET missing == {i \in DOMAIN ColumnsOf[table] : ColumnsOf[table][i] \notin schema}
  IN  CASE missing = {} -> at' = StepAfter(at) /\ UNCHANGED <<schema, ledger, queue, log, open>>
        [] missing # {} /\ table \in schema ->
             /\ schema' = schema \cup {ColumnsOf[table][Min(missing)]}
             /\ UNCHANGED <<at, ledger, queue, log, open>>
        [] OTHER -> Refused

\* CREATE TABLE IF NOT EXISTS, with every column.
CreateTable(table) ==
  /\ schema' = schema \cup {table} \cup ToSet(ColumnsOf[table])
  /\ UNCHANGED <<at, ledger, queue, log, open>>

RepairTable ==
  /\ at \in Tables
  /\ IF at \in RepairTables \ schema THEN CreateTable(at) ELSE AddColumn(at)

\* dropDeadSyncRuntimeStatusColumns, all in one exclusive transaction.
DropDead ==
  LET dead == {i \in DOMAIN DeadColumns : DeadColumns[i] \in schema \ open.dropped}
  IN  /\ at = "dead"
      /\ IF dead # {}
         THEN /\ open' = [open EXCEPT !.on = "dead", !.dropped = @ \cup {DeadColumns[Min(dead)]}]
              /\ UNCHANGED <<schema, at>>
         ELSE schema' = schema \ open.dropped /\ open' = NoWork /\ at' = StepAfter(at)
      /\ UNCHANGED <<ledger, queue, log>>

DropCache ==
  /\ at = "cache" /\ schema' = schema \ {"active_season_cache"} /\ at' = StepAfter(at)
  /\ UNCHANGED <<ledger, queue, log, open>>

\* mapQueuedRating.
MapQueued(row) ==
  [rating |-> row.rating,
   status |-> IF row.status = "failed" /\ row.kind = "conflict" THEN "dead_letter" ELSE "pending"]

\* Mutant: every insert commits by itself.
InsertQueuedAutocommit(row) ==
  IF "unresolved_reason" \notin schema THEN Refused
  ELSE /\ log' = Append(log, MapQueued(row))
       /\ open' = [open EXCEPT !.on = "queue", !.inserted = Append(@, MapQueued(row))]
       /\ UNCHANGED <<schema, ledger, queue, at>>

\* The insert names the columns 0018 brought.
InsertQueued(row) ==
  IF "unresolved_reason" \notin schema THEN Refused
  ELSE /\ open' = [open EXCEPT !.on = "queue", !.inserted = Append(@, MapQueued(row))]
       /\ UNCHANGED <<schema, ledger, queue, log, at>>

\* moveSeasonRatingQueueIntoOperationLog: oldest first, and the table drops with the commit.
MoveQueue ==
  /\ at = "queue"
  /\ CASE queue = NoQueue -> at' = StepAfter(at) /\ UNCHANGED <<schema, ledger, queue, log, open>>
       [] queue # NoQueue /\ Len(open.inserted) < Len(queue) ->
            InsertQueued(queue[Len(open.inserted) + 1])
       [] OTHER -> /\ log' = log \o open.inserted /\ queue' = NoQueue /\ open' = NoWork
                   /\ at' = StepAfter(at) /\ UNCHANGED <<schema, ledger>>

\* The last statement is the stamp; a schema that is still short is not excused again.
Validate ==
  /\ at = "validate"
  /\ IF Whole(schema)
     THEN at' = "ready" /\ stamped' = TRUE /\ UNCHANGED <<schema, ledger, queue, log, open>>
     ELSE Refused /\ UNCHANGED stamped

RepairNext ==
  \/ PrepareStarts \/ Interrupted
  \/ /\ Reconcile \/ RunMigrator \/ RepairTable \/ DropDead \/ MoveQueue \/ DropCache
     /\ UNCHANGED <<stamped, rated, interrupts>>
  \/ Validate /\ UNCHANGED <<rated, interrupts>>

RepairSpec == RepairInit /\ [][RepairNext]_repairVars

----------------------------------------------------------------------------
(* Properties.                                                             *)

\* Whatever columns, tables and ledger a device was left with since migration 0002, and
\* wherever earlier launches stopped, no statement of a preparation is refused and what it
\* prepared validates: a refusal would repeat on every launch (reconcileMigrationLedger,
\* "startup fails identically on every launch afterwards").
EveryHistoryPrepares == at # "refused"

\* A rating of the retired queue is in the queue or in operation_log, never in both or in
\* neither, in the order it was queued; the ones the bridge refused stay refused
\* (moveSeasonRatingQueueIntoOperationLog, "all or nothing").
RatingsSurviveMove ==
  \/ queue # NoQueue /\ queue = rated /\ log = <<>>
  \/ /\ queue = NoQueue /\ Len(log) = Len(rated)
     /\ \A i \in DOMAIN rated :
          /\ log[i].rating = rated[i].rating
          /\ (log[i].status = "dead_letter") <=>
               (rated[i].status = "failed" /\ rated[i].kind = "conflict")

============================================================================
