-------------------------- MODULE StartupRecovery --------------------------
(* A launch of the app, from the splash to the first route or a failure    *)
(* card, and the reset of a damaged database, which has to survive the     *)
(* death of the process at any step.  What the database file holds is      *)
(* reduced to what startup tells apart; retries of a busy preparation, the *)
(* native writers that a reset cancels and every wording are left out.     *)
EXTENDS Naturals

CONSTANT MaxLaunch   \* bound: launches of the process

ASSUME LaunchAssumption == MaxLaunch \in Nat \ {0}

VARIABLES
  file,       \* the application database on disk
  intent,     \* the durable reset intent
  launches,   \* counts towards MaxLaunch
  phase,      \* the startup phase; "closed" when no process runs
  cause,      \* classification of the startup failure, "none" when there is none
  prep,       \* where the preparation of the provider's database is
  fonts,      \* whether the fonts loaded
  overdue,    \* the provider missed its deadline
  completed,  \* hasCompletedStartupRef
  splash,     \* the native splash still covers the screen
  entered,    \* the router was sent to the first route
  reset,      \* what became of the reset
  confirming, \* the confirmation dialog is open
  stage       \* the stage the reset is in

memory == <<phase, cause, prep, fonts, overdue, completed, splash, entered, reset, confirming, stage>>
startupVars == <<file, intent, launches, memory>>

\* What SQLite's own failures and the schema checks are classified as.
Classes == {"busy", "corruption", "incompatible_schema", "schema_validation", "unknown"}
Stages == {"intent_read", "intent_write", "stop_and_close", "database_probe",
           "database_delete", "database_prepare", "intent_clear"}

\* version: against the journal length; whole: every table and column is there.
Files == [version : {"lower", "stamped", "newer"}, whole : BOOLEAN,
          damaged : BOOLEAN, data : BOOLEAN]
NoFile == [version |-> "absent", whole |-> FALSE, damaged |-> FALSE, data |-> FALSE]
NewFile == [NoFile EXCEPT !.version = "lower"]

StartupTypeOK ==
  /\ file \in Files \cup {NoFile} /\ intent \in BOOLEAN
  /\ launches \in 0 .. MaxLaunch
  /\ phase \in {"closed", "opening", "preparing", "loading_config", "ready", "fatal"}
  /\ cause \in Classes \cup {"none"} /\ (cause # "none" <=> phase = "fatal")
  /\ prep \in {"idle", "check", "migrate", "validate"}
  /\ fonts \in {"loading", "loaded", "failed"}
  /\ overdue \in BOOLEAN /\ completed \in BOOLEAN
  /\ splash \in BOOLEAN /\ entered \in BOOLEAN
  /\ reset \in {"not_started", "declined", "in_flight", "failed", "completed"}
  /\ confirming \in BOOLEAN
  /\ stage \in Stages \cup {"none"} /\ (stage # "none" <=> reset = "in_flight")

Closed ==
  /\ phase = "closed" /\ cause = "none" /\ prep = "idle" /\ fonts = "loading"
  /\ overdue = FALSE /\ completed = FALSE /\ splash = TRUE /\ entered = FALSE
  /\ reset = "not_started" /\ confirming = FALSE /\ stage = "none"

\* The database a launch may find: none, a good one, one of an older or a newer app, one
\* with a column missing under its stamp.
StartupInit ==
  /\ file \in {NoFile,
       [version |-> "stamped", whole |-> TRUE, damaged |-> FALSE, data |-> TRUE],
       [version |-> "stamped", whole |-> FALSE, damaged |-> FALSE, data |-> TRUE],
       [version |-> "lower", whole |-> FALSE, damaged |-> FALSE, data |-> TRUE],
       [version |-> "newer", whole |-> TRUE, damaged |-> FALSE, data |-> TRUE]}
  /\ intent = FALSE /\ launches = 0 /\ Closed

----------------------------------------------------------------------------
(* What the boundary shows.                                                *)

\* resolveStartupFailureState: a database failure, then the fonts', then the provider's.
\* A deadline that passed is remembered until the process ends.
BoundaryFailure ==
  IF cause # "none" THEN cause
  ELSE IF fonts = "failed" THEN "font_loading"
  ELSE IF overdue THEN "provider_readiness" ELSE "none"

\* Terminal content replaces the provider, and so does waiting for the fonts.
ProviderMounted == BoundaryFailure = "none" /\ fonts = "loaded"

\* Mutant: a schema that does not validate authorizes the reset too.
AuthorizesResetOfSchema(class) == class \in {"corruption", "schema_validation"}

\* decideDatabaseReset.
AuthorizesReset(class) == class = "corruption"

\* createStartupRecoveryState.
RecoveryKind ==
  CASE reset = "in_flight" -> "resetting"
    [] reset = "completed" -> "reset_completed"
    [] reset = "failed" -> "reset_failed"
    [] OTHER ->
         IF cause = "none" THEN "none"
         ELSE IF AuthorizesReset(cause)
              THEN IF reset = "declined" THEN "no_reset" ELSE "damage"
              ELSE IF cause = "busy" THEN "transient" ELSE "no_reset"

----------------------------------------------------------------------------
(* The process and its timers.                                             *)

Launch ==
  /\ phase = "closed" /\ launches < MaxLaunch /\ launches' = launches + 1
  /\ phase' = "opening"
  /\ UNCHANGED <<file, intent, cause, prep, fonts, overdue, completed, splash,
                 entered, reset, confirming, stage>>

\* The process ends, at whatever step; the disk stays.
Dies ==
  /\ phase # "closed" /\ phase' = "closed" /\ cause' = "none" /\ prep' = "idle"
  /\ fonts' = "loading" /\ overdue' = FALSE /\ completed' = FALSE
  /\ splash' = TRUE /\ entered' = FALSE
  /\ reset' = "not_started" /\ confirming' = FALSE /\ stage' = "none"
  /\ UNCHANGED <<file, intent, launches>>

FontsSettle(outcome) ==
  /\ phase # "closed" /\ fonts = "loading" /\ fonts' = outcome
  /\ UNCHANGED <<file, intent, launches, phase, cause, prep, overdue, completed,
                 splash, entered, reset, confirming, stage>>

\* shouldArmProviderReadinessDeadline.
ProviderMissesDeadline ==
  /\ phase \notin {"closed", "ready"} /\ fonts = "loaded" /\ cause = "none" /\ ~overdue
  /\ overdue' = TRUE
  /\ UNCHANGED <<file, intent, launches, phase, cause, prep, fonts, completed,
                 splash, entered, reset, confirming, stage>>

\* useStartupBoundaryTerminalFailureSplash.
ReleaseOverFailure ==
  /\ phase # "closed" /\ ~completed /\ BoundaryFailure # "none"
  /\ completed' = TRUE /\ splash' = FALSE
  /\ UNCHANGED <<file, intent, launches, phase, cause, prep, fonts, overdue,
                 entered, reset, confirming, stage>>

\* useStartupBoundaryNavigation.
Navigate ==
  /\ ~completed /\ fonts = "loaded" /\ phase = "ready" /\ BoundaryFailure = "none"
  /\ completed' = TRUE /\ splash' = FALSE /\ entered' = TRUE
  /\ UNCHANGED <<file, intent, launches, phase, cause, prep, fonts, overdue,
                 reset, confirming, stage>>

----------------------------------------------------------------------------
(* createStartupDatabaseInitializer and prepareForegroundDatabase.         *)

\* The provider opens the file, which creates it, and calls the initializer.
ProviderOpens ==
  /\ phase = "opening" /\ ProviderMounted
  /\ file' = IF file = NoFile THEN NewFile ELSE file
  /\ phase' = "preparing" /\ prep' = "check"
  /\ UNCHANGED <<intent, launches, cause, fonts, overdue, completed, splash,
                 entered, reset, confirming, stage>>

\* The preparation ended; after the deadline of the sequence nobody hears it.
Prepared(class) ==
  /\ prep' = "idle"
  /\ phase' = IF phase # "preparing" THEN phase
              ELSE IF class = "none" THEN "loading_config" ELSE "fatal"
  /\ cause' = IF phase = "preparing" THEN class ELSE cause

\* The stamp of this version is trusted after one validation; a schema that is short falls
\* through to the migrations, damage does not.
ReadReadiness ==
  /\ prep = "check"
  /\ CASE file.version = "stamped" /\ file.damaged -> Prepared("corruption")
       [] file.version = "stamped" /\ ~file.damaged /\ file.whole -> Prepared("none")
       [] file.version = "newer" -> Prepared("incompatible_schema")
       [] OTHER -> prep' = "migrate" /\ UNCHANGED <<phase, cause>>
  /\ UNCHANGED <<file, intent, launches, fonts, overdue, completed, splash,
                 entered, reset, confirming, stage>>

\* runMigrations completes the schema, or leaves a gap its repairs do not know.
Migrate ==
  /\ prep = "migrate"
  /\ \E whole \in {TRUE, file.whole} : file' = [file EXCEPT !.whole = whole]
  /\ prep' = "validate"
  /\ UNCHANGED <<intent, launches, phase, cause, fonts, overdue, completed,
                 splash, entered, reset, confirming, stage>>

\* The second validation is final; the stamp is the last write.
ValidateAndStamp ==
  /\ prep = "validate"
  /\ CASE file.damaged -> Prepared("corruption") /\ UNCHANGED file
       [] ~file.damaged /\ ~file.whole -> Prepared("schema_validation") /\ UNCHANGED file
       [] OTHER -> Prepared("none") /\ file' = [file EXCEPT !.version = "stamped"]
  /\ UNCHANGED <<intent, launches, fonts, overdue, completed, splash, entered,
                 reset, confirming, stage>>

\* A statement fails: the file is busy after every retry, or SQLite meets the damage.
PreparationFails ==
  /\ prep # "idle"
  /\ Prepared("busy") \/ (file.damaged /\ Prepared("corruption"))
  /\ UNCHANGED <<file, intent, launches, fonts, overdue, completed, splash,
                 entered, reset, confirming, stage>>

\* withStartupDeadline: the wait ends, the preparation does not.
LocalDeadline ==
  /\ phase \in {"preparing", "loading_config"}
  /\ phase' = "fatal" /\ cause' = "unknown"
  /\ UNCHANGED <<file, intent, launches, prep, fonts, overdue, completed, splash,
                 entered, reset, confirming, stage>>

\* getBridgeConfigSnapshot picks the route; a damaged file may fail it.
ReadConfig ==
  /\ phase = "loading_config"
  /\ \/ phase' = "ready" /\ UNCHANGED cause
     \/ phase' = "fatal" /\ cause' \in {"busy"} \cup (IF file.damaged THEN {"corruption"} ELSE {})
  /\ UNCHANGED <<file, intent, launches, prep, fonts, overdue, completed, splash,
                 entered, reset, confirming, stage>>

----------------------------------------------------------------------------
(* useStartupRecovery: the buttons of a card that is no longer covered.     *)

\* Mutant: the remount leaves the completion of the first startup in place.
RemountKeepingCompletion ==
  /\ phase' = "opening" /\ cause' = "none" /\ UNCHANGED completed

\* handleRemountDatabaseProvider: a new startup, on a new provider.
Remount ==
  /\ phase' = "opening" /\ cause' = "none" /\ completed' = FALSE

RequestReset ==
  /\ ~splash /\ RecoveryKind = "damage" /\ ~confirming /\ confirming' = TRUE
  /\ UNCHANGED <<file, intent, launches, phase, cause, prep, fonts, overdue,
                 completed, splash, entered, reset, stage>>

CancelReset ==
  /\ ~splash /\ RecoveryKind = "damage" /\ confirming' = FALSE /\ reset' = "declined"
  /\ UNCHANGED <<file, intent, launches, phase, cause, prep, fonts, overdue,
                 completed, splash, entered, stage>>

\* confirmReset, and retryReset of a reset that failed.
StartReset ==
  /\ ~splash
  /\ \/ RecoveryKind = "damage" /\ confirming
     \/ RecoveryKind = "reset_failed" /\ cause # "none"
  /\ confirming' = FALSE /\ reset' = "in_flight" /\ stage' = "intent_read"
  /\ UNCHANGED <<file, intent, launches, phase, cause, prep, fonts, overdue,
                 completed, splash, entered>>

RetryStartup ==
  /\ ~splash /\ RecoveryKind = "transient" /\ reset' = "not_started" /\ Remount
  /\ UNCHANGED <<file, intent, launches, prep, fonts, overdue, splash, entered,
                 confirming, stage>>

----------------------------------------------------------------------------
(* createDatabaseResetOrchestrator over the production ports.              *)

diskAside == <<launches, phase, cause, prep, fonts, overdue, completed, splash, entered, confirming>>

GoTo(next) == stage' = next /\ UNCHANGED <<diskAside, reset>>

\* The port rejects: the reset stops here, and the card offers to retry it.
ResetFails == stage' = "none" /\ reset' = "failed" /\ UNCHANGED diskAside

StageFails ==
  /\ stage # "none" /\ ResetFails
  /\ UNCHANGED <<file, intent>>

\* A durable intent authorizes by itself; without one the classification has to.
ReadIntent ==
  /\ stage = "intent_read"
  /\ IF intent THEN GoTo("stop_and_close")
     ELSE IF AuthorizesReset(cause) THEN GoTo("intent_write") ELSE ResetFails
  /\ UNCHANGED <<file, intent>>

WriteIntent ==
  /\ stage = "intent_write" /\ intent' = TRUE /\ GoTo("stop_and_close")
  /\ UNCHANGED file

StopAndClose ==
  /\ stage = "stop_and_close" /\ GoTo("database_probe")
  /\ UNCHANGED <<file, intent>>

\* The probe looks for the main file alone.
ProbeDatabase ==
  /\ stage = "database_probe"
  /\ GoTo(IF file = NoFile THEN "database_prepare" ELSE "database_delete")
  /\ UNCHANGED <<file, intent>>

\* The database goes, then what lies beside it: when a sidecar survives the port rejects,
\* and the next probe finds nothing to delete.
DeleteDatabase ==
  /\ stage = "database_delete" /\ file' = NoFile
  /\ GoTo("database_prepare") \/ ResetFails
  /\ UNCHANGED intent

\* openAndPrepare: the migrations and the stamp of a new file, or of what an earlier
\* preparation left of it; it may stop half-way.
PrepareFresh ==
  /\ stage = "database_prepare"
  /\ LET opened == IF file = NoFile THEN NewFile ELSE file
     IN  \/ /\ ~opened.damaged /\ file' = [opened EXCEPT !.version = "stamped", !.whole = TRUE]
             /\ GoTo("intent_clear")
         \/ file' = opened /\ ResetFails
  /\ UNCHANGED intent

\* The intent goes last; then the hook mounts a new provider.
ClearIntent ==
  /\ stage = "intent_clear" /\ intent' = FALSE
  /\ stage' = "none" /\ reset' = "completed" /\ Remount
  /\ UNCHANGED <<file, launches, prep, fonts, overdue, splash, entered, confirming>>

----------------------------------------------------------------------------
(* What happens to the file from outside.                                  *)

\* The file is damaged (the cause on the tablet is unknown).
Damage ==
  /\ file # NoFile /\ ~file.damaged /\ file' = [file EXCEPT !.damaged = TRUE]
  /\ UNCHANGED <<intent, launches, memory>>

\* The user pairs, and the database has something to lose.
PairAndUse ==
  /\ entered /\ phase = "ready" /\ file # NoFile /\ ~file.data
  /\ file' = [file EXCEPT !.data = TRUE]
  /\ UNCHANGED <<intent, launches, memory>>

StartupNext ==
  \/ Launch \/ Dies \/ \E o \in {"loaded", "failed"} : FontsSettle(o)
  \/ ProviderMissesDeadline \/ ReleaseOverFailure \/ Navigate
  \/ ProviderOpens \/ ReadReadiness \/ Migrate \/ ValidateAndStamp \/ PreparationFails
  \/ LocalDeadline \/ ReadConfig
  \/ RequestReset \/ CancelReset \/ StartReset \/ RetryStartup
  \/ StageFails \/ ReadIntent \/ WriteIntent \/ StopAndClose \/ ProbeDatabase
  \/ DeleteDatabase \/ PrepareFresh \/ ClearIntent
  \/ Damage \/ PairAndUse

StartupSpec == StartupInit /\ [][StartupNext]_startupVars

----------------------------------------------------------------------------
(* Properties.                                                             *)

\* No launch, no retry and no finished reset leaves the user before the splash or an empty
\* screen: it ends in the app or on a card that says what failed, whatever hangs
\* (useStartupBoundaryLifecycle, and use-startup-boundary.ts on the retry: "without it ...
\* a successful reset would leave the user in front of a terminal card").
StartsOrExplains ==
  (phase # "closed") ~>
    (phase = "closed" \/ (~splash /\ (BoundaryFailure # "none" \/ (phase = "ready" /\ entered))))

\* Data is deleted only with a damaged file: a schema that does not fit, a busy file, an
\* unfinished reset of an earlier launch or a retry never destroys a good one
\* (decideDatabaseReset, executeReset).
OnlyDamageIsDeleted == [][(file.data /\ file' = NoFile) => file.damaged]_startupVars

\* A launch that finds a reset unfinished resumes it before anything else
\* (docs/mobile-database-recovery.md, "durable evidence that the next launch resumes").
NextLaunchResumes ==
  intent /\ reset = "not_started" => phase \notin {"ready", "fatal"}

============================================================================
