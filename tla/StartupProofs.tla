--------------------------- MODULE StartupProofs ---------------------------
(* Theorems about the database and the pairing at startup.  Of the startup   *)
(* sequence, for any number of launches: the state keeps its type, and only  *)
(* a damaged database is ever deleted with data in it.  Of the preparation   *)
(* of the schema: whatever history left a device with, it validates, and the *)
(* queue of ratings is moved whole.  Of the pairing screen: a device is      *)
(* paired only at the request of somebody.  Of the socket's listener: its    *)
(* type.  At the end they are put together with those of BackgroundProofs    *)
(* to theorems about the specification that the run checks.                  *)
EXTENDS MCRuntime, BackgroundProofs, FiniteSetTheorems, SequenceTheorems, TLAPS

(***************************************************************************)
(* The startup sequence and the reset.                                     *)
(***************************************************************************)

\* What the type leaves open: a reset only runs, and only failed, over a failure classified
\* as corruption, and that classification is only given to a damaged file.
ResetsOverDamage ==
  /\ reset \in {"in_flight", "failed"} => cause = "corruption"
  /\ cause = "corruption" => file.damaged \/ ~file.data

\* A preparation has its file under it: one that runs past the deadline of the sequence leaves
\* a failure over which no reset starts.
PreparesAFile ==
  prep # "idle" => file # NoFile /\ (phase = "preparing" \/ cause = "unknown")

StartupInv == StartupTypeOK /\ ResetsOverDamage /\ PreparesAFile

\* A file stays a file when one of its facts changes, and only that fact does.
LEMMA FileFacts ==
  ASSUME NEW f \in Files, NEW w \in BOOLEAN
  PROVE  /\ [f EXCEPT !.whole = w] \in Files
         /\ [f EXCEPT !.whole = w].data = f.data
         /\ [f EXCEPT !.whole = w].damaged = f.damaged
         /\ [f EXCEPT !.damaged = TRUE] \in Files
         /\ [f EXCEPT !.damaged = TRUE].damaged
         /\ [f EXCEPT !.data = TRUE] \in Files
         /\ [f EXCEPT !.data = TRUE].data
         /\ [f EXCEPT !.data = TRUE].damaged = f.damaged
<1> QED
  BY DEF Files

\* What the buttons of a card presuppose of the reset and of its cause.
LEMMA CardFacts ==
  /\ RecoveryKind = "damage" => reset # "in_flight" /\ reset # "failed" /\ cause = "corruption"
  /\ RecoveryKind = "transient" => reset # "in_flight" /\ reset # "failed"
BY DEF RecoveryKind, AuthorizesReset

-----------------------------------------------------------------------------
(* The inductive invariant.                                                 *)

\* Every step keeps the types.
LEMMA StartupTypeStep ==
  StartupInv /\ [StartupNext]_startupVars => StartupTypeOK'
<1> SUFFICES ASSUME StartupTypeOK, PreparesAFile, [StartupNext]_startupVars
             PROVE  StartupTypeOK'
  BY DEF StartupInv
<1>1. CASE Launch
  BY <1>1, LaunchAssumption DEF Launch, StartupTypeOK
<1>2. CASE Dies
  BY <1>2 DEF Dies, StartupTypeOK
<1>3. CASE ProviderMissesDeadline
  BY <1>3 DEF ProviderMissesDeadline, StartupTypeOK
<1>4. CASE ReleaseOverFailure
  <2>1. /\ UNCHANGED <<file, intent, launches, phase, cause, prep, fonts, overdue, entered,
                      reset, confirming, stage>>
        /\ completed' \in BOOLEAN /\ splash' \in BOOLEAN
    BY <1>4 DEF ReleaseOverFailure
  <2> QED
    BY <2>1 DEF StartupTypeOK
<1>5. CASE Navigate
  BY <1>5 DEF Navigate, StartupTypeOK
<1>6. CASE ProviderOpens
  BY <1>6, ZenonT(40) DEF ProviderOpens, StartupTypeOK, Files, NewFile, NoFile
<1>7. CASE ReadReadiness
  BY <1>7 DEF ReadReadiness, StartupTypeOK, Prepared, Classes
<1>8. CASE Migrate
  <2>1. file \in Files
    BY <1>8 DEF Migrate, StartupTypeOK, PreparesAFile
  <2>2. file' \in Files
    <3>1. PICK w \in {TRUE, file.whole} : file' = [file EXCEPT !.whole = w]
      BY <1>8 DEF Migrate
    <3>2. w \in BOOLEAN
      BY <2>1, <3>1 DEF Files
    <3> QED
      BY <2>1, <3>1, <3>2, FileFacts
  <2> QED
    BY <1>8, <2>2 DEF Migrate, StartupTypeOK
<1>9. CASE ValidateAndStamp
  BY <1>9 DEF ValidateAndStamp, StartupTypeOK, PreparesAFile, Prepared, Files, NoFile, Classes
<1>10. CASE PreparationFails
  BY <1>10 DEF PreparationFails, StartupTypeOK, Prepared, Classes
<1>11. CASE LocalDeadline
  BY <1>11 DEF LocalDeadline, StartupTypeOK, Classes
<1>12. CASE ReadConfig
  BY <1>12 DEF ReadConfig, StartupTypeOK, Classes
<1>13. CASE RequestReset
  BY <1>13 DEF RequestReset, StartupTypeOK
<1>14. CASE CancelReset
  BY <1>14, CardFacts DEF CancelReset, StartupTypeOK
<1>15. CASE StartReset
  BY <1>15, ZenonT(40) DEF StartReset, StartupTypeOK, Stages
<1>16. CASE RetryStartup
  BY <1>16 DEF RetryStartup, StartupTypeOK, Remount, RecoveryKind
<1>17. CASE StageFails
  BY <1>17 DEF StageFails, StartupTypeOK, ResetFails, diskAside
<1>18. CASE ReadIntent
  BY <1>18 DEF ReadIntent, StartupTypeOK, GoTo, ResetFails, diskAside, Stages,
     AuthorizesReset
<1>19. CASE WriteIntent
  BY <1>19 DEF WriteIntent, StartupTypeOK, GoTo, diskAside, Stages
<1>20. CASE StopAndClose
  BY <1>20 DEF StopAndClose, StartupTypeOK, GoTo, diskAside, Stages
<1>21. CASE ProbeDatabase
  BY <1>21 DEF ProbeDatabase, StartupTypeOK, GoTo, diskAside, Stages
<1>22. CASE DeleteDatabase
  BY <1>22 DEF DeleteDatabase, StartupTypeOK, GoTo, ResetFails, diskAside, Stages, Files,
     NoFile
<1>23. CASE PrepareFresh
  BY <1>23, ZenonT(40) DEF PrepareFresh, StartupTypeOK, GoTo, ResetFails, diskAside, Stages, Files,
     NewFile, NoFile
<1>24. CASE ClearIntent
  BY <1>24 DEF ClearIntent, StartupTypeOK, Remount
<1>25. CASE Damage
  <2>1. file \in Files /\ file' = [file EXCEPT !.damaged = TRUE]
    BY <1>25 DEF Damage, StartupTypeOK
  <2>2. file' \in Files
    BY <2>1, FileFacts
  <2> QED
    BY <1>25, <2>2 DEF Damage, StartupTypeOK, memory
<1>26. CASE PairAndUse
  BY <1>26, FileFacts, ZenonT(40) DEF PairAndUse, StartupTypeOK, memory
<1>27. ASSUME NEW o \in {"loaded", "failed"}, FontsSettle(o) PROVE StartupTypeOK'
  BY <1>27 DEF FontsSettle, StartupTypeOK
<1>28. CASE UNCHANGED startupVars
  BY <1>28 DEF startupVars, memory, StartupTypeOK
<1> QED
  BY <1>1, <1>2, <1>3, <1>4, <1>5, <1>6, <1>7, <1>8, <1>9, <1>10, <1>11, <1>12, <1>13,
     <1>14, <1>15, <1>16, <1>17, <1>18, <1>19, <1>20, <1>21, <1>22, <1>23, <1>24, <1>25,
     <1>26, <1>27, <1>28 DEF StartupNext

\* Every step keeps a reset over damage, and the damage under it.
LEMMA ResetsOverDamageStep ==
  StartupInv /\ [StartupNext]_startupVars => ResetsOverDamage'
<1> SUFFICES ASSUME StartupTypeOK, ResetsOverDamage, [StartupNext]_startupVars
             PROVE  ResetsOverDamage'
  BY DEF StartupInv
<1>1. CASE Launch
  BY <1>1 DEF Launch, ResetsOverDamage, StartupTypeOK
<1>2. CASE Dies
  BY <1>2 DEF Dies, ResetsOverDamage, StartupTypeOK
<1>3. CASE ProviderMissesDeadline
  BY <1>3 DEF ProviderMissesDeadline, ResetsOverDamage, StartupTypeOK
<1>4. CASE ReleaseOverFailure
  BY <1>4 DEF ReleaseOverFailure, ResetsOverDamage, StartupTypeOK
<1>5. CASE Navigate
  BY <1>5 DEF Navigate, ResetsOverDamage, StartupTypeOK
<1>6. CASE ProviderOpens
  BY <1>6 DEF ProviderOpens, ResetsOverDamage, StartupTypeOK, Files, NewFile, NoFile
<1>7. CASE ReadReadiness
  BY <1>7 DEF ReadReadiness, ResetsOverDamage, StartupTypeOK, Prepared, Classes, Files,
     NoFile
<1>8. CASE Migrate
  BY <1>8 DEF Migrate, ResetsOverDamage, StartupTypeOK, Files, NoFile
<1>9. CASE ValidateAndStamp
  BY <1>9 DEF ValidateAndStamp, ResetsOverDamage, StartupTypeOK, Prepared, Files, NoFile,
     Classes
<1>10. CASE PreparationFails
  BY <1>10 DEF PreparationFails, ResetsOverDamage, StartupTypeOK, Prepared, Classes
<1>11. CASE LocalDeadline
  BY <1>11 DEF LocalDeadline, ResetsOverDamage, StartupTypeOK, Classes
<1>12. CASE ReadConfig
  BY <1>12 DEF ReadConfig, ResetsOverDamage, StartupTypeOK, Classes
<1>13. CASE RequestReset
  BY <1>13 DEF RequestReset, ResetsOverDamage, StartupTypeOK
<1>14. CASE CancelReset
  BY <1>14, CardFacts DEF CancelReset, ResetsOverDamage
<1>15. CASE StartReset
  BY <1>15 DEF StartReset, ResetsOverDamage, StartupTypeOK, Stages, RecoveryKind,
     AuthorizesReset
<1>16. CASE RetryStartup
  BY <1>16 DEF RetryStartup, ResetsOverDamage, StartupTypeOK, Remount, RecoveryKind
<1>17. CASE StageFails
  BY <1>17 DEF StageFails, ResetsOverDamage, StartupTypeOK, ResetFails, diskAside
<1>18. CASE ReadIntent
  BY <1>18 DEF ReadIntent, ResetsOverDamage, StartupTypeOK, GoTo, ResetFails, diskAside,
     Stages, AuthorizesReset
<1>19. CASE WriteIntent
  BY <1>19 DEF WriteIntent, ResetsOverDamage, StartupTypeOK, GoTo, diskAside, Stages
<1>20. CASE StopAndClose
  BY <1>20 DEF StopAndClose, ResetsOverDamage, StartupTypeOK, GoTo, diskAside, Stages
<1>21. CASE ProbeDatabase
  BY <1>21 DEF ProbeDatabase, ResetsOverDamage, StartupTypeOK, GoTo, diskAside, Stages
<1>22. CASE DeleteDatabase
  BY <1>22 DEF DeleteDatabase, ResetsOverDamage, StartupTypeOK, GoTo, ResetFails, diskAside,
     Stages, Files, NoFile
<1>23. CASE PrepareFresh
  BY <1>23 DEF PrepareFresh, ResetsOverDamage, StartupTypeOK, GoTo, ResetFails, diskAside,
     Stages, Files, NewFile, NoFile
<1>24. CASE ClearIntent
  BY <1>24 DEF ClearIntent, ResetsOverDamage, StartupTypeOK, Remount
<1>25. CASE Damage
  BY <1>25 DEF Damage, ResetsOverDamage, StartupTypeOK, Files, memory, NoFile
<1>26. CASE PairAndUse
  BY <1>26 DEF PairAndUse, ResetsOverDamage, StartupTypeOK, Files, memory, NoFile
<1>27. ASSUME NEW o \in {"loaded", "failed"}, FontsSettle(o) PROVE ResetsOverDamage'
  BY <1>27 DEF FontsSettle, ResetsOverDamage, StartupTypeOK
<1>28. CASE UNCHANGED startupVars
  BY <1>28 DEF startupVars, memory, ResetsOverDamage, StartupTypeOK
<1> QED
  BY <1>1, <1>2, <1>3, <1>4, <1>5, <1>6, <1>7, <1>8, <1>9, <1>10, <1>11, <1>12, <1>13,
     <1>14, <1>15, <1>16, <1>17, <1>18, <1>19, <1>20, <1>21, <1>22, <1>23, <1>24, <1>25,
     <1>26, <1>27, <1>28 DEF StartupNext

\* Every step keeps a file under the preparation that runs.
LEMMA PreparesAFileStep ==
  StartupInv /\ [StartupNext]_startupVars => PreparesAFile'
<1> SUFFICES ASSUME StartupTypeOK, ResetsOverDamage, PreparesAFile, [StartupNext]_startupVars
             PROVE  PreparesAFile'
  BY DEF StartupInv
<1>1. CASE Launch
  BY <1>1 DEF Launch, PreparesAFile, ResetsOverDamage, StartupTypeOK
<1>2. CASE Dies
  BY <1>2 DEF Dies, PreparesAFile, ResetsOverDamage, StartupTypeOK
<1>3. CASE ProviderMissesDeadline
  BY <1>3 DEF ProviderMissesDeadline, PreparesAFile, ResetsOverDamage, StartupTypeOK
<1>4. CASE ReleaseOverFailure
  BY <1>4 DEF ReleaseOverFailure, PreparesAFile, ResetsOverDamage, StartupTypeOK
<1>5. CASE Navigate
  BY <1>5 DEF Navigate, PreparesAFile, ResetsOverDamage, StartupTypeOK
<1>6. CASE ProviderOpens
  BY <1>6 DEF ProviderOpens, PreparesAFile, ResetsOverDamage, StartupTypeOK, Files, NewFile, NoFile
<1>7. CASE ReadReadiness
  BY <1>7 DEF ReadReadiness, PreparesAFile, ResetsOverDamage, StartupTypeOK, Prepared, Classes, Files,
     NoFile
<1>8. CASE Migrate
  BY <1>8 DEF Migrate, PreparesAFile, ResetsOverDamage, StartupTypeOK, Files, NoFile
<1>9. CASE ValidateAndStamp
  BY <1>9 DEF ValidateAndStamp, PreparesAFile, ResetsOverDamage, StartupTypeOK, Prepared, Files, NoFile,
     Classes
<1>10. CASE PreparationFails
  BY <1>10 DEF PreparationFails, PreparesAFile, ResetsOverDamage, StartupTypeOK, Prepared, Classes
<1>11. CASE LocalDeadline
  BY <1>11 DEF LocalDeadline, PreparesAFile, ResetsOverDamage, StartupTypeOK, Classes
<1>12. CASE ReadConfig
  BY <1>12 DEF ReadConfig, PreparesAFile, ResetsOverDamage, StartupTypeOK, Classes
<1>13. CASE RequestReset
  BY <1>13 DEF RequestReset, PreparesAFile, ResetsOverDamage, StartupTypeOK
<1>14. CASE CancelReset
  BY <1>14, CardFacts DEF CancelReset, PreparesAFile
<1>15. CASE StartReset
  BY <1>15 DEF StartReset, PreparesAFile, ResetsOverDamage, StartupTypeOK, Stages, RecoveryKind,
     AuthorizesReset
<1>16. CASE RetryStartup
  BY <1>16 DEF RetryStartup, PreparesAFile, ResetsOverDamage, StartupTypeOK, Remount, RecoveryKind
<1>17. CASE StageFails
  BY <1>17 DEF StageFails, PreparesAFile, ResetsOverDamage, StartupTypeOK, ResetFails, diskAside
<1>18. CASE ReadIntent
  BY <1>18 DEF ReadIntent, PreparesAFile, ResetsOverDamage, StartupTypeOK, GoTo, ResetFails, diskAside,
     Stages, AuthorizesReset
<1>19. CASE WriteIntent
  BY <1>19 DEF WriteIntent, PreparesAFile, ResetsOverDamage, StartupTypeOK, GoTo, diskAside, Stages
<1>20. CASE StopAndClose
  BY <1>20 DEF StopAndClose, PreparesAFile, ResetsOverDamage, StartupTypeOK, GoTo, diskAside, Stages
<1>21. CASE ProbeDatabase
  BY <1>21 DEF ProbeDatabase, PreparesAFile, ResetsOverDamage, StartupTypeOK, GoTo, diskAside, Stages
<1>22. CASE DeleteDatabase
  BY <1>22 DEF DeleteDatabase, PreparesAFile, ResetsOverDamage, StartupTypeOK, GoTo, ResetFails, diskAside,
     Stages, Files, NoFile
<1>23. CASE PrepareFresh
  BY <1>23 DEF PrepareFresh, PreparesAFile, ResetsOverDamage, StartupTypeOK, GoTo, ResetFails, diskAside,
     Stages, Files, NewFile, NoFile
<1>24. CASE ClearIntent
  BY <1>24 DEF ClearIntent, PreparesAFile, ResetsOverDamage, StartupTypeOK, Remount
<1>25. CASE Damage
  BY <1>25 DEF Damage, PreparesAFile, ResetsOverDamage, StartupTypeOK, Files, memory, NoFile
<1>26. CASE PairAndUse
  BY <1>26 DEF PairAndUse, PreparesAFile, ResetsOverDamage, StartupTypeOK, Files, memory, NoFile
<1>27. ASSUME NEW o \in {"loaded", "failed"}, FontsSettle(o) PROVE PreparesAFile'
  BY <1>27 DEF FontsSettle, PreparesAFile, ResetsOverDamage, StartupTypeOK
<1>28. CASE UNCHANGED startupVars
  BY <1>28 DEF startupVars, memory, PreparesAFile, ResetsOverDamage, StartupTypeOK
<1> QED
  BY <1>1, <1>2, <1>3, <1>4, <1>5, <1>6, <1>7, <1>8, <1>9, <1>10, <1>11, <1>12, <1>13,
     <1>14, <1>15, <1>16, <1>17, <1>18, <1>19, <1>20, <1>21, <1>22, <1>23, <1>24, <1>25,
     <1>26, <1>27, <1>28 DEF StartupNext

LEMMA StartupInvInit == StartupInit => StartupInv
<1> SUFFICES ASSUME StartupInit PROVE StartupInv
  OBVIOUS
<1>1. file \in Files \cup {NoFile} /\ launches \in 0 .. MaxLaunch
  <2>1. file \in Files \cup {NoFile}
    <3>1. \A v \in {"stamped", "lower", "newer"}, w \in BOOLEAN :
            [version |-> v, whole |-> w, damaged |-> FALSE, data |-> TRUE] \in Files
      BY DEF Files
    <3> QED
      BY <3>1 DEF StartupInit
  <2>2. launches \in 0 .. MaxLaunch
    BY LaunchAssumption DEF StartupInit
  <2> QED
    BY <2>1, <2>2
<1>2. StartupTypeOK
  BY <1>1 DEF StartupInit, Closed, StartupTypeOK
<1>3. ResetsOverDamage
  BY DEF StartupInit, Closed, ResetsOverDamage
<1>4. PreparesAFile
  BY DEF StartupInit, Closed, PreparesAFile
<1> QED
  BY <1>2, <1>3, <1>4 DEF StartupInv

LEMMA StartupInvStep == StartupInv /\ [StartupNext]_startupVars => StartupInv'
BY StartupTypeStep, ResetsOverDamageStep, PreparesAFileStep DEF StartupInv

-----------------------------------------------------------------------------
(* The theorems.                                                            *)

\* The state of startup and of the reset keeps its type: a cause exactly with the phase
\* `fatal`, a stage exactly while a reset runs, through every death and retry.
THEOREM StartupTypeCorrect == StartupSpec => []StartupTypeOK
<1>1. StartupInv => StartupTypeOK
  BY DEF StartupInv
<1> QED
  BY <1>1, StartupInvInit, StartupInvStep, PTL DEF StartupSpec

\* Data is deleted only with a damaged file (decideDatabaseReset, executeReset), for any
\* number of launches, deaths and retries.
THEOREM DeletesOnlyDamage == StartupSpec => OnlyDamageIsDeleted
<1>1. StartupInv /\ [StartupNext]_startupVars
        => [(file.data /\ file' = NoFile) => file.damaged]_startupVars
  <2> SUFFICES ASSUME StartupInv, StartupNext, file.data, file' = NoFile
               PROVE  file.damaged
    OBVIOUS
  <2>1. CASE DeleteDatabase
    BY <2>1 DEF DeleteDatabase, StartupInv, StartupTypeOK, ResetsOverDamage
  <2>2. CASE PrepareFresh
    BY <2>2 DEF PrepareFresh, StartupInv, StartupTypeOK, Files, NewFile, NoFile
  <2>3. CASE ProviderOpens
    BY <2>3 DEF ProviderOpens, NewFile, NoFile
  <2>4. CASE Migrate
    BY <2>4 DEF Migrate, StartupInv, StartupTypeOK, Files, NoFile
  <2>5. CASE ValidateAndStamp
    BY <2>5 DEF ValidateAndStamp, StartupInv, StartupTypeOK, Files, NoFile
  <2>6. CASE Damage \/ PairAndUse
    BY <2>6 DEF Damage, PairAndUse, StartupInv, StartupTypeOK, Files, NoFile
  <2>7. CASE UNCHANGED file
    BY <2>7 DEF NoFile
  <2>8. \/ UNCHANGED file \/ DeleteDatabase \/ PrepareFresh \/ ProviderOpens \/ Migrate
        \/ ValidateAndStamp \/ Damage \/ PairAndUse
    BY DEF StartupNext, Launch, Dies, FontsSettle, ProviderMissesDeadline,
       ReleaseOverFailure,
           Navigate, ReadReadiness, PreparationFails, LocalDeadline, ReadConfig,
              RequestReset,
           CancelReset, StartReset, RetryStartup, StageFails, ReadIntent, WriteIntent,
           StopAndClose, ProbeDatabase, ClearIntent
  <2> QED
    BY <2>1, <2>2, <2>3, <2>4, <2>5, <2>6, <2>7, <2>8
<1> QED
  BY <1>1, StartupInvInit, StartupInvStep, PTL DEF StartupSpec, OnlyDamageIsDeleted

(***************************************************************************)
(* The preparation of the schema.                                          *)
(***************************************************************************)

\* What the move has inserted and not committed: the rows of the queue from its head, mapped.
InsertedInOrder ==
  /\ DOMAIN open = {"on", "inserted", "dropped"}
  /\ open.inserted \in Seq([rating : {"first", "second"}, status : {"dead_letter", "pending"}])
  /\ at # "queue" \/ queue = NoQueue => open.inserted = <<>>
  /\ Len(open.inserted) <= Len(rated)
  /\ \A i \in 1 .. Len(open.inserted) : open.inserted[i] = MapQueued(rated[i])

\* The queue is there with nothing moved, or it is gone and the log has all of it.
AllOrNothing ==
  \/ queue # NoQueue /\ queue = rated /\ log = <<>>
  \/ /\ queue = NoQueue /\ Len(log) = Len(rated)
     /\ \A i \in 1 .. Len(rated) : log[i] = MapQueued(rated[i])

MoveInv == rated \in Seq(QueuedRatings) /\ InsertedInOrder /\ AllOrNothing

\* A row of the queue is mapped to a dead letter exactly when the bridge refused it.
LEMMA MappedRating ==
  ASSUME NEW row \in QueuedRatings
  PROVE  /\ MapQueued(row) \in [rating : {"first", "second"}, status : {"dead_letter", "pending"}]
         /\ MapQueued(row).rating = row.rating
         /\ (MapQueued(row).status = "dead_letter") <=>
              (row.status = "failed" /\ row.kind = "conflict")
  BY DEF MapQueued, QueuedRatings

LEMMA MoveGivesRatings == MoveInv => RatingsSurviveMove
<1> SUFFICES ASSUME MoveInv PROVE RatingsSurviveMove
  OBVIOUS
<1>1. rated \in Seq(QueuedRatings) /\ DOMAIN rated = 1 .. Len(rated)
  BY DEF MoveInv
<1>2. \A i \in 1 .. Len(rated) : rated[i] \in QueuedRatings
  BY <1>1, ElementOfSeq
<1> QED BY <1>1, <1>2, MappedRating DEF MoveInv, AllOrNothing, RatingsSurviveMove

\* The rows of the queue are rows, and not the mark of a table that is gone.
LEMMA QueueIsRows ==
  ASSUME NEW a \in QueuedRatings, NEW b \in QueuedRatings
  PROVE  <<a, b>> \in Seq(QueuedRatings) /\ <<a, b>> # NoQueue
  BY DEF NoQueue

LEMMA MoveInit == RepairInit => MoveInv
<1> SUFFICES ASSUME RepairInit PROVE MoveInv
  OBVIOUS
<1>1. /\ rated = IF queue = NoQueue THEN <<>> ELSE queue
      /\ log = <<>> /\ at = "closed" /\ open.inserted = <<>>
      /\ DOMAIN open = {"on", "inserted", "dropped"}
  BY DEF RepairInit, NoWork
<1>2. queue = NoQueue \/ \E a, b \in QueuedRatings : queue = <<a, b>>
  <2>1. NothingInstalled \/ Installed
    BY DEF RepairInit
  <2>2. NothingInstalled => queue = NoQueue
    BY DEF NothingInstalled
  <2>3. Installed => queue = NoQueue \/ \E a, b \in QueuedRatings : queue = <<a, b>>
    BY DEF Installed
  <2> QED BY <2>1, <2>2, <2>3
<1>3. queue = NoQueue \/ queue \in Seq(QueuedRatings)
  BY <1>2, QueueIsRows
<1>4. rated \in Seq(QueuedRatings)
  BY <1>1, <1>3, EmptySeq
<1> QED BY <1>1, <1>4, EmptySeq, LenProperties DEF MoveInv, InsertedInOrder, AllOrNothing

\* Work that is dropped, or never was.
LEMMA NothingInserted ==
  ASSUME rated \in Seq(QueuedRatings), rated' = rated, open'.inserted = <<>>,
         DOMAIN open' = {"on", "inserted", "dropped"}, UNCHANGED <<queue, log>>,
         AllOrNothing
  PROVE  MoveInv'
  BY LenProperties DEF MoveInv, InsertedInOrder, AllOrNothing

LEMMA MoveStep == MoveInv /\ [RepairNext]_repairVars => MoveInv'
<1> SUFFICES ASSUME MoveInv, [RepairNext]_repairVars PROVE MoveInv'
  OBVIOUS
<1> USE DEF MoveInv
<1> DEFINE Mapped == [rating : {"first", "second"}, status : {"dead_letter", "pending"}]
<1>1. NoWork.inserted = <<>> /\ DOMAIN NoWork = {"on", "inserted", "dropped"}
  BY DEF NoWork
<1>2. CASE /\ at # "queue" /\ open'.inserted = open.inserted /\ DOMAIN open' = DOMAIN open
           /\ UNCHANGED <<queue, log, rated>>
  BY <1>2, NothingInserted DEF InsertedInOrder
<1>3. CASE open' = NoWork /\ UNCHANGED <<queue, log, rated>>
  BY <1>1, <1>3, NothingInserted
<1>4. CASE PrepareStarts
  BY <1>4, <1>2 DEF PrepareStarts
<1>5. CASE Interrupted
  BY <1>5, <1>3 DEF Interrupted
<1>6. CASE Reconcile /\ UNCHANGED rated
  BY <1>6, <1>2 DEF Reconcile
<1>7. CASE RunMigrator /\ UNCHANGED rated
  BY <1>7, <1>2, <1>3 DEF RunMigrator, Refused
<1>8. CASE RepairTable /\ UNCHANGED rated
  <2>1. at # "queue"
    BY <1>8 DEF RepairTable, Tables, BaseTables, RepairTables
  <2>2. UNCHANGED <<queue, log, rated>> /\ (open' = open \/ open' = NoWork)
    BY <1>8 DEF RepairTable, CreateTable, AddColumn, Refused
  <2> QED BY <2>1, <2>2, <1>2, <1>3
<1>9. CASE DropDead /\ UNCHANGED rated
  <2>1. at # "queue" /\ UNCHANGED <<queue, log, rated>>
    BY <1>9 DEF DropDead
  <2>2. \/ open' = NoWork
        \/ \E c : open' = [open EXCEPT !.on = "dead", !.dropped = @ \cup {c}]
    BY <1>9 DEF DropDead
  <2>3. open' = NoWork \/ (open'.inserted = open.inserted /\ DOMAIN open' = DOMAIN open)
    BY <2>2 DEF InsertedInOrder
  <2> QED BY <2>1, <2>3, <1>2, <1>3
<1>10. CASE MoveQueue /\ UNCHANGED rated
  <2>1. CASE queue = NoQueue
    BY <1>10, <2>1, NothingInserted DEF MoveQueue, InsertedInOrder
  <2>2. CASE queue # NoQueue /\ Len(open.inserted) < Len(queue)
    <3> DEFINE n == Len(open.inserted)
               row == queue[n + 1]
    <3>1. InsertQueued(row) /\ queue = rated /\ at = "queue" /\ n \in Nat /\ n + 1 \in 1 .. Len(rated)
      BY <1>10, <2>2, LenProperties DEF MoveQueue, AllOrNothing, InsertedInOrder
    <3>2. CASE "unresolved_reason" \notin schema
      BY <3>1, <3>2, <1>3, <1>10 DEF InsertQueued, Refused
    <3>3. CASE "unresolved_reason" \in schema
      <4>1. /\ open' = [open EXCEPT !.on = "queue", !.inserted = Append(@, MapQueued(row))]
            /\ UNCHANGED <<queue, log, at, rated>>
        BY <3>1, <3>3, <1>10 DEF InsertQueued
      <4>2. row \in QueuedRatings /\ row = rated[n + 1]
        BY <3>1, ElementOfSeq
      <4>3. MapQueued(row) \in Mapped
        BY <4>2, MappedRating
      <4>4. open'.inserted = Append(open.inserted, MapQueued(row)) /\ DOMAIN open' = DOMAIN open
        BY <4>1 DEF InsertedInOrder
      <4>5. /\ open'.inserted \in Seq(Mapped) /\ Len(open'.inserted) = n + 1
            /\ open'.inserted[n + 1] = MapQueued(row)
            /\ \A i \in 1 .. n : open'.inserted[i] = open.inserted[i]
        BY <4>3, <4>4, AppendProperties DEF InsertedInOrder
      <4>6. \A i \in 1 .. n + 1 : open'.inserted[i] = MapQueued(rated[i])
        BY <4>2, <4>5, <3>1 DEF InsertedInOrder
      <4>7. InsertedInOrder'
        BY <4>1, <4>4, <4>5, <4>6, <3>1, <2>2 DEF InsertedInOrder, MapQueued
      <4> QED BY <4>1, <4>7 DEF AllOrNothing, MapQueued
    <3> QED BY <3>2, <3>3
  <2>3. CASE queue # NoQueue /\ ~(Len(open.inserted) < Len(queue))
    <3>1. /\ log' = log \o open.inserted /\ queue' = NoQueue /\ open' = NoWork
          /\ log = <<>> /\ queue = rated
      BY <1>10, <2>3 DEF MoveQueue, AllOrNothing
    <3>2. log' = open.inserted /\ Len(open.inserted) = Len(rated)
      BY <3>1, <2>3, LenProperties, ConcatEmptySeq DEF InsertedInOrder
    <3> QED BY <3>1, <3>2, <1>1, <1>10, LenProperties DEF InsertedInOrder, AllOrNothing
  <2> QED BY <2>1, <2>2, <2>3
<1>11. CASE DropCache /\ UNCHANGED rated
  BY <1>11, <1>2 DEF DropCache
<1>12. CASE Validate /\ UNCHANGED rated
  BY <1>12, <1>2, <1>3 DEF Validate, Refused
<1>13. CASE UNCHANGED repairVars
  BY <1>13 DEF repairVars, preparation, InsertedInOrder, AllOrNothing
<1> QED BY <1>4, <1>5, <1>6, <1>7, <1>8, <1>9, <1>10, <1>11, <1>12, <1>13 DEF RepairNext

\* For any two rows of the queue and any number of launches, interrupted at any point: once the
\* queue of ratings is gone, the log has each of its rows, in order, as a row to send or as a
\* dead letter when the bridge had refused it.
THEOREM RatingsMoved == RepairSpec => []RatingsSurviveMove
  BY MoveInit, MoveStep, MoveGivesRatings, PTL DEF RepairSpec

-----------------------------------------------------------------------------
(* No history is refused.  The inductive invariant says of every step that  *)
(* was taken what it left behind, and of the file that it holds nothing or  *)
(* the tables of the first migrations: what the next statement names is     *)
(* there.                                                                   *)

Columns(table) == ToSet(ColumnsOf[table])

\* The steps that were taken before one, in this preparation.
StepsBefore(step) ==
  {Pipeline[j] : j \in {i \in 1 .. 13 : \E k \in 1 .. 13 : i < k /\ Pipeline[k] = step}}

\* What a step is for: the migrations create the first tables, a repair completes its table.
LeavesBehind(step, features) ==
  /\ step = "migrate" => BaseTables \subseteq features
  /\ step \in Tables => {step} \cup Columns(step) \subseteq features
StepsTookEffect == \A step \in StepsBefore(at) : LeavesBehind(step, schema)

\* A file without tables has an empty ledger, so its migrations run; one with tables has all
\* the first ones, and the ledger is pinned before the migrator reads it.
NothingOrBase == (schema = {} /\ ledger \in {"absent", "empty"}) \/ BaseTables \subseteq schema
LedgerPinned == at = "migrate" => schema = {} \/ ledger = "newest"

\* A transaction is of the step the preparation is in, and drops only what is retired.
OpenWork ==
  /\ DOMAIN open = {"on", "inserted", "dropped"} /\ open.dropped \subseteq Retired
  /\ open.on \in {"nothing", "dead", "queue"} /\ (open.on # "nothing" => at = open.on)
  /\ open.on = "queue" => queue # NoQueue

\* The parts that a step of the preparation keeps by what it does to the file.
Readied == NothingOrBase /\ LedgerPinned /\ StepsTookEffect /\ EveryHistoryPrepares
FileTyped ==
  /\ schema \subseteq Tables \cup Added(Tables) \cup Retired
  /\ ledger \in {"absent", "empty", "behind", "newest"}

HistoryInv == RepairTypeOK /\ OpenWork /\ Readied

\* The columns that are ever added, as they are told apart.
LEMMA ColumnSets ==
  /\ Columns("bridge_config") = {"last_changelog_id", "is_sync_telemetry_enabled", "season_mode"}
  /\ Columns("sync_runtime_status") = {"execution_mode", "last_cycle_id"}
  /\ Columns("animes") = {"last_applied_change_ms", "season"}
  /\ Columns("operation_log") = {"conflict_attempt_count", "unresolved_reason"}
  /\ Columns("pending_remote_changes") = {}
  /\ Columns("sync_cycle_lock") = {"fence"}
  /\ Columns("app_preferences") = {"anime_folders_root_uri"}
  /\ ToSet(DeadColumns) = {"is_cycle_active", "last_pending_row_count"}
<1>1. Columns("bridge_config") = {"last_changelog_id", "is_sync_telemetry_enabled", "season_mode"}
  BY DEF Columns, ColumnsOf, ToSet
<1>2. Columns("sync_runtime_status") = {"execution_mode", "last_cycle_id"}
  BY DEF Columns, ColumnsOf, ToSet
<1>3. Columns("animes") = {"last_applied_change_ms", "season"}
  BY DEF Columns, ColumnsOf, ToSet
<1>4. Columns("operation_log") = {"conflict_attempt_count", "unresolved_reason"}
  BY DEF Columns, ColumnsOf, ToSet
<1>5. Columns("pending_remote_changes") = {}
  BY DEF Columns, ColumnsOf, ToSet
<1>6. Columns("sync_cycle_lock") = {"fence"}
  BY DEF Columns, ColumnsOf, ToSet
<1>7. Columns("app_preferences") = {"anime_folders_root_uri"}
  BY DEF Columns, ColumnsOf, ToSet
<1>8. ToSet(DeadColumns) = {"is_cycle_active", "last_pending_row_count"}
  BY DEF DeadColumns, ToSet
<1> QED BY <1>1, <1>2, <1>3, <1>4, <1>5, <1>6, <1>7, <1>8

\* A column is added to one table only and none is a table; what is retired is neither, so
\* dropping it takes nothing that is prepared.
LEMMA ColumnFacts ==
  /\ \A t \in Tables : Columns(t) \subseteq Added(Tables) /\ t \notin Retired /\ t \notin Added(Tables)
  /\ Added(Tables) \cap Retired = {}
  /\ \A ts \in SUBSET Tables : Added(ts) \subseteq Added(Tables)
  /\ "unresolved_reason" \in Columns("operation_log")
<1>1. Tables = {"animes", "bridge_config", "operation_log", "sync_runtime_status",
                "pending_remote_changes", "sync_cycle_lock", "app_preferences"}
  BY DEF Tables, BaseTables, RepairTables
<1>2. \A ts \in SUBSET Tables : Added(ts) = UNION {Columns(t) : t \in ts}
  BY DEF Added, Columns
<1>3. \A t \in Tables : Columns(t) \subseteq
        {"last_changelog_id", "is_sync_telemetry_enabled", "season_mode", "execution_mode",
         "last_cycle_id", "last_applied_change_ms", "season", "conflict_attempt_count",
         "unresolved_reason", "fence", "anime_folders_root_uri"}
  BY <1>1, ColumnSets
<1>4. Retired = {"is_cycle_active", "last_pending_row_count", "active_season_cache"}
  BY ColumnSets DEF Retired
<1>5. \A c \in Added(Tables) : c \in 
        {"last_changelog_id", "is_sync_telemetry_enabled", "season_mode", "execution_mode",
         "last_cycle_id", "last_applied_change_ms", "season", "conflict_attempt_count",
         "unresolved_reason", "fence", "anime_folders_root_uri"}
  BY <1>2, <1>3
<1>6. \A t \in Tables : Columns(t) \subseteq Added(Tables)
  BY <1>2
<1>7. \A ts \in SUBSET Tables : Added(ts) \subseteq Added(Tables)
  BY <1>2
<1>8. Added(Tables) \cap Retired = {}
  BY <1>4, <1>5
<1>9. \A t \in Tables : t \notin Retired /\ t \notin Added(Tables)
  BY <1>1, <1>4, <1>5
<1> QED BY <1>6, <1>7, <1>8, <1>9, ColumnSets

\* No two steps of the preparation have a name in common, so the step after one is the next.
LEMMA StepOrder ==
  /\ DOMAIN Pipeline = 1 .. 13
  /\ \A k \in 1 .. 13 : \A j \in 1 .. 13 : Pipeline[k] = Pipeline[j] => j = k
  /\ \A k \in 1 .. 12 : StepAfter(Pipeline[k]) = Pipeline[k + 1]
<1>1. DOMAIN Pipeline = 1 .. 13 /\ Len(Pipeline) = 13
  BY DEF Pipeline
<1>2. \A k \in 1 .. 13 : \A j \in 1 .. 13 : Pipeline[k] = Pipeline[j] => j = k
  BY DEF Pipeline
<1>3. ASSUME NEW k \in 1 .. 12 PROVE StepAfter(Pipeline[k]) = Pipeline[k + 1]
  <2> DEFINE c == CHOOSE i \in 1 .. Len(Pipeline) - 1 : Pipeline[i] = Pipeline[k]
  <2>1. Len(Pipeline) - 1 = 12
    BY <1>1
  <2>2. c \in 1 .. 12 /\ Pipeline[c] = Pipeline[k]
    BY <2>1
  <2>3. StepAfter(Pipeline[k]) = Pipeline[1 + c]
    BY DEF StepAfter
  <2> HIDE DEF c
  <2>4. c = k
    BY <1>2, <2>2
  <2> QED BY <2>3, <2>4
<1> QED BY <1>1, <1>2, <1>3

\* The first of the columns that are missing is one of them.
LEMMA SmallestIndex ==
  ASSUME NEW S \in SUBSET (1 .. 3), S # {}
  PROVE  Min(S) \in S
<1>1. \E x \in S : \A y \in S : x <= y
  <2>1. CASE 1 \in S
    BY <2>1
  <2>2. CASE 1 \notin S /\ 2 \in S
    BY <2>2
  <2>3. CASE 1 \notin S /\ 2 \notin S
    <3>1. \A y \in S : y = 3
      BY <2>3
    <3>2. 3 \in S
      BY <3>1
    <3> QED BY <3>1, <3>2
  <2> QED BY <2>1, <2>2, <2>3
<1>2. Min(S) = CHOOSE x \in S : \A y \in S : x <= y
  BY DEF Min
<1> QED BY <1>1, <1>2

\* No list of columns has more than three.
LEMMA ColumnIndices ==
  /\ \A t \in Tables : DOMAIN ColumnsOf[t] \subseteq 1 .. 3
  /\ DOMAIN DeadColumns \subseteq 1 .. 3
<1>1. Tables = {"animes", "bridge_config", "operation_log", "sync_runtime_status",
                "pending_remote_changes", "sync_cycle_lock", "app_preferences"}
  BY DEF Tables, BaseTables, RepairTables
<1>2. DOMAIN ColumnsOf["animes"] \subseteq 1 .. 3 /\ DOMAIN ColumnsOf["bridge_config"] \subseteq 1 .. 3
  BY DEF ColumnsOf
<1>3. DOMAIN ColumnsOf["operation_log"] \subseteq 1 .. 3 /\ DOMAIN ColumnsOf["sync_runtime_status"] \subseteq 1 .. 3
  BY DEF ColumnsOf
<1>4. /\ DOMAIN ColumnsOf["pending_remote_changes"] \subseteq 1 .. 3
      /\ DOMAIN ColumnsOf["sync_cycle_lock"] \subseteq 1 .. 3
      /\ DOMAIN ColumnsOf["app_preferences"] \subseteq 1 .. 3
  BY DEF ColumnsOf
<1>5. DOMAIN DeadColumns \subseteq 1 .. 3
  BY DEF DeadColumns
<1>6. ASSUME NEW t \in Tables PROVE DOMAIN ColumnsOf[t] \subseteq 1 .. 3
  BY <1>1, <1>2, <1>3, <1>4, Zenon
<1> QED BY <1>5, <1>6

\* What was done before a step is what was done before the last one, and that; the migrations
\* come before every repair, operation_log before the queue and every table before the
\* validation.
LEMMA StepsTaken ==
  /\ ToSet(Pipeline) = {Pipeline[k] : k \in 1 .. 13}
  /\ \A step \in ToSet(Pipeline) \ {"validate"} :
       /\ StepAfter(step) \in ToSet(Pipeline)
       /\ StepsBefore(StepAfter(step)) = StepsBefore(step) \cup {step}
       /\ StepAfter(step) = "migrate" => step = "ledger"
  /\ StepsBefore("ledger") = {} /\ StepsBefore("closed") = {} /\ StepsBefore("ready") = {}
  /\ \A step \in Tables \cup {"dead", "queue", "cache", "validate"} : "migrate" \in StepsBefore(step)
  /\ "operation_log" \in StepsBefore("queue")
  /\ Tables \subseteq StepsBefore("validate")
  /\ Tables \cup {"ledger", "migrate", "dead", "queue", "cache", "validate"} = ToSet(Pipeline)
<1>1. ToSet(Pipeline) = {Pipeline[k] : k \in 1 .. 13}
  BY StepOrder DEF ToSet
<1>2. /\ Pipeline[1] = "ledger" /\ Pipeline[2] = "migrate" /\ Pipeline[3] = "bridge_config"
      /\ Pipeline[4] = "sync_runtime_status" /\ Pipeline[5] = "dead" /\ Pipeline[6] = "animes"
      /\ Pipeline[7] = "operation_log" /\ Pipeline[8] = "pending_remote_changes"
      /\ Pipeline[9] = "queue" /\ Pipeline[10] = "cache" /\ Pipeline[11] = "sync_cycle_lock"
      /\ Pipeline[12] = "app_preferences" /\ Pipeline[13] = "validate"
  BY DEF Pipeline
<1>3. \A k \in 1 .. 13 : StepsBefore(Pipeline[k]) = {Pipeline[j] : j \in 1 .. k - 1}
  BY StepOrder DEF StepsBefore
<1>4. ASSUME NEW step \in ToSet(Pipeline), step # "validate"
      PROVE  /\ StepAfter(step) \in ToSet(Pipeline)
             /\ StepsBefore(StepAfter(step)) = StepsBefore(step) \cup {step}
             /\ StepAfter(step) = "migrate" => step = "ledger"
  <2>1. PICK k \in 1 .. 13 : step = Pipeline[k]
    BY <1>1, <1>4
  <2>2. k \in 1 .. 12 /\ k + 1 \in 1 .. 13
    BY <2>1, <1>2, <1>4
  <2>3. StepAfter(step) = Pipeline[k + 1]
    BY <2>1, <2>2, StepOrder
  <2>4. StepsBefore(StepAfter(step)) = {Pipeline[j] : j \in 1 .. k} 
    BY <2>2, <2>3, <1>3
  <2>5. StepsBefore(step) = {Pipeline[j] : j \in 1 .. k - 1} 
    BY <2>1, <1>3
  <2>6. 1 .. k = (1 .. k - 1) \cup {k}
    BY <2>2
  <2>7. StepsBefore(StepAfter(step)) = StepsBefore(step) \cup {step}
    BY <2>1, <2>4, <2>5, <2>6
  <2>8. StepAfter(step) = "migrate" => step = "ledger"
    BY <1>2, <2>1, <2>2, <2>3, StepOrder
  <2> QED BY <1>1, <2>2, <2>3, <2>7, <2>8
<1>5. Tables = {"animes", "bridge_config", "operation_log", "sync_runtime_status",
                "pending_remote_changes", "sync_cycle_lock", "app_preferences"}
  BY DEF Tables, BaseTables, RepairTables
<1>6. StepsBefore("ledger") = {}
  BY <1>2, <1>3
<1>7. "closed" \notin ToSet(Pipeline) /\ "ready" \notin ToSet(Pipeline)
  BY <1>1 DEF Pipeline
<1>8. StepsBefore("closed") = {} /\ StepsBefore("ready") = {}
  BY <1>1, <1>7 DEF StepsBefore
<1>9. \A k \in 3 .. 13 : "migrate" \in StepsBefore(Pipeline[k])
  BY <1>2, <1>3
<1>10. "operation_log" \in StepsBefore("queue")
  BY <1>2, <1>3
<1>11. Tables \subseteq StepsBefore("validate")
  <2>1. \A j \in 1 .. 12 : Pipeline[j] \in StepsBefore("validate")
    BY <1>2, <1>3
  <2> QED BY <2>1, <1>2, <1>5
<1>12. \A step \in Tables \cup {"dead", "queue", "cache", "validate"} : "migrate" \in StepsBefore(step)
  BY <1>2, <1>5, <1>9
<1>13. ToSet(Pipeline) \subseteq Tables \cup {"ledger", "migrate", "dead", "queue", "cache", "validate"}
  BY <1>1, <1>5 DEF Pipeline
<1>14. Tables \cup {"ledger", "migrate", "dead", "queue", "cache", "validate"} \subseteq ToSet(Pipeline)
  BY <1>1, <1>2, <1>5
<1>15. Tables \cup {"ledger", "migrate", "dead", "queue", "cache", "validate"} = ToSet(Pipeline)
  BY <1>13, <1>14
<1> QED BY <1>1, <1>4, <1>6, <1>8, <1>10, <1>11, <1>12, <1>15

\* Every installed history satisfies it.
LEMMA HistoryInit == RepairInit => HistoryInv
<1> SUFFICES ASSUME RepairInit PROVE HistoryInv
  OBVIOUS
<1>1. at = "closed" /\ interrupts = 0 /\ open = NoWork
  BY DEF RepairInit
<1>2. DOMAIN open = {"on", "inserted", "dropped"} /\ open.on = "nothing" /\ open.dropped = {}
  BY <1>1 DEF NoWork
<1> DEFINE FileOnly ==
  /\ schema \subseteq Tables \cup Added(Tables) \cup Retired
  /\ ledger \in {"absent", "empty", "behind"} /\ stamped \in BOOLEAN
  /\ queue = NoQueue \/ queue \in Seq(QueuedRatings)
<1>3. ASSUME NothingInstalled PROVE FileOnly /\ NothingOrBase
  <2>1. schema = {} /\ ledger \in {"absent", "empty"} /\ stamped = FALSE /\ queue = NoQueue
    BY <1>3 DEF NothingInstalled
  <2> QED BY <2>1 DEF NothingOrBase
<1>4. ASSUME Installed PROVE FileOnly /\ NothingOrBase
  <2>1. queue = NoQueue \/ \E a, b \in QueuedRatings : queue = <<a, b>>
    BY <1>4 DEF Installed
  <2>2. ledger \in {"absent", "empty", "behind"} /\ stamped \in BOOLEAN
    BY <1>4 DEF Installed
  <2>3. PICK tables \in SUBSET RepairTables, old \in {{}, Retired} :
          \E lost \in SUBSET Added(BaseTables \cup tables) :
            schema = ((BaseTables \cup tables \cup Added(BaseTables \cup tables)) \ lost) \cup old
    BY <1>4 DEF Installed
  <2>4. PICK lost \in SUBSET Added(BaseTables \cup tables) :
          schema = ((BaseTables \cup tables \cup Added(BaseTables \cup tables)) \ lost) \cup old
    BY <2>3
  <2>5. BaseTables \cup tables \in SUBSET Tables
    BY DEF Tables
  <2>6. Added(BaseTables \cup tables) \subseteq Added(Tables)
    BY <2>5, ColumnFacts
  <2>7. \A t \in BaseTables : t \notin lost
    BY <2>5, <2>6, ColumnFacts
  <2>8. BaseTables \subseteq schema /\ schema \subseteq Tables \cup Added(Tables) \cup Retired
    BY <2>4, <2>5, <2>6, <2>7
  <2>9. queue = NoQueue \/ queue \in Seq(QueuedRatings)
    BY <2>1, QueueIsRows
  <2> QED BY <2>2, <2>8, <2>9 DEF NothingOrBase
<1>5. FileOnly /\ NothingOrBase
  BY <1>3, <1>4 DEF RepairInit
<1>6. StepsTookEffect
  BY <1>1, StepsTaken DEF StepsTookEffect
<1>7. RepairTypeOK
  BY <1>1, <1>2, <1>5, RepairAssumption DEF RepairTypeOK
<1> QED BY <1>1, <1>2, <1>5, <1>6, <1>7 DEF HistoryInv, Readied, LedgerPinned, OpenWork, EveryHistoryPrepares

\* What a step left behind stays where only what is retired goes.
LEMMA StaysBehind ==
  ASSUME NEW step, NEW before, NEW after, before \ Retired \subseteq after,
         LeavesBehind(step, before)
  PROVE  LeavesBehind(step, after)
<1>1. \A t \in Tables : t \notin Retired /\ Columns(t) \cap Retired = {}
  BY ColumnFacts
<1>2. BaseTables \subseteq Tables
  BY DEF Tables
<1> QED BY <1>1, <1>2 DEF LeavesBehind

\* Where neither the file nor its ledger changes, and the launch ends or waits.
LEMMA NothingMoves ==
  ASSUME HistoryInv, UNCHANGED <<schema, ledger>>, at' \in {at, "closed", "ready"}
  PROVE  NothingOrBase' /\ LedgerPinned' /\ StepsTookEffect' /\ EveryHistoryPrepares'
<1>1. NothingOrBase' /\ LedgerPinned' /\ EveryHistoryPrepares'
  BY DEF HistoryInv, Readied, NothingOrBase, LedgerPinned, EveryHistoryPrepares
<1>2. CASE at' = at
  <2>1. \A step \in StepsBefore(at') : LeavesBehind(step, schema')
    BY <1>2 DEF HistoryInv, Readied, StepsTookEffect
  <2> QED BY <1>1, <2>1 DEF StepsTookEffect
<1>3. CASE at' \in {"closed", "ready"}
  <2>1. StepsBefore(at') = {}
    BY <1>3, StepsTaken
  <2> QED BY <1>1, <2>1 DEF StepsTookEffect
<1> QED BY <1>2, <1>3

\* A repair step that is not over adds to the file, or drops what is retired.
LEMMA StepStays ==
  ASSUME HistoryInv, at \in ToSet(Pipeline) \ {"ledger", "migrate"}, at' = at, ledger' = ledger,
         schema \ Retired \subseteq schema'
  PROVE  NothingOrBase' /\ LedgerPinned' /\ StepsTookEffect' /\ EveryHistoryPrepares'
<1>1. LedgerPinned' /\ EveryHistoryPrepares'
  BY DEF HistoryInv, Readied, LedgerPinned, EveryHistoryPrepares
<1>2. \A step \in StepsBefore(at) : LeavesBehind(step, schema')
  BY StaysBehind DEF HistoryInv, Readied, StepsTookEffect
<1>3. "migrate" \in StepsBefore(at)
  BY StepsTaken
<1>4. BaseTables \subseteq schema'
  BY <1>2, <1>3 DEF LeavesBehind
<1> QED BY <1>1, <1>2, <1>4 DEF StepsTookEffect, NothingOrBase

\* A step ends that left behind what it is for.
LEMMA StepGoesOn ==
  ASSUME HistoryInv, at \in ToSet(Pipeline) \ {"ledger", "validate"}, at' = StepAfter(at),
         schema \ Retired \subseteq schema', LeavesBehind(at, schema')
  PROVE  /\ NothingOrBase' /\ LedgerPinned' /\ StepsTookEffect' /\ EveryHistoryPrepares'
         /\ at' \in ToSet(Pipeline)
<1>1. at' \in ToSet(Pipeline) /\ at' # "migrate" /\ StepsBefore(at') = StepsBefore(at) \cup {at}
  BY StepsTaken
<1>2. \A step \in StepsBefore(at) : LeavesBehind(step, schema')
  BY StaysBehind DEF HistoryInv, Readied, StepsTookEffect
<1>3. StepsTookEffect'
  BY <1>1, <1>2 DEF StepsTookEffect
<1>4. at' # "refused"
  BY <1>1, StepsTaken DEF Tables, BaseTables, RepairTables
<1>5. at = "migrate" \/ "migrate" \in StepsBefore(at)
  BY StepsTaken
<1>6. BaseTables \subseteq schema'
  BY <1>2, <1>5 DEF LeavesBehind
<1> QED BY <1>1, <1>3, <1>4, <1>6 DEF LedgerPinned, NothingOrBase, EveryHistoryPrepares

\* The ledger is pinned before the migrator runs.
LEMMA ReconcileKeeps ==
  HistoryInv /\ Reconcile => Readied' /\ FileTyped' /\ at' \in ToSet(Pipeline)
<1> SUFFICES ASSUME HistoryInv, Reconcile PROVE Readied' /\ FileTyped' /\ at' \in ToSet(Pipeline)
  OBVIOUS
<1>1. at = "ledger" /\ schema' = schema /\ FileTyped /\ at \in ToSet(Pipeline) /\ StepsBefore(at) = {}
  BY StepsTaken DEF Reconcile, HistoryInv, Readied, RepairTypeOK, FileTyped
<1>2. CASE "animes" \in schema /\ ledger # "newest"
  <2>1. ledger' \in {"empty", "newest"} /\ at' = at
    BY <1>2 DEF Reconcile, ReconcileLedger
  <2>2. BaseTables \subseteq schema
    BY <1>2 DEF HistoryInv, Readied, NothingOrBase
  <2>3. StepsTookEffect'
    BY <1>1, <2>1 DEF StepsTookEffect
  <2> QED BY <1>1, <2>1, <2>2, <2>3 DEF Readied, FileTyped, NothingOrBase, LedgerPinned, EveryHistoryPrepares
<1>3. CASE ~("animes" \in schema /\ ledger # "newest")
  <2>1. at' = StepAfter("ledger") /\ ledger' = ledger
    BY <1>3 DEF Reconcile, ReconcileLedger
  <2>2. StepsBefore(at') = {"ledger"} /\ at' \in ToSet(Pipeline)
    BY <1>1, <2>1, StepsTaken
  <2>3. at' # "refused"
    BY <2>2, StepsTaken DEF Tables, BaseTables, RepairTables
  <2>4. LeavesBehind("ledger", schema')
    BY DEF LeavesBehind, Tables, BaseTables, RepairTables
  <2>5. NothingOrBase
    BY DEF HistoryInv, Readied
  <2>6. schema = {} \/ ledger = "newest"
    BY <1>3, <2>5 DEF NothingOrBase, BaseTables
  <2> QED BY <1>1, <2>1, <2>2, <2>3, <2>4, <2>5, <2>6
          DEF Readied, FileTyped, NothingOrBase, LedgerPinned, StepsTookEffect, EveryHistoryPrepares
<1> QED BY <1>2, <1>3

\* The migrator runs over nothing, or has nothing to do.
LEMMA MigratorKeeps ==
  HistoryInv /\ RunMigrator => Readied' /\ FileTyped' /\ at' \in ToSet(Pipeline) /\ UNCHANGED <<queue, open>>
<1> SUFFICES ASSUME HistoryInv, RunMigrator
             PROVE  Readied' /\ FileTyped' /\ at' \in ToSet(Pipeline) /\ UNCHANGED <<queue, open>>
  OBVIOUS
<1>1. at = "migrate" /\ FileTyped /\ at \in ToSet(Pipeline) \ {"ledger", "validate"}
  BY StepsTaken DEF RunMigrator, HistoryInv, Readied, RepairTypeOK, FileTyped
<1>2. CASE ledger = "newest"
  <2>1. at' = StepAfter(at) /\ UNCHANGED <<schema, ledger, queue, open>>
    BY <1>2 DEF RunMigrator
  <2>2. BaseTables \subseteq schema
    BY <1>2 DEF HistoryInv, Readied, NothingOrBase
  <2>3. LeavesBehind(at, schema')
    BY <1>1, <2>1, <2>2 DEF LeavesBehind, Tables, BaseTables, RepairTables
  <2> QED BY <1>1, <2>1, <2>3, StepGoesOn DEF Readied, FileTyped
<1>3. CASE ledger # "newest"
  <2>1. schema = {}
    BY <1>1, <1>3 DEF HistoryInv, Readied, LedgerPinned
  <2>2. schema' = Migrated /\ ledger' = "newest" /\ at' = StepAfter(at) /\ UNCHANGED <<queue, open>>
    BY <1>3, <2>1 DEF RunMigrator
  <2>3. Added(BaseTables) \subseteq Added(Tables) /\ BaseTables \subseteq Tables
    BY ColumnFacts DEF Tables
  <2>4. Migrated \subseteq Tables \cup Added(Tables) /\ BaseTables \subseteq Migrated
    BY <2>3 DEF Migrated, Tables, RepairTables
  <2>5. LeavesBehind(at, schema')
    BY <1>1, <2>2, <2>4 DEF LeavesBehind, Tables, BaseTables, RepairTables
  <2> QED BY <1>1, <2>1, <2>2, <2>4, <2>5, StepGoesOn DEF Readied, FileTyped
<1> QED BY <1>2, <1>3

\* A table to repair is there, or is created: no ALTER is refused.
LEMMA RepairKeeps ==
  HistoryInv /\ RepairTable => Readied' /\ FileTyped' /\ at' \in ToSet(Pipeline) /\ UNCHANGED <<queue, open>>
<1> SUFFICES ASSUME HistoryInv, RepairTable
             PROVE  Readied' /\ FileTyped' /\ at' \in ToSet(Pipeline) /\ UNCHANGED <<queue, open>>
  OBVIOUS
<1>1. /\ at \in Tables /\ FileTyped
      /\ at \in ToSet(Pipeline) \ {"ledger", "migrate", "validate"}
  BY StepsTaken DEF RepairTable, HistoryInv, Readied, RepairTypeOK, FileTyped, Tables, BaseTables, RepairTables
<1>2. Columns(at) \subseteq Added(Tables)
  BY <1>1, ColumnFacts
<1>3. CASE at \in RepairTables \ schema
  <2>1. schema' = schema \cup {at} \cup Columns(at) /\ UNCHANGED <<at, ledger, queue, open>>
    BY <1>3 DEF RepairTable, CreateTable, Columns
  <2> QED BY <1>1, <1>2, <2>1, StepStays DEF Readied, FileTyped
<1>4. CASE at \notin RepairTables \ schema
  <2> DEFINE missing == {i \in DOMAIN ColumnsOf[at] : ColumnsOf[at][i] \notin schema}
  <2>1. AddColumn(at)
    BY <1>4 DEF RepairTable
  <2>2. at \in schema
    <3>1. BaseTables \subseteq schema
      <4>1. "migrate" \in StepsBefore(at)
        BY <1>1, StepsTaken
      <4> QED BY <4>1 DEF HistoryInv, Readied, StepsTookEffect, LeavesBehind
    <3> QED BY <1>1, <1>4, <3>1 DEF Tables
  <2>3. CASE missing = {}
    <3>1. at' = StepAfter(at) /\ UNCHANGED <<schema, ledger, queue, open>>
      BY <2>1, <2>3 DEF AddColumn
    <3>2. Columns(at) \subseteq schema
      BY <2>3 DEF Columns, ToSet
    <3>3. LeavesBehind(at, schema')
      BY <1>1, <2>2, <3>1, <3>2 DEF LeavesBehind
    <3> QED BY <1>1, <3>1, <3>3, StepGoesOn DEF Readied, FileTyped
  <2>4. CASE missing # {}
    <3>1. schema' = schema \cup {ColumnsOf[at][Min(missing)]} /\ UNCHANGED <<at, ledger, queue, open>>
      BY <2>1, <2>2, <2>4 DEF AddColumn
    <3>2. missing \in SUBSET (1 .. 3)
      BY <1>1, ColumnIndices
    <3>3. Min(missing) \in missing
      BY <2>4, <3>2, SmallestIndex
    <3>4. ColumnsOf[at][Min(missing)] \in Columns(at)
      BY <3>3 DEF Columns, ToSet
    <3> QED BY <1>1, <1>2, <3>1, <3>4, StepStays DEF Readied, FileTyped
  <2> QED BY <2>3, <2>4
<1> QED BY <1>3, <1>4

\* Without a transaction.
LEMMA NoWorkOpen == open' = NoWork => OpenWork'
  BY DEF OpenWork, NoWork

\* The dead columns go, and nothing else.
LEMMA DropKeeps ==
  HistoryInv /\ DropDead => Readied' /\ FileTyped' /\ at' \in ToSet(Pipeline) /\ OpenWork' /\ queue' = queue
<1> SUFFICES ASSUME HistoryInv, DropDead
             PROVE  Readied' /\ FileTyped' /\ at' \in ToSet(Pipeline) /\ OpenWork' /\ queue' = queue
  OBVIOUS
<1> DEFINE dead == {i \in DOMAIN DeadColumns : DeadColumns[i] \in schema \ open.dropped}
<1>1. /\ at = "dead" /\ at \notin Tables /\ FileTyped /\ UNCHANGED <<ledger, queue>>
      /\ at \in ToSet(Pipeline) \ {"ledger", "migrate", "validate"}
  BY StepsTaken DEF DropDead, HistoryInv, Readied, RepairTypeOK, FileTyped, Tables, BaseTables, RepairTables
<1>2. CASE dead # {}
  <2>1. open' = [open EXCEPT !.on = "dead", !.dropped = @ \cup {DeadColumns[Min(dead)]}] /\ UNCHANGED <<schema, at>>
    BY <1>2 DEF DropDead
  <2>2. Min(dead) \in dead
    BY <1>2, ColumnIndices, SmallestIndex
  <2>3. DeadColumns[Min(dead)] \in Retired
    BY <2>2 DEF Retired, ToSet
  <2>4. open'.on = "dead" /\ open'.dropped \subseteq Retired /\ DOMAIN open' = {"on", "inserted", "dropped"}
    <3> DEFINE c == DeadColumns[Min(dead)]
    <3>1. c \in Retired /\ open' = [open EXCEPT !.on = "dead", !.dropped = @ \cup {c}]
      BY <2>1, <2>3
    <3> HIDE DEF c
    <3> QED BY <3>1 DEF HistoryInv, Readied, OpenWork
  <2> QED BY <1>1, <2>1, <2>4, StepStays DEF Readied, FileTyped, OpenWork
<1>3. CASE dead = {}
  <2>1. schema' = schema \ open.dropped /\ open' = NoWork /\ at' = StepAfter(at)
    BY <1>3 DEF DropDead
  <2>2. schema \ Retired \subseteq schema'
    BY <2>1 DEF HistoryInv, Readied, OpenWork
  <2>3. LeavesBehind(at, schema')
    BY <1>1 DEF LeavesBehind
  <2> QED BY <1>1, <2>1, <2>2, <2>3, StepGoesOn, NoWorkOpen DEF Readied, FileTyped
<1> QED BY <1>2, <1>3

\* The retired cache goes, and nothing else.
LEMMA CacheKeeps ==
  HistoryInv /\ DropCache => Readied' /\ FileTyped' /\ at' \in ToSet(Pipeline) /\ UNCHANGED <<queue, open>>
<1> SUFFICES ASSUME HistoryInv, DropCache
             PROVE  Readied' /\ FileTyped' /\ at' \in ToSet(Pipeline) /\ UNCHANGED <<queue, open>>
  OBVIOUS
<1>1. /\ at = "cache" /\ FileTyped /\ UNCHANGED <<ledger, queue, open>> /\ at' = StepAfter(at)
      /\ at \in ToSet(Pipeline) \ {"ledger", "migrate", "validate"} /\ at \notin Tables
      /\ schema' = schema \ {"active_season_cache"}
  BY StepsTaken DEF DropCache, HistoryInv, Readied, RepairTypeOK, FileTyped, Tables, BaseTables, RepairTables
<1>2. schema \ Retired \subseteq schema'
  BY <1>1 DEF Retired
<1>3. LeavesBehind(at, schema')
  BY <1>1 DEF LeavesBehind
<1> QED BY <1>1, <1>2, <1>3, StepGoesOn DEF Readied, FileTyped

\* The queue moves into an operation_log that has its columns.
LEMMA MoveKeeps ==
  HistoryInv /\ MoveQueue =>
    /\ Readied' /\ FileTyped' /\ at' \in ToSet(Pipeline) /\ OpenWork'
    /\ queue' \in {queue, NoQueue}
<1> SUFFICES ASSUME HistoryInv, MoveQueue
             PROVE  /\ Readied' /\ FileTyped' /\ at' \in ToSet(Pipeline) /\ OpenWork'
                    /\ queue' \in {queue, NoQueue}
  OBVIOUS
<1>1. /\ at = "queue" /\ at \notin Tables /\ FileTyped
      /\ at \in ToSet(Pipeline) \ {"ledger", "migrate", "validate"}
      /\ open.on = "queue" => queue # NoQueue
      /\ open.on \in {"nothing", "queue"} /\ DOMAIN open = {"on", "inserted", "dropped"}
      /\ open.dropped \subseteq Retired
  BY StepsTaken DEF MoveQueue, HistoryInv, Readied, RepairTypeOK, FileTyped, OpenWork, Tables, BaseTables, RepairTables
<1>2. LeavesBehind(at, schema)
  BY <1>1 DEF LeavesBehind
<1>3. "unresolved_reason" \in schema
  <2>1. "operation_log" \in StepsBefore(at) /\ "operation_log" \in Tables
    BY <1>1, StepsTaken DEF Tables, BaseTables
  <2>2. Columns("operation_log") \subseteq schema
    BY <2>1 DEF HistoryInv, Readied, StepsTookEffect, LeavesBehind
  <2> QED BY <2>2, ColumnFacts
<1>4. CASE queue = NoQueue
  <2>1. at' = StepAfter(at) /\ UNCHANGED <<schema, ledger, queue, open>>
    BY <1>4 DEF MoveQueue
  <2> QED BY <1>1, <1>2, <1>4, <2>1, StepGoesOn DEF Readied, FileTyped, OpenWork
<1>5. CASE queue # NoQueue /\ Len(open.inserted) < Len(queue)
  <2> DEFINE row == queue[Len(open.inserted) + 1]
  <2>1. InsertQueued(row)
    BY <1>5 DEF MoveQueue
  <2>2. /\ open' = [open EXCEPT !.on = "queue", !.inserted = Append(@, MapQueued(row))]
        /\ UNCHANGED <<schema, ledger, queue, at>>
    BY <2>1, <1>3 DEF InsertQueued
  <2>3. open'.on = "queue" /\ open'.dropped = open.dropped /\ DOMAIN open' = DOMAIN open
    <3> DEFINE new == Append(open.inserted, MapQueued(row))
    <3>1. open' = [open EXCEPT !.on = "queue", !.inserted = new]
      BY <2>2
    <3> HIDE DEF new
    <3> QED BY <1>1, <3>1
  <2> QED BY <1>1, <1>5, <2>2, <2>3, StepStays DEF Readied, FileTyped, OpenWork
<1>6. CASE queue # NoQueue /\ ~(Len(open.inserted) < Len(queue))
  <2>1. queue' = NoQueue /\ open' = NoWork /\ at' = StepAfter(at) /\ UNCHANGED <<schema, ledger>>
    BY <1>6 DEF MoveQueue
  <2> QED BY <1>1, <1>2, <2>1, StepGoesOn, NoWorkOpen DEF Readied, FileTyped
<1> QED BY <1>4, <1>5, <1>6

\* What reaches the validation has every table and column.
LEMMA SchemaIsWhole == HistoryInv /\ at = "validate" => Whole(schema)
<1> SUFFICES ASSUME HistoryInv, at = "validate" PROVE Whole(schema)
  OBVIOUS
<1>1. \A t \in Tables : {t} \cup Columns(t) \subseteq schema
  BY StepsTaken DEF HistoryInv, Readied, StepsTookEffect, LeavesBehind
<1>2. Added(Tables) = UNION {Columns(t) : t \in Tables}
  BY DEF Added, Columns
<1> QED BY <1>1, <1>2 DEF Whole

\* A transaction is only open in its own step.
LEMMA StillOpen ==
  ASSUME HistoryInv, UNCHANGED <<open, queue>>, at' = at \/ at \notin {"dead", "queue"}
  PROVE  OpenWork'
  BY DEF HistoryInv, Readied, RepairTypeOK, OpenWork

\* Every step of a preparation keeps it.
LEMMA HistoryStep == HistoryInv /\ [RepairNext]_repairVars => HistoryInv'
<1> SUFFICES ASSUME HistoryInv, [RepairNext]_repairVars PROVE HistoryInv'
  OBVIOUS
<1> DEFINE Rest ==
  /\ stamped' \in BOOLEAN /\ interrupts' \in 0 .. MaxInterrupt
  /\ at' \in ToSet(Pipeline) \cup {"closed", "ready"} /\ queue' \in {queue, NoQueue}
<1>1. /\ FileTyped /\ stamped \in BOOLEAN /\ interrupts \in 0 .. MaxInterrupt
      /\ at \in ToSet(Pipeline) \cup {"closed", "ready"}
      /\ queue = NoQueue \/ queue \in Seq(QueuedRatings)
  BY DEF HistoryInv, Readied, RepairTypeOK, FileTyped, EveryHistoryPrepares
<1>2. ASSUME Readied', FileTyped', OpenWork', Rest PROVE HistoryInv'
  <2>1. RepairTypeOK'
    BY <1>1, <1>2 DEF RepairTypeOK, FileTyped, OpenWork
  <2> QED BY <1>2, <2>1 DEF HistoryInv, Readied, OpenWork
<1> DEFINE Quiet == UNCHANGED <<stamped, rated, interrupts>>
<1>3. CASE PrepareStarts
  <2>1. /\ at = "closed" /\ at' \in {"ready", "ledger"}
        /\ UNCHANGED <<schema, ledger, stamped, queue, open, interrupts>>
    BY <1>3 DEF PrepareStarts
  <2>2. Readied'
    <3>1. StepsBefore(at') = {} /\ at' \notin {"migrate", "refused"}
      BY <2>1, StepsTaken
    <3> QED BY <2>1, <3>1 DEF HistoryInv, Readied, NothingOrBase, LedgerPinned, StepsTookEffect, EveryHistoryPrepares
  <2>3. at' \in ToSet(Pipeline) \cup {"ready"}
    BY <2>1, StepsTaken
  <2> QED BY <1>1, <1>2, <2>1, <2>2, <2>3, StillOpen DEF FileTyped
<1>4. CASE Interrupted
  <2>1. /\ at' = "closed" /\ open' = NoWork /\ interrupts < MaxInterrupt /\ interrupts' = interrupts + 1
        /\ UNCHANGED <<schema, ledger, stamped, queue>>
    BY <1>4 DEF Interrupted
  <2>2. interrupts' \in 0 .. MaxInterrupt
    BY <1>1, <2>1, RepairAssumption
  <2> QED BY <1>1, <1>2, <2>1, <2>2, NothingMoves, NoWorkOpen DEF FileTyped, Readied
<1>5. CASE Reconcile /\ Quiet
  <2>1. at = "ledger" /\ UNCHANGED <<queue, open>>
    BY <1>5 DEF Reconcile
  <2> QED BY <1>1, <1>2, <1>5, <2>1, ReconcileKeeps, StillOpen
<1>6. CASE RunMigrator /\ Quiet
  <2>1. at = "migrate"
    BY <1>6 DEF RunMigrator
  <2> QED BY <1>1, <1>2, <1>6, <2>1, MigratorKeeps, StillOpen
<1>7. CASE RepairTable /\ Quiet
  <2>1. at \notin {"dead", "queue"}
    BY <1>7 DEF RepairTable, Tables, BaseTables, RepairTables
  <2> QED BY <1>1, <1>2, <1>7, <2>1, RepairKeeps, StillOpen
<1>8. CASE DropDead /\ Quiet
  BY <1>1, <1>2, <1>8, DropKeeps
<1>9. CASE MoveQueue /\ Quiet
  BY <1>1, <1>2, <1>9, MoveKeeps
<1>10. CASE DropCache /\ Quiet
  <2>1. at = "cache"
    BY <1>10 DEF DropCache
  <2> QED BY <1>1, <1>2, <1>10, <2>1, CacheKeeps, StillOpen
<1>11. CASE Validate /\ UNCHANGED <<rated, interrupts>>
  <2>1. at = "validate"
    BY <1>11 DEF Validate
  <2>2. Whole(schema)
    BY <2>1, SchemaIsWhole
  <2>3. at' = "ready" /\ stamped' = TRUE /\ UNCHANGED <<schema, ledger, queue, open>>
    BY <1>11, <2>2 DEF Validate
  <2> QED BY <1>1, <1>2, <1>11, <2>1, <2>3, NothingMoves, StillOpen DEF FileTyped, Readied
<1>12. CASE UNCHANGED repairVars
  <2>1. UNCHANGED <<schema, ledger, stamped, queue, at, open, interrupts>>
    BY <1>12 DEF repairVars, preparation
  <2> QED BY <1>1, <1>2, <2>1, NothingMoves, StillOpen DEF FileTyped, Readied
<1> QED BY <1>3, <1>4, <1>5, <1>6, <1>7, <1>8, <1>9, <1>10, <1>11, <1>12 DEF RepairNext

\* For any columns, repair tables and ledger a device was left with since migration 0002, and any
\* number of launches interrupted at any statement: no statement of a preparation is refused, and
\* what it prepared validates.
THEOREM AnyHistoryPrepares == RepairSpec => []EveryHistoryPrepares
<1>1. HistoryInv => EveryHistoryPrepares
  BY DEF HistoryInv, Readied
<1> QED BY <1>1, HistoryInit, HistoryStep, PTL DEF RepairSpec

\* The file holds only tables and columns of the program, and a transaction is open only in the
\* step it belongs to.
THEOREM RepairTypes == RepairSpec => []RepairTypeOK
<1>1. HistoryInv => RepairTypeOK
  BY DEF HistoryInv, Readied
<1> QED BY <1>1, HistoryInit, HistoryStep, PTL DEF RepairSpec

(***************************************************************************)
(* The pairing screen.                                                     *)
(***************************************************************************)

\* The tabs are left with nothing of a setup screen behind them.
TabsAreClean ==
  route = "tabs" => initialUrl = "none" /\ handledUrl = "none" /\ inView = "none"

\* A link the mounted screen has not handled is one on offer, or one a re-pair takes for the
\* launch's.
LinksAreOffered ==
  url \notin {"none", handledUrl} /\ OnSetup =>
    \/ <<"link", url>> \in offered
    \/ route = "repair" /\ initialUrl \in {"none", url}

\* So is a code before the camera that was not taken.
CodesAreOffered == inView \notin {"none", scanned} => <<"code", inView>> \in offered

Pairings == [stage : {"none", "asking", "fetching", "saving", "late", "over"},
             here : BOOLEAN, offer : Offers \cup {Button}]

DeviceInv ==
  /\ pairings \in [PairingIds -> Pairings]
  /\ TabsAreClean /\ LinksAreOffered /\ CodesAreOffered

\* What a link or a code reads.
TextsRead == url \in Texts \cup {"none"} /\ inView \in Texts \cup {"none"}

\* The step of OnlyAskedFor.
AskedFor ==
  \A i \in PairingIds : (At(i, "none") /\ pairings'[i].stage = "asking")
                          => pairings'[i].offer \in offered \cup {Button}

LEMMA DeviceInitInv == DeviceInit => DeviceInv
  BY SetupAssumption DEF DeviceInit, DeviceInv, TabsAreClean, LinksAreOffered, CodesAreOffered,
    Pairings, NoPairing, OnSetup, Texts, Offers

\* A pairing that starts, on behalf of something that was offered or of the button.
LEMMA SubmitAsked ==
  ASSUME pairings \in [PairingIds -> Pairings], NEW offer \in Offers \cup {Button},
         offer \in offered \cup {Button}, Submit(offer)
  PROVE  pairings' \in [PairingIds -> Pairings] /\ AskedFor /\ offered' = offered \ {offer}
<1> DEFINE new == [stage |-> "asking", here |-> TRUE, offer |-> offer]
<1>1. PICK i \in PairingIds : pairings' = [pairings EXCEPT ![i] = new]
  BY DEF Submit
<1>2. new \in Pairings /\ new.offer = offer
  BY DEF Pairings
<1> HIDE DEF new
<1>3. pairings' \in [PairingIds -> Pairings]
  BY <1>1, <1>2
<1>4. ASSUME NEW j \in PairingIds, At(j, "none"), pairings'[j].stage = "asking"
      PROVE  pairings'[j].offer \in offered \cup {Button}
  <2>1. CASE j = i
    BY <2>1, <1>1, <1>2
  <2>2. CASE j # i
    BY <2>2, <1>1, <1>4 DEF At
  <2> QED BY <2>1, <2>2
<1> QED BY <1>3, <1>4 DEF AskedFor, Submit

\* A link or a code that was offered is read.
LEMMA IncomingAsked ==
  ASSUME pairings \in [PairingIds -> Pairings], NEW offer \in Offers, offer \in offered,
         Incoming(offer)
  PROVE  pairings' \in [PairingIds -> Pairings] /\ AskedFor /\ offered' = offered \ {offer}
<1>1. CASE offer[2] \in Payloads
  BY <1>1, SubmitAsked DEF Incoming
<1>2. CASE offer[2] \notin Payloads
  BY <1>2 DEF Incoming, AskedFor, At
<1> QED BY <1>1, <1>2

\* No pairing starts where no pairing changes.
LEMMA NobodyStarts ==
  ASSUME pairings \in [PairingIds -> Pairings], pairings' = pairings
  PROVE  pairings' \in [PairingIds -> Pairings] /\ AskedFor
  BY DEF AskedFor, At

\* A pairing is edited without one starting.
LEMMA PairingEdited ==
  ASSUME pairings \in [PairingIds -> Pairings], NEW i \in PairingIds, NEW p \in Pairings,
         pairings' = [pairings EXCEPT ![i] = p], p.stage # "asking"
  PROVE  pairings' \in [PairingIds -> Pairings] /\ AskedFor
<1>1. /\ pairings' \in [PairingIds -> Pairings] /\ pairings'[i] = p
      /\ \A j \in PairingIds \ {i} : pairings'[j] = pairings[j]
  OBVIOUS
<1> QED BY <1>1 DEF AskedFor, At

\* A rendering keeps a code before the camera, or clears it.
LEMMA Drawn ==
  Draw => (UNCHANGED <<scanned, inView>> \/ inView' = "none")
  BY DEF Draw

\* Links and codes are told apart, and neither is the button.
LEMMA OffersDiffer ==
  ASSUME NEW t, NEW u
  PROVE  <<"link", t>> # <<"code", u>> /\ <<"link", t>> # Button /\ <<"code", t>> # Button
  BY DEF Button

LEMMA HandlePairInv == DeviceInv /\ HandlePair => DeviceInv' /\ AskedFor
<1> SUFFICES ASSUME DeviceInv, HandlePair PROVE DeviceInv' /\ AskedFor
  OBVIOUS
<1>1. /\ pairings' \in [PairingIds -> Pairings] /\ AskedFor /\ offered' = offered \ {Button}
  BY SubmitAsked DEF HandlePair, DeviceInv
<1>2. UNCHANGED <<scanned, inView>> \/ inView' = "none"
  BY Drawn DEF HandlePair
<1>3. LinksAreOffered'
  BY <1>1, OffersDiffer DEF HandlePair, DeviceInv, LinksAreOffered, OnSetup
<1>4. CodesAreOffered'
  BY <1>1, <1>2, OffersDiffer DEF HandlePair, DeviceInv, CodesAreOffered
<1>5. TabsAreClean'
  BY DEF HandlePair, TabsAreClean, OnSetup
<1> QED BY <1>1, <1>3, <1>4, <1>5 DEF DeviceInv

LEMMA HandleLinkInv == DeviceInv /\ TextsRead /\ HandleLink => DeviceInv' /\ AskedFor
<1> SUFFICES ASSUME DeviceInv, TextsRead, HandleLink PROVE DeviceInv' /\ AskedFor
  OBVIOUS
<1> DEFINE first == IF initialUrl = "none" THEN url ELSE initialUrl
<1>1. CASE IsStaleLink(first)
  <2>1. pairings' = pairings /\ offered' = offered
    BY <1>1 DEF HandleLink
  <2> QED BY <2>1, NobodyStarts
        DEF HandleLink, DeviceInv, TabsAreClean, LinksAreOffered, CodesAreOffered, OnSetup
<1>2. CASE ~IsStaleLink(first)
  <2>1. <<"link", url>> \in offered
    BY <1>2 DEF HandleLink, IsStaleLink, DeviceInv, LinksAreOffered, OnSetup
  <2>2. <<"link", url>> \in Offers /\ Incoming(<<"link", url>>)
    BY <1>2 DEF HandleLink, Offers, TextsRead
  <2>3. /\ pairings' \in [PairingIds -> Pairings] /\ AskedFor
        /\ offered' = offered \ {<<"link", url>>}
    BY <2>1, <2>2, IncomingAsked DEF DeviceInv
  <2> QED BY <2>3, OffersDiffer
        DEF HandleLink, DeviceInv, TabsAreClean, LinksAreOffered, CodesAreOffered, OnSetup
<1> QED BY <1>1, <1>2

LEMMA BarcodeInv == DeviceInv /\ TextsRead /\ BarcodeScanned => DeviceInv' /\ AskedFor
<1> SUFFICES ASSUME DeviceInv, TextsRead, BarcodeScanned PROVE DeviceInv' /\ AskedFor
  OBVIOUS
<1>1. <<"code", inView>> \in offered /\ <<"code", inView>> \in Offers
  BY DEF BarcodeScanned, DeviceInv, CodesAreOffered, Offers, TextsRead
<1>2. /\ pairings' \in [PairingIds -> Pairings] /\ AskedFor
      /\ offered' = offered \ {<<"code", inView>>}
  BY <1>1, IncomingAsked DEF BarcodeScanned, DeviceInv
<1>3. LinksAreOffered'
  BY <1>2, OffersDiffer DEF BarcodeScanned, DeviceInv, LinksAreOffered, OnSetup
<1>4. CodesAreOffered' /\ TabsAreClean'
  BY DEF BarcodeScanned, CodesAreOffered, TabsAreClean, OnSetup
<1> QED BY <1>2, <1>3, <1>4 DEF DeviceInv

\* Links stay on offer when the scanner is closed.
LEMMA LinksStay ==
  ASSUME NEW t, <<"link", t>> \in offered
  PROVE  <<"link", t>> \in Links(offered)
  BY DEF Links

LEMMA ScreenInv ==
  DeviceInv /\ (OpenScanner \/ CloseScanner \/ Render) => DeviceInv' /\ AskedFor
<1> SUFFICES ASSUME DeviceInv, OpenScanner \/ CloseScanner \/ Render PROVE DeviceInv' /\ AskedFor
  OBVIOUS
<1>1. /\ OnSetup /\ Draw
      /\ offered' = offered \/ (offered' = Links(offered) /\ ~scannerVisible')
      /\ UNCHANGED <<route, url, initialUrl, handledUrl, pairings>>
  BY DEF OpenScanner, CloseScanner, Render
<1>2. pairings' \in [PairingIds -> Pairings] /\ AskedFor
  BY <1>1, NobodyStarts DEF DeviceInv
<1>3. CodesAreOffered'
  BY <1>1 DEF DeviceInv, CodesAreOffered, Draw
<1>4. LinksAreOffered'
  BY <1>1, LinksStay DEF DeviceInv, LinksAreOffered, OnSetup
<1>5. TabsAreClean'
  BY <1>1 DEF TabsAreClean, OnSetup
<1> QED BY <1>2, <1>3, <1>4, <1>5 DEF DeviceInv

LEMMA OffersInv ==
  ASSUME NEW t \in Texts, DeviceInv, LinkOpened(t) \/ ShowCode(t)
  PROVE  DeviceInv' /\ AskedFor
<1>1. pairings' \in [PairingIds -> Pairings] /\ AskedFor
  BY NobodyStarts DEF DeviceInv, LinkOpened, ShowCode
<1>2. CASE LinkOpened(t)
  <2>1. <<"code", inView>> \in offered => <<"code", inView>> \in offered'
    BY <1>2, OffersDiffer DEF LinkOpened, Links
  <2> QED BY <2>1, <1>1, <1>2
        DEF DeviceInv, LinkOpened, TabsAreClean, LinksAreOffered, CodesAreOffered, screenVars
<1>3. CASE ShowCode(t)
  BY <1>1, <1>3 DEF DeviceInv, ShowCode, TabsAreClean, LinksAreOffered, CodesAreOffered, OnSetup
<1> QED BY <1>2, <1>3

\* Steps of a pairing that has started.
LEMMA PairingsInv ==
  ASSUME NEW i \in PairingIds, DeviceInv,
         PairingProceeds(i) \/ PairingFails(i) \/ LateWriteEnds(i)
  PROVE  DeviceInv' /\ AskedFor
<1>1. pairings' \in [PairingIds -> Pairings] /\ AskedFor
  <2>1. pairings[i] \in Pairings
    BY DEF DeviceInv
  <2>2. PICK p \in Pairings : pairings' = [pairings EXCEPT ![i] = p] /\ p.stage # "asking"
    <3>1. CASE PairingProceeds(i)
      <4>1. CASE pairings' = [pairings EXCEPT ![i].stage = "fetching", ![i].offer = Button]
        <5> DEFINE q == [[pairings[i] EXCEPT !.stage = "fetching"] EXCEPT !.offer = Button]
        <5>1. q \in Pairings /\ q.stage = "fetching"
          BY <2>1 DEF Pairings
        <5>2. pairings' = [pairings EXCEPT ![i] = q]
          BY <4>1 DEF DeviceInv
        <5> QED BY <5>1, <5>2
      <4>2. CASE pairings' = [pairings EXCEPT ![i].stage = "saving"]
        <5> DEFINE q == [pairings[i] EXCEPT !.stage = "saving"]
        <5>1. q \in Pairings /\ q.stage = "saving"
          BY <2>1 DEF Pairings
        <5> QED BY <5>1, <4>2
      <4> QED BY <3>1, <4>1, <4>2 DEF PairingProceeds
    <3>2. CASE PairingFails(i)
      <4>1. PICK ended \in {"over", "late"} :
              pairings' = [pairings EXCEPT ![i] = [NoPairing EXCEPT !.stage = ended]]
        BY <3>2 DEF PairingFails
      <4> DEFINE q == [NoPairing EXCEPT !.stage = ended]
      <4>2. q \in Pairings /\ q.stage = ended
        BY DEF Pairings, NoPairing
      <4> QED BY <4>1, <4>2
    <3>3. CASE LateWriteEnds(i)
      <4> DEFINE q == [pairings[i] EXCEPT !.stage = "over"]
      <4>1. q \in Pairings /\ q.stage = "over"
        BY <2>1 DEF Pairings
      <4> QED BY <4>1, <3>3 DEF LateWriteEnds
    <3> QED BY <3>1, <3>2, <3>3
  <2> QED BY <2>2, PairingEdited DEF DeviceInv
<1>2. UNCHANGED <<route, url, initialUrl, handledUrl, scanned, inView, offered>>
  BY DEF PairingProceeds, PairingFails, LateWriteEnds, screenVars
<1> QED BY <1>1, <1>2 DEF DeviceInv, TabsAreClean, LinksAreOffered, CodesAreOffered, OnSetup

LEMMA SavesInv ==
  ASSUME NEW i \in PairingIds, DeviceInv, PairingSaves(i)
  PROVE  DeviceInv' /\ AskedFor
<1> DEFINE saved == [NoPairing EXCEPT !.stage = "over"]
<1>1. saved \in Pairings /\ saved.stage = "over"
  BY DEF Pairings, NoPairing
<1> HIDE DEF saved
<1>2. ASSUME NEW j \in PairingIds
      PROVE  /\ pairings'[j] \in Pairings
             /\ pairings'[j].stage = "asking" => pairings[j].stage = "asking"
  <2>1. pairings'[j] = IF j = i THEN saved ELSE [pairings[j] EXCEPT !.here = FALSE]
    BY DEF PairingSaves, saved
  <2>2. pairings[j] \in Pairings
    BY DEF DeviceInv
  <2>3. [pairings[j] EXCEPT !.here = FALSE] \in Pairings
        /\ [pairings[j] EXCEPT !.here = FALSE].stage = pairings[j].stage
    BY <2>2 DEF Pairings
  <2> QED BY <2>1, <2>3, <1>1
<1>3. pairings' \in [PairingIds -> Pairings]
  BY <1>2 DEF PairingSaves
<1>4. AskedFor
  BY <1>2 DEF AskedFor, At
<1> QED BY <1>3, <1>4 DEF DeviceInv, TabsAreClean, LinksAreOffered, CodesAreOffered, OnSetup,
          PairingSaves, Unmount

LEMMA RePairInv == DeviceInv /\ RePair => DeviceInv' /\ AskedFor
<1> SUFFICES ASSUME DeviceInv, RePair PROVE DeviceInv' /\ AskedFor
  OBVIOUS
<1>1. pairings' \in [PairingIds -> Pairings] /\ AskedFor
  BY NobodyStarts DEF DeviceInv, RePair
<1> QED BY <1>1 DEF DeviceInv, TabsAreClean, LinksAreOffered, CodesAreOffered, RePair, screenVars

LEMMA TextsStep == TextsRead /\ [DeviceNext]_deviceVars => TextsRead'
<1> SUFFICES ASSUME TextsRead, [DeviceNext]_deviceVars PROVE TextsRead'
  OBVIOUS
<1> USE DEF TextsRead
<1>1. CASE HandlePair \/ OpenScanner \/ CloseScanner \/ Render
  BY <1>1, Drawn DEF HandlePair, OpenScanner, CloseScanner, Render
<1>2. CASE HandleLink \/ BarcodeScanned
  BY <1>2 DEF HandleLink, BarcodeScanned
<1>3. ASSUME NEW t \in Texts, LinkOpened(t) \/ ShowCode(t) PROVE TextsRead'
  BY <1>3 DEF LinkOpened, ShowCode, screenVars
<1>4. ASSUME NEW i \in PairingIds,
             PairingProceeds(i) \/ PairingFails(i) \/ PairingSaves(i) \/ LateWriteEnds(i)
      PROVE  TextsRead'
  BY <1>4 DEF PairingProceeds, PairingFails, PairingSaves, LateWriteEnds, Unmount, screenVars
<1>5. CASE RePair
  BY <1>5 DEF RePair, screenVars
<1>6. CASE UNCHANGED deviceVars
  BY <1>6 DEF deviceVars
<1> QED BY <1>1, <1>2, <1>3, <1>4, <1>5, <1>6 DEF DeviceNext

LEMMA DeviceStep ==
  DeviceInv /\ TextsRead /\ [DeviceNext]_deviceVars => DeviceInv' /\ (AskedFor \/ UNCHANGED deviceVars)
<1> SUFFICES ASSUME DeviceInv, TextsRead, [DeviceNext]_deviceVars
             PROVE  DeviceInv' /\ (AskedFor \/ UNCHANGED deviceVars)
  OBVIOUS
<1>1. CASE HandlePair
  BY <1>1, HandlePairInv
<1>2. CASE HandleLink
  BY <1>2, HandleLinkInv
<1>3. CASE BarcodeScanned
  BY <1>3, BarcodeInv
<1>4. CASE OpenScanner \/ CloseScanner \/ Render
  BY <1>4, ScreenInv
<1>5. ASSUME NEW t \in Texts, LinkOpened(t) \/ ShowCode(t) PROVE DeviceInv' /\ AskedFor
  BY <1>5, OffersInv
<1>6. ASSUME NEW i \in PairingIds,
             PairingProceeds(i) \/ PairingFails(i) \/ PairingSaves(i) \/ LateWriteEnds(i)
      PROVE  DeviceInv' /\ AskedFor
  BY <1>6, PairingsInv, SavesInv
<1>7. CASE RePair
  BY <1>7, RePairInv
<1>8. CASE UNCHANGED deviceVars
  BY <1>8 DEF deviceVars, DeviceInv, TabsAreClean, LinksAreOffered, CodesAreOffered, OnSetup
<1> QED BY <1>1, <1>2, <1>3, <1>4, <1>5, <1>6, <1>7, <1>8 DEF DeviceNext

\* For any texts and any number of pairings: a link that was opened and a code that was held
\* before the opened scanner start at most one, and nothing else but the button starts any.
THEOREM PairsOnRequest == DeviceSpec => OnlyAskedFor
<1>1. DeviceInit => TextsRead
  BY SetupAssumption DEF DeviceInit, TextsRead
<1>2. DeviceInv /\ TextsRead /\ [DeviceNext]_deviceVars => [AskedFor]_deviceVars
  BY DeviceStep
<1>3. [][AskedFor]_deviceVars => OnlyAskedFor
  BY PTL DEF OnlyAskedFor, AskedFor
<1> QED BY <1>1, <1>2, <1>3, DeviceInitInv, DeviceStep, TextsStep, PTL DEF DeviceSpec

PairingRecords ==
  [stage : {"none", "asking", "fetching", "saving", "late", "over"},
   here : BOOLEAN, offer : Offers \cup {Button}]

LEMMA SubmitTyped ==
  ASSUME DeviceTypeOK, NEW offer \in Offers \cup {Button}, Submit(offer)
  PROVE  pairings' \in [PairingIds -> PairingRecords] /\ loading' \in BOOLEAN /\ offered' \subseteq Offers
<1>1. [stage |-> "asking", here |-> TRUE, offer |-> offer] \in PairingRecords
  BY DEF PairingRecords
<1> QED BY <1>1 DEF DeviceTypeOK, Submit, PairingRecords

LEMMA IncomingTyped ==
  ASSUME DeviceTypeOK, NEW offer \in Offers, Incoming(offer)
  PROVE  /\ pairings' \in [PairingIds -> PairingRecords] /\ loading' \in BOOLEAN
         /\ offered' \subseteq Offers /\ scannerVisible' \in BOOLEAN
<1>1. CASE offer[2] \in Payloads
  <2>1. Submit(offer) /\ scannerVisible' = FALSE
    BY <1>1 DEF Incoming
  <2> QED BY <2>1, SubmitTyped
<1>2. CASE offer[2] \notin Payloads
  BY <1>2 DEF Incoming, DeviceTypeOK, PairingRecords
<1> QED BY <1>1, <1>2

LEMMA PairingsEdited ==
  ASSUME DeviceTypeOK, NEW i \in PairingIds, NEW r \in PairingRecords
  PROVE  [pairings EXCEPT ![i] = r] \in [PairingIds -> PairingRecords]
<1> QED BY DEF DeviceTypeOK, PairingRecords

LEMMA DeviceTypeStep == DeviceTypeOK /\ [DeviceNext]_deviceVars => DeviceTypeOK'
<1> SUFFICES ASSUME DeviceTypeOK, [DeviceNext]_deviceVars PROVE DeviceTypeOK'
  OBVIOUS
<1>0. pairings \in [PairingIds -> PairingRecords]
  BY DEF DeviceTypeOK, PairingRecords
<1>1. CASE UNCHANGED deviceVars \/ RePair
  BY <1>1 DEF DeviceTypeOK, deviceVars, RePair, screenVars
<1>2. CASE HandlePair
  <2>1. pairings' \in [PairingIds -> PairingRecords] /\ loading' \in BOOLEAN /\ offered' \subseteq Offers
    BY <1>2, SubmitTyped DEF HandlePair
  <2> QED BY <1>2, <2>1 DEF DeviceTypeOK, HandlePair, Draw, PairingRecords
<1>3. CASE HandleLink
  <2>1. url \in Texts /\ <<"link", url>> \in Offers
    BY <1>3 DEF HandleLink, DeviceTypeOK, Offers
  <2>2. /\ pairings' \in [PairingIds -> PairingRecords] /\ loading' \in BOOLEAN
        /\ offered' \subseteq Offers /\ scannerVisible' \in BOOLEAN
    <3>1. CASE Incoming(<<"link", url>>)
      BY <2>1, <3>1, IncomingTyped
    <3>2. CASE UNCHANGED <<scannerVisible, loading, pairings, offered>>
      BY <1>0, <3>2 DEF DeviceTypeOK
    <3> QED BY <1>3, <3>1, <3>2 DEF HandleLink
  <2>3. initialUrl' \in Texts \cup {"none"} /\ handledUrl' \in Texts \cup {"none"}
    BY <1>3 DEF HandleLink, DeviceTypeOK
  <2> QED BY <1>3, <2>2, <2>3 DEF DeviceTypeOK, HandleLink, PairingRecords
<1>4. CASE OpenScanner \/ CloseScanner \/ Render
  <2>1. /\ scannerVisible' \in BOOLEAN /\ loading' \in BOOLEAN /\ offered' \subseteq Offers
        /\ UNCHANGED <<route, configured, url, initialUrl, handledUrl, pairings>> /\ Draw
    BY <1>4 DEF DeviceTypeOK, OpenScanner, CloseScanner, Render, Links
  <2>2. /\ drawn' \in [open : BOOLEAN, busy : BOOLEAN]
        /\ scanned' \in Texts \cup {"none"} /\ inView' \in Texts \cup {"none"}
    BY <2>1 DEF Draw, DeviceTypeOK
  <2> QED BY <2>1, <2>2 DEF DeviceTypeOK
<1>5. CASE BarcodeScanned
  <2>1. inView \in Texts /\ <<"code", inView>> \in Offers
    BY <1>5 DEF BarcodeScanned, DeviceTypeOK, Offers
  <2>2. /\ pairings' \in [PairingIds -> PairingRecords] /\ loading' \in BOOLEAN
        /\ offered' \subseteq Offers /\ scannerVisible' \in BOOLEAN
    BY <1>5, <2>1, IncomingTyped DEF BarcodeScanned
  <2> QED BY <1>5, <2>2 DEF DeviceTypeOK, BarcodeScanned, PairingRecords
<1>6. ASSUME NEW t \in Texts, LinkOpened(t) \/ ShowCode(t) PROVE DeviceTypeOK'
  <2>1. <<"link", t>> \in Offers /\ <<"code", t>> \in Offers
    BY DEF Offers
  <2> QED BY <1>6, <2>1 DEF DeviceTypeOK, LinkOpened, ShowCode, screenVars, Links
<1>7. ASSUME NEW i \in PairingIds,
             PairingProceeds(i) \/ PairingFails(i) \/ PairingSaves(i) \/ LateWriteEnds(i)
      PROVE  DeviceTypeOK'
  <2>1. pairings' \in [PairingIds -> PairingRecords]
    <3>1. \A j \in PairingIds, b \in BOOLEAN, o \in Offers \cup {Button},
             to \in {"none", "asking", "fetching", "saving", "late", "over"} :
             /\ [pairings[j] EXCEPT !.stage = to] \in PairingRecords
             /\ [pairings[j] EXCEPT !.here = b] \in PairingRecords
             /\ [[pairings[j] EXCEPT !.stage = to] EXCEPT !.offer = o] \in PairingRecords
             /\ [NoPairing EXCEPT !.stage = to] \in PairingRecords
      BY <1>0 DEF PairingRecords, NoPairing
    <3>2. CASE PairingProceeds(i)
      <4>1. [pairings[i] EXCEPT !.stage = "fetching", !.offer = Button] \in PairingRecords
        BY <1>0 DEF PairingRecords
      <4> QED BY <1>0, <3>2 DEF PairingProceeds, PairingRecords
    <3>3. CASE PairingFails(i)
      <4>1. PICK to \in {"over", "late"} : pairings' = [pairings EXCEPT ![i] = [NoPairing EXCEPT !.stage = to]]
        BY <3>3 DEF PairingFails
      <4>2. [NoPairing EXCEPT !.stage = to] \in PairingRecords
        BY <3>1
      <4> QED BY <4>1, <4>2, PairingsEdited
    <3>4. CASE PairingSaves(i)
      BY <1>0, <3>1, <3>4 DEF PairingSaves
    <3>5. CASE LateWriteEnds(i)
      <4>1. pairings' = [pairings EXCEPT ![i] = [pairings[i] EXCEPT !.stage = "over"]]
        BY <3>5 DEF LateWriteEnds
      <4> QED BY <3>1, <4>1, PairingsEdited
    <3> QED BY <1>7, <3>2, <3>3, <3>4, <3>5
  <2>2. CASE PairingProceeds(i)
    BY <2>1, <2>2 DEF DeviceTypeOK, PairingProceeds, screenVars, PairingRecords
  <2>3. CASE PairingFails(i)
    <3>1. loading' \in BOOLEAN
      BY <1>0, <2>3 DEF PairingFails, DeviceTypeOK, PairingRecords
    <3> QED BY <2>1, <2>3, <3>1 DEF DeviceTypeOK, PairingFails, PairingRecords
  <2>4. CASE PairingSaves(i)
    BY <2>1, <2>4 DEF DeviceTypeOK, PairingSaves, Unmount, PairingRecords
  <2>5. CASE LateWriteEnds(i)
    <3>1. configured' \in BOOLEAN /\ (configured => configured')
      <4>1. configured \in BOOLEAN /\ configured' \in {configured, TRUE}
        BY <2>5 DEF LateWriteEnds, DeviceTypeOK
      <4>2. CASE configured' = configured
        BY <4>1, <4>2
      <4>3. CASE configured' = TRUE
        BY <4>3
      <4> QED BY <4>1, <4>2, <4>3
    <3> QED BY <2>1, <2>5, <3>1 DEF DeviceTypeOK, LateWriteEnds, screenVars, PairingRecords
  <2> QED BY <1>7, <2>2, <2>3, <2>4, <2>5
<1> QED BY <1>1, <1>2, <1>3, <1>4, <1>5, <1>6, <1>7 DEF DeviceNext

\* The pairing screen keeps its type, and with it only a configured device is on the tabs.
THEOREM DeviceTyped == DeviceSpec => []DeviceTypeOK
<1>1. DeviceInit => DeviceTypeOK
  <2> SUFFICES ASSUME DeviceInit PROVE DeviceTypeOK
    OBVIOUS
  <2>1. NoPairing \in PairingRecords
    BY DEF NoPairing, PairingRecords
  <2>2. pairings \in [PairingIds -> PairingRecords]
    BY <2>1 DEF DeviceInit
  <2>3. route \in {"tabs", "setup", "repair"} /\ (route = "tabs" => configured)
    BY DEF DeviceInit
  <2>4. {url, initialUrl, handledUrl, scanned, inView} \subseteq Texts \cup {"none"}
    BY DEF DeviceInit
  <2>5. /\ {configured, scannerVisible, loading} \subseteq BOOLEAN
        /\ drawn \in [open : BOOLEAN, busy : BOOLEAN]
    BY DEF DeviceInit
  <2>6. offered \subseteq Offers
    BY DEF DeviceInit
  <2> QED BY <2>2, <2>3, <2>4, <2>5, <2>6 DEF DeviceTypeOK, PairingRecords
<1> QED BY <1>1, DeviceTypeStep, PTL DEF DeviceSpec

(***************************************************************************)
(* The socket on which the bridge announces changes.                       *)
(***************************************************************************)

\* A socket's record stays one when its state and whether it opened change.
LEMMA SocketEdited ==
  ASSUME ListenerTypeOK, NEW s \in SocketIds, NEW d \in BOOLEAN,
         NEW to \in {"unused", "connecting", "open", "closing", "closed"}
  PROVE  /\ sockets[s].session \in 0 .. MaxSession
         /\ [sockets EXCEPT ![s].state = to] \in [SocketIds -> [session : 0 .. MaxSession,
               didOpen : BOOLEAN, state : {"unused", "connecting", "open", "closing", "closed"}]]
         /\ [sockets EXCEPT ![s].state = to, ![s].didOpen = d] \in [SocketIds -> [session : 0 .. MaxSession,
               didOpen : BOOLEAN, state : {"unused", "connecting", "open", "closing", "closed"}]]
<1> QED BY DEF ListenerTypeOK

\* A reconnect is only scheduled for the session that is mounted.
LEMMA Scheduled ==
  ASSUME ListenerTypeOK, NEW n \in 0 .. MaxSession, ScheduleReconnect(n), UNCHANGED <<session, enabled>>
  PROVE  /\ backoff' \in 0 .. MaxSession /\ (backoff' # 0 => backoff' = session' /\ enabled')
         /\ failed' \in BOOLEAN
<1> QED BY DEF ListenerTypeOK, ScheduleReconnect, Mounted

LEMMA ListenerStep == ListenerTypeOK /\ [ListenerNext]_listenerVars => ListenerTypeOK'
<1> SUFFICES ASSUME ListenerTypeOK, [ListenerNext]_listenerVars PROVE ListenerTypeOK'
  OBVIOUS
<1> USE ListenerAssumption
<1>1. CASE UNCHANGED listenerVars \/ BridgeGoesOrReturns \/ Announce
  BY <1>1 DEF ListenerTypeOK, listenerVars, BridgeGoesOrReturns, Announce
<1>2. CASE SessionStarts
  <2>1. session' \in 1 .. MaxSession /\ connecting' = connecting \cup {session'}
    BY <1>2 DEF ListenerTypeOK, SessionStarts
  <2>2. connecting' \subseteq Sessions
    BY <2>1 DEF ListenerTypeOK, Sessions
  <2>3. backoff' = 0
    BY <1>2 DEF ListenerTypeOK, SessionStarts
  <2>4. session' \in 0 .. MaxSession
    BY <2>1
  <2>5. /\ UNCHANGED <<sockets, wsRef, bridgeUp>>
        /\ {enabled', opened', failed', unheard'} \subseteq BOOLEAN
    BY <1>2 DEF SessionStarts
  <2> QED BY <2>2, <2>3, <2>4, <2>5 DEF ListenerTypeOK
<1>3. CASE SessionEnds
  <2>1. \A s \in SocketIds : [sockets[s] EXCEPT !.state = "closing"] \in
          [session : 0 .. MaxSession, didOpen : BOOLEAN,
           state : {"unused", "connecting", "open", "closing", "closed"}]
    BY DEF ListenerTypeOK
  <2>2. sockets' \in [SocketIds -> [session : 0 .. MaxSession, didOpen : BOOLEAN,
                        state : {"unused", "connecting", "open", "closing", "closed"}]]
    <3>1. \A s \in SocketIds : sockets[s] \in
            [session : 0 .. MaxSession, didOpen : BOOLEAN,
             state : {"unused", "connecting", "open", "closing", "closed"}]
      BY DEF ListenerTypeOK
    <3> QED BY <1>3, <2>1, <3>1 DEF SessionEnds
  <2>3. /\ enabled' = FALSE /\ backoff' = 0 /\ wsRef' = 0
        /\ UNCHANGED <<session, connecting, opened, failed, bridgeUp, unheard>>
    BY <1>3 DEF SessionEnds
  <2>4. 0 \in 0 .. MaxSession /\ 0 \in 0 .. MaxSocket
    OBVIOUS
  <2> QED BY <2>2, <2>3, <2>4 DEF ListenerTypeOK
<1>4. CASE TimerFires
  BY <1>4 DEF ListenerTypeOK, TimerFires, Sessions
<1>5. ASSUME NEW n \in Sessions, ConnectThrows(n) PROVE ListenerTypeOK'
  <2>1. n \in 0 .. MaxSession
    BY DEF Sessions
  <2> QED BY <1>5, <2>1, Scheduled DEF ListenerTypeOK, ConnectThrows
<1>6. ASSUME NEW n \in Sessions, ConnectOpens(n) PROVE ListenerTypeOK'
  <2>1. /\ connecting' \subseteq Sessions
        /\ UNCHANGED <<session, enabled, backoff, opened, failed, bridgeUp, unheard>>
    BY <1>6 DEF ListenerTypeOK, ConnectOpens
  <2>2. CASE Mounted(n)
    <3>1. PICK s \in Spare : /\ wsRef' = s
                             /\ sockets' = [sockets EXCEPT ![s] =
                                  [session |-> n, state |-> "connecting", didOpen |-> FALSE]]
      BY <1>6, <2>2 DEF ConnectOpens
    <3> QED BY <2>1, <3>1 DEF ListenerTypeOK, Spare, SocketIds, Sessions
  <2>3. CASE ~Mounted(n)
    BY <1>6, <2>1, <2>3 DEF ConnectOpens, ListenerTypeOK
  <2> QED BY <2>2, <2>3
<1>7. ASSUME NEW s \in SocketIds, SocketOpens(s) PROVE ListenerTypeOK'
  BY <1>7, SocketEdited DEF ListenerTypeOK, SocketOpens
<1>8. ASSUME NEW s \in SocketIds, SocketCloses(s) PROVE ListenerTypeOK'
  <2>1. sockets' \in [SocketIds -> [session : 0 .. MaxSession, didOpen : BOOLEAN,
                        state : {"unused", "connecting", "open", "closing", "closed"}]]
    BY <1>8, SocketEdited DEF SocketCloses
  <2>2. sockets[s].session \in 0 .. MaxSession
    BY SocketEdited
  <2> QED BY <1>8, <2>1, <2>2, Scheduled DEF ListenerTypeOK, SocketCloses
<1> QED BY <1>1, <1>2, <1>3, <1>4, <1>5, <1>6, <1>7, <1>8 DEF ListenerNext

\* The listener keeps its type, and with it a reconnect is pending only for the session that is mounted.
THEOREM ListenerTyped == ListenerSpec => []ListenerTypeOK
<1>1. ListenerInit => ListenerTypeOK
  <2> SUFFICES ASSUME ListenerInit PROVE ListenerTypeOK
    OBVIOUS
  <2>1. 0 \in 0 .. MaxSession /\ 0 \in 0 .. MaxSocket
    BY ListenerAssumption
  <2>2. sockets \in [SocketIds -> [session : 0 .. MaxSession, didOpen : BOOLEAN,
                       state : {"unused", "connecting", "open", "closing", "closed"}]]
    BY <2>1 DEF ListenerInit, Unused
  <2>3. backoff = 0 /\ session = 0 /\ wsRef = 0 /\ connecting = {}
    BY DEF ListenerInit
  <2> QED BY <2>1, <2>2, <2>3 DEF ListenerInit, ListenerTypeOK
<1> QED BY <1>1, ListenerStep, PTL DEF ListenerSpec

(***************************************************************************)
(* What runs, together.                                                    *)
(***************************************************************************)

\* Each component only moves in the steps that are its own, so a behaviour of what runs is one
\* of every component.
LEMMA RuntimeIsEach ==
  RuntimeSpec => /\ AttemptSpec /\ TriggersSpec /\ StartupSpec
                 /\ ListenerSpec /\ RepairSpec /\ DeviceSpec
<1>1. RuntimeInit => /\ AttemptInit /\ TriggersInit /\ StartupInit
                     /\ ListenerInit /\ RepairInit /\ DeviceInit
  BY DEF RuntimeInit
<1>2. [RuntimeNext]_runtimeVars =>
        /\ [AttemptNext]_attemptVars /\ [TriggersNext]_triggersVars /\ [StartupNext]_startupVars
        /\ [ListenerNext]_listenerVars /\ [RepairNext]_repairVars /\ [DeviceNext]_deviceVars
  BY DEF RuntimeNext, runtimeVars
<1>3. RuntimeSpec => RuntimeInit /\ [][RuntimeNext]_runtimeVars
  BY PTL DEF RuntimeSpec
<1> QED BY <1>1, <1>2, <1>3, PTL
        DEF AttemptSpec, TriggersSpec, StartupSpec, ListenerSpec, RepairSpec, DeviceSpec

\* The state of every component that runs is of its type, for any bounds of each.
THEOREM RuntimeTypes == RuntimeSpec => []RuntimeTypeOK
<1>1. RuntimeTypeOK <=> /\ AttemptTypeOK /\ TriggersTypeOK /\ StartupTypeOK
                        /\ ListenerTypeOK /\ RepairTypeOK /\ DeviceTypeOK
  BY DEF RuntimeTypeOK
<1> QED BY <1>1, RuntimeIsEach, AttemptTypes, TriggersTyped, StartupTypeCorrect, ListenerTyped,
           RepairTypes, DeviceTyped, PTL

\* What the components that run promise holds of them together.
THEOREM RuntimeKeeps ==
  RuntimeSpec => /\ [](/\ AwakeWhileWorking /\ HolderKeepsLease /\ TriggersMatchPairing
                       /\ SomebodyTriggers /\ EveryHistoryPrepares /\ RatingsSurviveMove)
                 /\ OnlyDamageIsDeleted /\ OnlyAskedFor
<1>1. RuntimeSpec => /\ []AwakeWhileWorking /\ []HolderKeepsLease /\ []TriggersMatchPairing
                     /\ []SomebodyTriggers /\ []EveryHistoryPrepares /\ []RatingsSurviveMove
                     /\ OnlyDamageIsDeleted /\ OnlyAskedFor
  BY RuntimeIsEach, AwakeForIts, LeaseKept, TriggersMatch, TriggersServed, AnyHistoryPrepares,
     RatingsMoved, DeletesOnlyDamage, PairsOnRequest
<1> QED BY <1>1, PTL

=============================================================================
