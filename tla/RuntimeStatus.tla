--------------------------- MODULE RuntimeStatus ---------------------------
(* The one row of sync_runtime_status and its three writers: projections    *)
(* of what the execution facade answers, the attempts the JS cycle records, *)
(* and the attempts the native engine records.  JS reads the row and writes *)
(* it back whole through the write door; the native UPDATE names its own    *)
(* columns.  The mode, ids, stages and error names are left out.  A guard   *)
(* and the read and the queueing that follow it are one step: the driver    *)
(* reads synchronously.                                                     *)
EXTENDS Naturals, Sequences

CONSTANTS
  MaxProjection,   \* bound: projections
  MaxRelease,      \* bound: releases under way at once
  MaxInstant       \* bound: recorded attempts, each at an instant of its own

ASSUME StatusAssumption ==
  MaxProjection \in Nat \ {0} /\ MaxRelease \in Nat /\ MaxInstant \in Nat \ {0}

VARIABLES
  runtimeOn,     \* isRuntimeEnabled of the last render, and the facade publishes its strategies
  registering,   \* a registration of this enabling is under way
  releasing,     \* disables whose release of the strategies has not ended
  settling,      \* the settle timer is armed
  sequence,      \* projectionSequenceRef
  asked,         \* the projections the facade has not answered
  statusRow,     \* sync_runtime_status
  statusDoor,    \* the rows queued at the write door, with the projection they carry
  projected,     \* history: the projection that wrote last, and whether a later write was lost
  instant        \* the latest instant of an attempt

runtimeHook == <<runtimeOn, registering, releasing, settling>>
statusVars == <<runtimeHook, sequence, asked, statusRow, statusDoor, projected, instant>>

Registrations == {"registered", "unregistered", "unsupported"}
StatusRows == [verdict : Registrations, attemptAt : 0 .. MaxInstant, successAt : 0 .. MaxInstant]
NoProjection == [sequence |-> 0, on |-> FALSE, listed |-> FALSE]
Projections == [sequence : 1 .. MaxProjection, on : BOOLEAN, listed : BOOLEAN]
Writers == Projections \cup {NoProjection}

StatusTypeOK ==
  /\ runtimeOn \in BOOLEAN /\ registering \in BOOLEAN
  /\ releasing \in 0 .. MaxRelease /\ settling \in BOOLEAN
  /\ (registering \/ settling => runtimeOn)
  /\ sequence \in 0 .. MaxProjection /\ asked \subseteq Projections
  /\ statusRow \in StatusRows /\ statusDoor \in Seq([row : StatusRows, of : Writers])
  /\ projected \in [of : Writers, lost : BOOLEAN] /\ instant \in 0 .. MaxInstant

\* createEmptySyncRuntimeStatusSnapshot: the app starts; one that mounts without a bridge
\* goes through the disabled branch, which releases nothing and projects.
StatusInit ==
  /\ runtimeOn = FALSE /\ registering = FALSE /\ releasing \in {0, MaxRelease}
  /\ settling = FALSE /\ sequence = 0 /\ asked = {}
  /\ statusRow = [verdict |-> "unregistered", attemptAt |-> 0, successAt |-> 0]
  /\ statusDoor = <<>> /\ instant = 0
  /\ projected = [of |-> NoProjection, lost |-> FALSE]

----------------------------------------------------------------------------
(* Projections.                                                            *)

\* projectExecutionStatus up to its await, with the closure's own isRuntimeEnabled; the facade
\* answers from the list of this moment.
Project(closure) ==
  /\ sequence < MaxProjection /\ sequence' = sequence + 1
  /\ asked' = asked \cup {[sequence |-> sequence + 1, on |-> closure, listed |-> runtimeOn']}

\* Enabling publishes the strategies, registers them, and reads them at once and after 1.5 s.
Enable ==
  /\ ~runtimeOn /\ runtimeOn' = TRUE /\ registering' = TRUE /\ settling' = TRUE
  /\ Project(TRUE)
  /\ UNCHANGED <<releasing, statusRow, statusDoor, projected, instant>>

\* Disabling clears the timer, cancels the registration's settle pass and releases the
\* strategies; the projection waits for the release.
Disable ==
  /\ runtimeOn /\ runtimeOn' = FALSE /\ registering' = FALSE /\ settling' = FALSE
  /\ releasing < MaxRelease /\ releasing' = releasing + 1
  /\ UNCHANGED <<sequence, asked, statusRow, statusDoor, projected, instant>>

\* The release resolves into the projection of a disabled runtime, even once it is enabled again.
ReleaseEnds ==
  /\ releasing > 0 /\ releasing' = releasing - 1
  /\ UNCHANGED <<runtimeOn, registering, settling>> /\ Project(FALSE)
  /\ UNCHANGED <<statusRow, statusDoor, projected, instant>>

\* Mutant: a registration that ends asks for no second settle pass.
RegistrationEndsUnsettled ==
  /\ registering /\ releasing = 0 /\ registering' = FALSE
  /\ UNCHANGED <<runtimeOn, releasing, settling, sequence, asked>>
  /\ UNCHANGED <<statusRow, statusDoor, projected, instant>>

\* The floor's thread answers a release before the registration queued after it; a completed
\* registration gets a settle window of its own.
RegistrationEnds ==
  /\ registering /\ releasing = 0 /\ registering' = FALSE /\ settling' = TRUE
  /\ UNCHANGED <<runtimeOn, releasing, sequence, asked, statusRow, statusDoor, projected, instant>>

SettleFires ==
  /\ settling /\ settling' = FALSE
  /\ UNCHANGED <<runtimeOn, registering, releasing>> /\ Project(TRUE)
  /\ UNCHANGED <<statusRow, statusDoor, projected, instant>>

\* The app is active again.
Resumes ==
  /\ runtimeOn /\ UNCHANGED runtimeHook /\ Project(TRUE)
  /\ UNCHANGED <<statusRow, statusDoor, projected, instant>>

\* getBackgroundSyncFloorStatus after normalization: a module that fails or is absent is
\* unsupported, and any other answer is the module's own.
FloorStatuses == {"registered", "unregistered", "unsupported"}

\* mergeConcurrentSyncExecutionStatus of the floor and of the foreground service, which
\* on Android is never unsupported.
MergedVerdict(floor, serviceRuns) ==
  IF serviceRuns \/ floor = "registered" THEN "registered" ELSE "unregistered"

\* getStatus: with no strategy published, the fallback.
Answers(p) ==
  IF p.listed THEN {MergedVerdict(floor, runs) : floor \in FloorStatuses, runs \in BOOLEAN}
  ELSE {"unsupported"}

\* updateSyncRuntimeStatusSnapshot: the row as it is now, but for the patch, queues.
Queue(patched, projection) ==
  statusDoor' = Append(statusDoor, [row |-> patched, of |-> projection])

\* buildSyncExecutionStatusPatch; a disabled runtime is unregistered whatever was answered.
PatchedStatus(p, answer) ==
  [statusRow EXCEPT !.verdict = IF p.on THEN answer ELSE "unregistered"]

\* Mutant: an answer is persisted whichever projection asked last.
AnsweredUnordered(p) ==
  /\ asked' = asked \ {p}
  /\ \E answer \in Answers(p) : Queue(PatchedStatus(p, answer), p)

\* Only the newest projection persists what it was answered.
Answered(p) ==
  /\ asked' = asked \ {p}
  /\ IF p.sequence # sequence THEN UNCHANGED statusDoor
     ELSE \E answer \in Answers(p) : Queue(PatchedStatus(p, answer), p)

ProjectionAnswered(p) ==
  /\ Answered(p) /\ UNCHANGED <<runtimeHook, sequence, statusRow, projected, instant>>

----------------------------------------------------------------------------
(* Attempts.                                                               *)

\* recordSyncAttemptStarted and recordSyncAttemptFailed, which keep the last success.
RecordAttempt ==
  /\ instant < MaxInstant /\ instant' = instant + 1
  /\ Queue([statusRow EXCEPT !.attemptAt = instant + 1], NoProjection)
  /\ UNCHANGED <<runtimeHook, sequence, asked, statusRow, projected>>

RecordSuccess ==
  /\ instant < MaxInstant /\ instant' = instant + 1
  /\ Queue([statusRow EXCEPT !.attemptAt = instant + 1, !.successAt = instant + 1], NoProjection)
  /\ UNCHANGED <<runtimeHook, sequence, asked, statusRow, projected>>

\* The door lets the oldest queued row through, or its transaction fails.
DoorCommits ==
  /\ statusDoor # <<>> /\ statusDoor' = Tail(statusDoor)
  /\ statusRow' = Head(statusDoor).row
  /\ projected' = IF Head(statusDoor).of = NoProjection THEN projected
                  ELSE [of |-> Head(statusDoor).of, lost |-> FALSE]
  /\ UNCHANGED <<runtimeHook, sequence, asked, instant>>

DoorFails ==
  /\ statusDoor # <<>> /\ statusDoor' = Tail(statusDoor)
  /\ projected' = [projected EXCEPT !.lost = @ \/ Head(statusDoor).of # NoProjection]
  /\ UNCHANGED <<runtimeHook, sequence, asked, statusRow, instant>>

\* SyncEngineRuntimeStatus.record, which waits for no door of JS.
NativeRecords(closed) ==
  /\ instant < MaxInstant /\ instant' = instant + 1
  /\ statusRow' = [statusRow EXCEPT !.attemptAt = instant + 1,
                                     !.successAt = IF closed THEN instant + 1 ELSE @]
  /\ UNCHANGED <<runtimeHook, sequence, asked, statusDoor, projected>>

StatusNext ==
  \/ Enable \/ Disable \/ ReleaseEnds \/ RegistrationEnds \/ SettleFires \/ Resumes
  \/ \E p \in asked : ProjectionAnswered(p)
  \/ RecordAttempt \/ RecordSuccess \/ DoorCommits \/ DoorFails
  \/ \E closed \in BOOLEAN : NativeRecords(closed)

StatusSpec == StatusInit /\ [][StatusNext]_statusVars

----------------------------------------------------------------------------
(* Properties.                                                             *)

\* A projection that asked earlier never writes over one that asked later, whatever order the
\* facade answers in and whatever waits at the door: a slow reading taken before a disable
\* does not claim the floor again (projectExecutionStatus, "Only the newest projection may
\* write").
ProjectionsInOrder ==
  [][projected'.of.sequence >= projected.of.sequence]_statusVars

\* Once nothing is pending, the projection the row holds is one of the runtime as it is: the
\* release of a quick disable, which resolves after the runtime is enabled again, writes
\* `unregistered` over it, and the settle pass of the completed registration has to come
\* after (useSyncRuntime, "gets a fresh settle window"), unless a write failed.
RowOfThisRuntime ==
  (/\ ~registering /\ ~settling /\ releasing = 0 /\ asked = {} /\ statusDoor = <<>>
   /\ projected.of # NoProjection /\ ~projected.lost)
  => projected.of.on = runtimeOn

============================================================================
