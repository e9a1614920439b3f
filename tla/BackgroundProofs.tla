-------------------------- MODULE BackgroundProofs --------------------------
(* Theorems about what runs in the background. NativeAttempt, for any       *)
(* number of attempts, instances of the service and instants: the holder of *)
(* the lease keeps it while it works, and the service holds the wake lock   *)
(* of the attempt it waits for. BackgroundTriggers, for any number of       *)
(* registrations and outages: what wakes the sync matches the pairing, and  *)
(* while the app ticks somebody starts the next attempt.                    *)
EXTENDS NativeAttempt, BackgroundTriggers, FiniteSetTheorems, SequenceTheorems, TLAPS

-----------------------------------------------------------------------------
(* The native attempts.                                                     *)

AttemptRecords ==
  [caller : Services \cup {Floor}, work : WorkSteps, reply : ReplySteps,
   teller : {"none", "caller", "worker", "watchdog"}, deadline : 0 .. MaxTick + Budget,
   awaited : BOOLEAN]

\* AttemptTypeOK without the queue and the journal, which StartedInOrder and JournalTyped give.
AttemptTyped ==
  /\ attempt \in [AttemptIds -> AttemptRecords]
  /\ started \in 0 .. MaxAttempt /\ services \in 0 .. MaxService
  /\ running \subseteq AttemptIds /\ service \in Services \cup {0}
  /\ inFlight \in [Services -> BOOLEAN] /\ wakeLock \in [Services -> AttemptIds \cup {0}]
  /\ dbOpen \in BOOLEAN /\ schemaReady \in BOOLEAN
  /\ lease \in [fence : AttemptIds \cup {0}, until : 0 .. MaxTick + LeaseTtl]
  /\ now \in 0 .. MaxTick

\* Attempts are started in their order, and only started ones are queued.
StartedInOrder ==
  /\ workQueue \in Seq(1 .. started)
  /\ \A i \in AttemptIds : IF i > started THEN attempt[i] = NotStarted
                           ELSE attempt[i].work # "unused"

InsideSteps == {"probe", "claim", "sweep", "send", "await", "release", "catchup"}

\* The work thread is inside of one attempt at most, and only that one makes progress.
OneInside ==
  /\ \A i \in AttemptIds : attempt[i].work \in InsideSteps => i \in running
  /\ \A i, j \in running : i = j

\* The instance that is up, and the ones attempts were started by, were created.
CallersExist ==
  service <= services /\ \A i \in AttemptIds : attempt[i].caller <= services

Unreported(i) == attempt[i].caller # Floor /\ attempt[i].reply # "told"

\* An instance has one unreported attempt at most, and its guard is up until then.
OneInFlight ==
  /\ \A i \in AttemptIds : Unreported(i) => inFlight[attempt[i].caller]
  /\ \A i, j \in AttemptIds :
       Unreported(i) /\ Unreported(j) /\ attempt[i].caller = attempt[j].caller => i = j

AttemptInv ==
  /\ AttemptTyped /\ StartedInOrder /\ OneInside /\ HolderKeepsLease
  /\ CallersExist /\ OneInFlight /\ AwakeWhileWorking

-----------------------------------------------------------------------------
(* The records of the attempts.                                             *)

\* An attempt whose work moves keeps the rest of its record.
LEMMA WorkSet ==
  ASSUME NEW r \in AttemptRecords, NEW w \in WorkSteps
  PROVE  LET moved == [r EXCEPT !.work = w]
         IN  /\ moved \in AttemptRecords /\ moved.work = w /\ moved.caller = r.caller
             /\ moved.reply = r.reply
BY DEF AttemptRecords

\* What reporting an attempt changes in its record, and that it leaves its caller and work.
LEMMA RecordFacts ==
  ASSUME NEW r \in AttemptRecords
  PROVE  /\ \A thread \in {"worker", "watchdog"} :
              /\ SettledBy(r, thread) \in AttemptRecords
              /\ SettledBy(r, thread).caller = r.caller /\ SettledBy(r, thread).work = r.work
              /\ SettledBy(r, thread).reply = IF r.reply = "none" THEN "status" ELSE r.reply
         /\ Told(r) \in AttemptRecords /\ Told(r).caller = r.caller /\ Told(r).work = r.work
         /\ Told(r).reply = "told"
<1>1. 0 \in 0 .. MaxTick + Budget
  BY AttemptAssumption
<1>2. ASSUME NEW thread \in {"worker", "watchdog"}
      PROVE  /\ SettledBy(r, thread) \in AttemptRecords
             /\ SettledBy(r, thread).caller = r.caller /\ SettledBy(r, thread).work = r.work
             /\ SettledBy(r, thread).reply = IF r.reply = "none" THEN "status" ELSE r.reply
  BY <1>1 DEF SettledBy, AttemptRecords, ReplySteps
<1>3. /\ Told(r) \in AttemptRecords /\ Told(r).caller = r.caller /\ Told(r).work = r.work
      /\ Told(r).reply = "told"
  BY DEF Told, AttemptRecords, ReplySteps
<1> QED
  BY <1>2, <1>3

\* The record of an attempt that was not started is one of the records.
LEMMA NotStartedTyped ==
  /\ NotStarted \in AttemptRecords
  /\ NotStarted.caller = Floor /\ NotStarted.work = "unused" /\ NotStarted.reply = "none"
<1>1. 0 \in 0 .. MaxTick + Budget
  BY AttemptAssumption
<1> QED
  BY <1>1 DEF NotStarted, AttemptRecords, WorkSteps, ReplySteps

\* A new attempt takes the next number; it is queued, or refused on the spot.
LEMMA RunOnceFacts ==
  ASSUME AttemptTyped, StartedInOrder, MayStart, NEW caller \in Services \cup {Floor},
         started' = started + 1, RunOnce(started + 1, caller)
  PROVE  /\ started + 1 \in AttemptIds /\ started' \in 0 .. MaxAttempt
         /\ workQueue' \in Seq(1 .. started') /\ dbOpen' \in BOOLEAN
         /\ \E r \in AttemptRecords :
              /\ attempt' = [attempt EXCEPT ![started + 1] = r]
              /\ r.caller = caller /\ r.work \in {"queued", "over"} /\ r.reply \in {"none", "status"}
<1>1. started + 1 \in AttemptIds /\ started' \in 0 .. MaxAttempt
  BY AttemptAssumption DEF AttemptTyped, MayStart, AttemptIds
<1>2. now + Budget \in 0 .. MaxTick + Budget
  BY AttemptAssumption DEF AttemptTyped
<1>3. workQueue \in Seq(1 .. started') /\ started + 1 \in 1 .. started'
  <2>1. started \in Nat /\ 1 .. started \subseteq 1 .. started' /\ started + 1 \in 1 .. started'
    BY AttemptAssumption DEF AttemptTyped
  <2>2. workQueue \in Seq(1 .. started)
    BY DEF StartedInOrder
  <2>3. /\ workQueue \in [1 .. Len(workQueue) -> 1 .. started] /\ Len(workQueue) \in Nat
    BY <2>2, LenProperties
  <2>4. workQueue \in [1 .. Len(workQueue) -> 1 .. started']
    BY <2>1, <2>3
  <2> QED
    BY <2>1, <2>3, <2>4, SeqDef
<1>4. Append(workQueue, started + 1) \in Seq(1 .. started')
  BY <1>3, AppendProperties
<1> DEFINE asked == [NotStarted EXCEPT !.caller = caller]
<1>5. CASE dbOpen \/ schemaReady
  <2> DEFINE r == [asked EXCEPT !.work = "queued", !.deadline = now + Budget]
  <2>1. r \in AttemptRecords /\ r.caller = caller /\ r.work = "queued" /\ r.reply = "none"
    BY <1>2, NotStartedTyped DEF NotStarted, AttemptRecords, WorkSteps
  <2>2. attempt' = [attempt EXCEPT ![started + 1] = r] /\ dbOpen' = TRUE
        /\ workQueue' = Append(workQueue, started + 1)
    BY <1>5 DEF RunOnce
  <2> QED
    BY <1>1, <1>4, <2>1, <2>2
<1>6. CASE ~(dbOpen \/ schemaReady)
  <2> DEFINE r == [asked EXCEPT !.work = "over", !.reply = "status", !.teller = "caller"]
  <2>1. r \in AttemptRecords /\ r.caller = caller /\ r.work = "over" /\ r.reply = "status"
    BY NotStartedTyped DEF NotStarted, AttemptRecords, WorkSteps, ReplySteps
  <2>2. attempt' = [attempt EXCEPT ![started + 1] = r] /\ UNCHANGED <<dbOpen, workQueue>>
    BY <1>6 DEF RunOnce
  <2> QED
    BY <1>1, <1>3, <2>1, <2>2 DEF AttemptTyped
<1> QED
  BY <1>5, <1>6

-----------------------------------------------------------------------------
(* The steps of one attempt.                                                *)

AttemptStep(i) == FloorStopsWaiting(i) \/ WatchdogFires(i) \/ WorkStep(i) \/ ReplyStep(i)

\* A step of an attempt changes the record of that attempt alone; it keeps the caller, does
\* not go back before the start, and a report only advances.
Advances(i, r) ==
  /\ r \in AttemptRecords /\ attempt' = [attempt EXCEPT ![i] = r]
  /\ r.caller = attempt[i].caller /\ attempt[i].work # "unused" /\ r.work # "unused"
  /\ r.reply \in {"none", "status"} => attempt[i].reply \in {"none", "status"}
  /\ r.reply # "told" => attempt[i].reply # "told"

HoldSteps == {"sweep", "send", "await"}

\* Only the attempt the thread is inside of touches the lease, and the thread leaves only an
\* attempt that is over.
WorksOn(i, r) ==
  /\ r.work \in InsideSteps => attempt[i].work \in InsideSteps
  /\ r.work \in HoldSteps => lease'.fence = i \/ (attempt[i].work \in HoldSteps /\ lease' = lease)
  /\ lease' # lease => attempt[i].work \in InsideSteps
  /\ lease' \in [fence : AttemptIds \cup {0}, until : 0 .. MaxTick + LeaseTtl]
  /\ running' = running \/ (running' = running \ {i} /\ r.work = "over")
  /\ UNCHANGED <<started, workQueue, service, services, dbOpen, schemaReady, now>>

\* The lock and the guard of an instance change only as the report of one of its attempts
\* goes on.
ReportsOn(i, r) ==
  \/ UNCHANGED <<inFlight, wakeLock>>
  \/ /\ attempt[i].reply = "unlock" /\ r.reply = "clear" /\ inFlight' = inFlight
     /\ wakeLock' = [wakeLock EXCEPT ![attempt[i].caller] = 0]
  \/ /\ attempt[i].reply = "clear" /\ r.reply = "told" /\ wakeLock' = wakeLock
     /\ inFlight' = [inFlight EXCEPT ![attempt[i].caller] = FALSE]

\* An attempt that was not started has not been reported.
LEMMA ReportedWasStarted ==
  ASSUME StartedInOrder, NEW i \in AttemptIds, attempt[i].reply # "none" \/ attempt[i].work # "unused"
  PROVE  attempt[i].work # "unused"
BY NotStartedTyped DEF StartedInOrder

\* A step that only moves the work of an attempt the thread is inside of.
LEMMA WorkMoves ==
  ASSUME AttemptTyped, NEW i \in AttemptIds, attempt[i].work \in InsideSteps,
         NEW work \in WorkSteps \ {"unused"},
         attempt' = [attempt EXCEPT ![i].work = work],
         work \in HoldSteps => lease'.fence = i \/ (attempt[i].work \in HoldSteps /\ lease' = lease),
         lease' \in [fence : AttemptIds \cup {0}, until : 0 .. MaxTick + LeaseTtl],
         UNCHANGED <<running, started, workQueue, service, services, dbOpen, schemaReady, now,
                     inFlight, wakeLock>>
  PROVE  \E r \in AttemptRecords : Advances(i, r) /\ WorksOn(i, r) /\ ReportsOn(i, r)
<1> DEFINE r == [attempt[i] EXCEPT !.work = work]
<1>1. attempt[i] \in AttemptRecords /\ attempt[i].work # "unused"
  BY DEF AttemptTyped, InsideSteps
<1>2. r \in AttemptRecords /\ r.work = work /\ r.caller = attempt[i].caller /\ r.reply = attempt[i].reply
  BY <1>1, WorkSet
<1>3. attempt' = [attempt EXCEPT ![i] = r]
  OBVIOUS
<1>4. Advances(i, r)
  BY <1>1, <1>2, <1>3 DEF Advances
<1>5. WorksOn(i, r) /\ ReportsOn(i, r)
  BY <1>2 DEF WorksOn, ReportsOn
<1> QED
  BY <1>2, <1>4, <1>5

\* A lease claimed or released is one.
LEMMA LeaseTyped ==
  ASSUME AttemptTyped, NEW i \in AttemptIds
  PROVE  /\ [fence |-> i, until |-> now + LeaseTtl]
              \in [fence : AttemptIds \cup {0}, until : 0 .. MaxTick + LeaseTtl]
         /\ Released(i) \in [fence : AttemptIds \cup {0}, until : 0 .. MaxTick + LeaseTtl]
         /\ lease \in [fence : AttemptIds \cup {0}, until : 0 .. MaxTick + LeaseTtl]
<1>1. now + LeaseTtl \in 0 .. MaxTick + LeaseTtl /\ 0 \in 0 .. MaxTick + LeaseTtl
  BY AttemptAssumption DEF AttemptTyped
<1> QED
  BY <1>1 DEF AttemptTyped, Released, NoLease

\* Every step of an attempt is of that form.
LEMMA StepOfOne ==
  ASSUME AttemptTyped, StartedInOrder, NEW i \in AttemptIds, AttemptStep(i)
  PROVE  \E r \in AttemptRecords : Advances(i, r) /\ WorksOn(i, r) /\ ReportsOn(i, r)
<1>0. attempt[i] \in AttemptRecords
  BY DEF AttemptTyped
<1>1. CASE FloorStopsWaiting(i)
  <2> DEFINE r == [attempt[i] EXCEPT !.awaited = FALSE]
  <2>1. /\ r \in AttemptRecords /\ r.caller = attempt[i].caller /\ r.work = attempt[i].work
        /\ r.reply = attempt[i].reply
    BY <1>0 DEF AttemptRecords
  <2>2. attempt' = [attempt EXCEPT ![i] = r] /\ attempt[i].work # "unused"
    BY <1>1 DEF FloorStopsWaiting
  <2>3. Advances(i, r)
    BY <2>1, <2>2 DEF Advances
  <2>4. WorksOn(i, r) /\ ReportsOn(i, r)
    BY <1>1, <2>1, LeaseTyped DEF FloorStopsWaiting, WorksOn, ReportsOn
  <2> QED
    BY <2>1, <2>3, <2>4
<1>2. CASE WatchdogFires(i)
  <2> DEFINE r == SettledBy(attempt[i], "watchdog")
  <2>1. /\ r \in AttemptRecords /\ r.caller = attempt[i].caller /\ r.work = attempt[i].work
        /\ r.reply = "status"
    BY <1>0, <1>2, RecordFacts DEF WatchdogFires, Settled
  <2>2. attempt' = [attempt EXCEPT ![i] = r] /\ attempt[i].work # "unused" /\ attempt[i].reply = "none"
    BY <1>2 DEF WatchdogFires, Settled
  <2>3. Advances(i, r)
    BY <2>1, <2>2 DEF Advances
  <2>4. WorksOn(i, r) /\ ReportsOn(i, r)
    BY <1>2, <2>1, LeaseTyped DEF WatchdogFires, WorksOn, ReportsOn
  <2> QED
    BY <2>1, <2>3, <2>4
<1>3. CASE RecordStatus(i)
  <2> DEFINE r == IF attempt[i].caller = Floor THEN Told(attempt[i])
                  ELSE [attempt[i] EXCEPT !.reply = "unlock"]
  <2>1. /\ r \in AttemptRecords /\ r.caller = attempt[i].caller /\ r.work = attempt[i].work
        /\ r.reply \in {"told", "unlock"}
    BY <1>0, RecordFacts DEF AttemptRecords, ReplySteps
  <2>2. attempt' = [attempt EXCEPT ![i] = r] /\ attempt[i].reply = "status"
    BY <1>3 DEF RecordStatus
  <2>3. attempt[i].work # "unused"
    BY <2>2, ReportedWasStarted
  <2>4. Advances(i, r)
    BY <2>1, <2>2, <2>3 DEF Advances
  <2>5. WorksOn(i, r) /\ ReportsOn(i, r)
    BY <1>3, <2>1, LeaseTyped DEF RecordStatus, WorksOn, ReportsOn
  <2> QED
    BY <2>1, <2>4, <2>5
<1>4. CASE ReleaseWakeLock(i)
  <2> DEFINE r == [attempt[i] EXCEPT !.reply = "clear"]
  <2>1. /\ r \in AttemptRecords /\ r.caller = attempt[i].caller /\ r.work = attempt[i].work
        /\ r.reply = "clear"
    BY <1>0 DEF AttemptRecords, ReplySteps
  <2>2. attempt' = [attempt EXCEPT ![i] = r] /\ attempt[i].reply = "unlock"
    BY <1>4 DEF ReleaseWakeLock
  <2>3. attempt[i].work # "unused"
    BY <2>2, ReportedWasStarted
  <2>4. Advances(i, r)
    BY <2>1, <2>2, <2>3 DEF Advances
  <2>5. WorksOn(i, r) /\ ReportsOn(i, r)
    BY <1>4, <2>1, LeaseTyped DEF ReleaseWakeLock, WorksOn, ReportsOn
  <2> QED
    BY <2>1, <2>4, <2>5
<1>5. CASE ClearInFlight(i)
  <2> DEFINE r == Told(attempt[i])
  <2>1. /\ r \in AttemptRecords /\ r.caller = attempt[i].caller /\ r.work = attempt[i].work
        /\ r.reply = "told"
    BY <1>0, RecordFacts
  <2>2. attempt' = [attempt EXCEPT ![i] = r] /\ attempt[i].reply = "clear"
    BY <1>5 DEF ClearInFlight
  <2>3. attempt[i].work # "unused"
    BY <2>2, ReportedWasStarted
  <2>4. Advances(i, r)
    BY <2>1, <2>2, <2>3 DEF Advances
  <2>5. WorksOn(i, r) /\ ReportsOn(i, r)
    BY <1>5, <2>1, LeaseTyped DEF ClearInFlight, WorksOn, ReportsOn
  <2> QED
    BY <2>1, <2>4, <2>5
<1>6. CASE ProbeRefused(i)
  <2> DEFINE q == [attempt[i] EXCEPT !.work = "over"]
             r == SettledBy(q, "worker")
  <2>1. q \in AttemptRecords /\ q.caller = attempt[i].caller /\ q.work = "over"
        /\ q.reply = attempt[i].reply
    BY <1>0, WorkSet DEF WorkSteps
  <2> HIDE DEF q
  <2>2. /\ r \in AttemptRecords /\ r.caller = attempt[i].caller /\ r.work = "over"
        /\ r.reply = IF attempt[i].reply = "none" THEN "status" ELSE attempt[i].reply
    BY <2>1, RecordFacts
  <2>3. attempt' = [attempt EXCEPT ![i] = r] /\ attempt[i].work = "probe"
    BY <1>6 DEF ProbeRefused, q
  <2>4. Advances(i, r)
    BY <2>2, <2>3 DEF Advances
  <2>5. WorksOn(i, r) /\ ReportsOn(i, r)
    BY <1>6, <2>2, LeaseTyped DEF ProbeRefused, WorksOn, ReportsOn, InsideSteps, HoldSteps
  <2> QED
    BY <2>2, <2>4, <2>5
<1>7. CASE ProbeAnswered(i)
  BY <1>7, WorkMoves, LeaseTyped DEF ProbeAnswered, Enter, InsideSteps, HoldSteps, WorkSteps
<1>8. CASE ClaimLease(i)
  <2>1. CASE LeaseIsFree(i)
    <3>1. lease'.fence = i
      BY <1>8, <2>1 DEF ClaimLease
    <3> QED
      BY <1>8, <2>1, <3>1, WorkMoves, LeaseTyped DEF ClaimLease, InsideSteps, HoldSteps, WorkSteps
  <2>2. CASE ~LeaseIsFree(i)
    BY <1>8, <2>2, WorkMoves, LeaseTyped DEF ClaimLease, Enter, InsideSteps, HoldSteps, WorkSteps
  <2> QED
    BY <2>1, <2>2
<1>9. CASE ConfigMissing(i)
  BY <1>9, WorkMoves, LeaseTyped DEF ConfigMissing, Enter, InsideSteps, HoldSteps, WorkSteps
<1>10. CASE Sweep(i)
  <2>1. PICK work \in {"send", "release"} : attempt' = [attempt EXCEPT ![i].work = work]
    BY <1>10 DEF Sweep, Enter
  <2> QED
    BY <1>10, <2>1, WorkMoves, LeaseTyped DEF Sweep, InsideSteps, HoldSteps, WorkSteps
<1>11. CASE SendRound(i)
  BY <1>11, WorkMoves, LeaseTyped DEF SendRound, Enter, InsideSteps, HoldSteps, WorkSteps
<1>12. CASE ApplyAnswer(i)
  <2>1. PICK work \in {"send", "release"} : attempt' = [attempt EXCEPT ![i].work = work]
    BY <1>12 DEF ApplyAnswer, Enter
  <2> QED
    BY <1>12, <2>1, WorkMoves, LeaseTyped DEF ApplyAnswer, InsideSteps, HoldSteps, WorkSteps
<1>13. CASE CycleFails(i)
  <2>1. lease' \in [fence : AttemptIds \cup {0}, until : 0 .. MaxTick + LeaseTtl]
    BY <1>13, LeaseTyped DEF CycleFails
  <2> QED
    BY <1>13, <2>1, WorkMoves DEF CycleFails, Enter, InsideSteps, HoldSteps, WorkSteps
<1>14. CASE ReleaseLease(i)
  <2>1. PICK work \in {"catchup", "over"} :
          attempt' = [attempt EXCEPT ![i] = [SettledBy(attempt[i], "worker") EXCEPT !.work = work]]
    BY <1>14 DEF ReleaseLease
  <2> DEFINE q == SettledBy(attempt[i], "worker")
             r == [q EXCEPT !.work = work]
  <2>2. /\ q \in AttemptRecords /\ q.caller = attempt[i].caller
        /\ q.reply = IF attempt[i].reply = "none" THEN "status" ELSE attempt[i].reply
    BY <1>0, RecordFacts
  <2> HIDE DEF q
  <2>7. r \in AttemptRecords /\ r.caller = q.caller /\ r.work = work /\ r.reply = q.reply
    <3>1. work \in WorkSteps
      BY DEF WorkSteps
    <3> QED
      BY <2>2, <3>1, WorkSet
  <2>3. /\ r \in AttemptRecords /\ r.caller = attempt[i].caller /\ r.work = work
        /\ r.reply = IF attempt[i].reply = "none" THEN "status" ELSE attempt[i].reply
    BY <2>2, <2>7
  <2>4. attempt[i].work = "release" /\ lease' = Released(i)
    BY <1>14 DEF ReleaseLease
  <2>5. Advances(i, r)
    BY <2>1, <2>3, <2>4 DEF Advances, q
  <2>6. WorksOn(i, r) /\ ReportsOn(i, r)
    BY <1>14, <2>3, <2>4, LeaseTyped DEF ReleaseLease, WorksOn, ReportsOn, InsideSteps, HoldSteps
  <2> QED
    BY <2>3, <2>5, <2>6
<1>15. CASE WorkerDone(i)
  <2> DEFINE r == [attempt[i] EXCEPT !.work = "over"]
  <2>1. /\ r \in AttemptRecords /\ r.caller = attempt[i].caller /\ r.work = "over"
        /\ r.reply = attempt[i].reply
    BY <1>0, WorkSet DEF WorkSteps
  <2>2. attempt' = [attempt EXCEPT ![i] = r] /\ attempt[i].work # "unused"
    BY <1>15 DEF WorkerDone
  <2>3. Advances(i, r)
    BY <2>1, <2>2 DEF Advances
  <2>4. WorksOn(i, r) /\ ReportsOn(i, r)
    BY <1>15, <2>1, LeaseTyped DEF WorkerDone, WorksOn, ReportsOn, InsideSteps, HoldSteps
  <2> QED
    BY <2>1, <2>3, <2>4
<1> QED
  BY <1>1, <1>2, <1>3, <1>4, <1>5, <1>6, <1>7, <1>8, <1>9, <1>10, <1>11, <1>12, <1>13, <1>14, <1>15
     DEF AttemptStep, WorkStep, ReplyStep

-----------------------------------------------------------------------------
(* One step of one attempt keeps the invariant.                             *)

\* Every step of an attempt keeps the invariant.
LEMMA OneKeeps ==
  ASSUME AttemptInv, NEW i \in AttemptIds, NEW r \in AttemptRecords,
         Advances(i, r), WorksOn(i, r), ReportsOn(i, r)
  PROVE  AttemptInv'
<1> USE DEF AttemptInv
<1>1. /\ attempt' \in [AttemptIds -> AttemptRecords] /\ attempt'[i] = r
      /\ \A j \in AttemptIds : j # i => attempt'[j] = attempt[j]
  BY DEF Advances, AttemptTyped
<1>2. AttemptTyped'
  <2>1. running' \subseteq AttemptIds
    BY DEF WorksOn, AttemptTyped
  <2>2. inFlight' \in [Services -> BOOLEAN]
    BY DEF ReportsOn, AttemptTyped
  <2>3. wakeLock' \in [Services -> AttemptIds \cup {0}]
    BY DEF ReportsOn, AttemptTyped
  <2> QED
    BY <1>1, <2>1, <2>2, <2>3 DEF WorksOn, AttemptTyped
<1>3. StartedInOrder'
  <2>1. started' = started /\ workQueue' = workQueue /\ r.work # "unused" /\ attempt[i].work # "unused"
    BY DEF Advances, WorksOn
  <2>2. ~(i > started)
    BY <2>1, NotStartedTyped DEF StartedInOrder
  <2> QED
    BY <1>1, <2>1, <2>2 DEF StartedInOrder
<1>4. OneInside'
  <2>1. running' \subseteq running
    BY DEF WorksOn
  <2>2. ASSUME NEW j \in AttemptIds, attempt'[j].work \in InsideSteps
        PROVE  j \in running'
    <3>1. CASE j = i
      <4>1. r.work # "over" /\ attempt[i].work \in InsideSteps
        BY <1>1, <2>2, <3>1 DEF WorksOn, InsideSteps
      <4> QED
        BY <3>1, <4>1 DEF WorksOn, OneInside
    <3>2. CASE j # i
      <4>1. j \in running
        BY <1>1, <2>2, <3>2 DEF OneInside
      <4> QED
        BY <3>2, <4>1 DEF WorksOn
    <3> QED
      BY <3>1, <3>2
  <2> QED
    BY <2>1, <2>2 DEF OneInside
<1>5. HolderKeepsLease'
  <2> SUFFICES ASSUME NEW j \in AttemptIds, attempt'[j].work \in HoldSteps
               PROVE  lease'.fence = j
    BY DEF HolderKeepsLease, HoldSteps, Owns
  <2>1. CASE j = i
    BY <1>1, <2>1 DEF WorksOn, HolderKeepsLease, HoldSteps, Owns
  <2>2. CASE j # i
    <3>1. attempt[j].work \in HoldSteps /\ j \in running
      BY <1>1, <2>2 DEF OneInside, HoldSteps, InsideSteps
    <3>2. i \notin running
      BY <2>2, <3>1 DEF OneInside
    <3>3. lease' = lease
      BY <3>2 DEF WorksOn, OneInside
    <3> QED
      BY <3>1, <3>3 DEF HolderKeepsLease, HoldSteps, Owns
  <2> QED
    BY <2>1, <2>2
<1>6. CallersExist'
  BY <1>1 DEF Advances, WorksOn, CallersExist
<1>7. \A j \in AttemptIds : /\ Unreported(j)' => Unreported(j)
                            /\ attempt'[j].caller = attempt[j].caller
  BY <1>1 DEF Advances, Unreported
<1>8. Unreported(i)' => Unreported(i)
  BY <1>7
<1>9. OneInFlight'
  <2>1. ASSUME NEW j \in AttemptIds, Unreported(j)'
        PROVE  inFlight'[attempt'[j].caller]
    <3>1. Unreported(j) /\ inFlight[attempt[j].caller] /\ attempt'[j].caller = attempt[j].caller
      BY <1>7, <2>1 DEF OneInFlight
    <3>2. CASE inFlight' = inFlight
      BY <3>1, <3>2
    <3>3. CASE /\ attempt[i].reply = "clear" /\ r.reply = "told"
               /\ inFlight' = [inFlight EXCEPT ![attempt[i].caller] = FALSE]
      <4>1. j # i
        BY <1>1, <2>1, <3>3 DEF Unreported
      <4>2. attempt[i].caller # attempt[j].caller
        BY <3>1, <3>3, <4>1 DEF OneInFlight, Unreported
      <4> QED
        BY <3>1, <3>3, <4>2 DEF AttemptTyped
    <3> QED
      BY <3>2, <3>3 DEF ReportsOn
  <2> QED
    BY <1>7, <2>1 DEF OneInFlight
<1>10. AwakeWhileWorking'
  <2> SUFFICES ASSUME NEW j \in AttemptIds, attempt'[j].caller = service', service' # 0,
                      attempt'[j].work # "unused", attempt'[j].reply \in {"none", "status"}
               PROVE  wakeLock'[service'] = j
    BY DEF AwakeWhileWorking
  <2>1. /\ attempt[j].caller = service /\ service # 0 /\ service' = service
        /\ attempt[j].work # "unused" /\ attempt[j].reply \in {"none", "status"}
    BY <1>1 DEF Advances, WorksOn
  <2>2. wakeLock[service] = j
    BY <2>1 DEF AwakeWhileWorking
  <2>3. CASE wakeLock' = wakeLock
    BY <2>1, <2>2, <2>3
  <2>4. CASE /\ attempt[i].reply = "unlock"
             /\ wakeLock' = [wakeLock EXCEPT ![attempt[i].caller] = 0]
    <3>1. j # i
      BY <2>1, <2>4
    <3>2. attempt[i].caller # attempt[j].caller
      BY <2>1, <2>4, <3>1 DEF OneInFlight, Unreported, Floor
    <3> QED
      BY <2>1, <2>2, <2>4, <3>2 DEF AttemptTyped
  <2> QED
    BY <2>3, <2>4 DEF ReportsOn
<1> QED
  BY <1>2, <1>3, <1>4, <1>5, <1>6, <1>9, <1>10

-----------------------------------------------------------------------------
(* The steps that are of no attempt, or start one.                          *)

\* A new attempt keeps the invariant: its caller waits for no other.
LEMMA NewKeeps ==
  ASSUME AttemptInv, NEW caller \in Services \cup {Floor}, MayStart, started' = started + 1,
         RunOnce(started + 1, caller),
         caller # Floor => /\ caller = service /\ ~inFlight[service]
                           /\ inFlight' = [inFlight EXCEPT ![service] = TRUE]
                           /\ wakeLock' = [wakeLock EXCEPT ![service] = started + 1],
         caller = Floor => UNCHANGED <<inFlight, wakeLock>>,
         UNCHANGED <<running, service, services, schemaReady, lease, now>>
  PROVE  AttemptInv'
<1> USE DEF AttemptInv
<1>1. /\ started + 1 \in AttemptIds /\ started' \in 0 .. MaxAttempt /\ workQueue' \in Seq(1 .. started')
      /\ dbOpen' \in BOOLEAN
  BY RunOnceFacts
<1>0. PICK n \in AttemptIds : n = started + 1
  BY <1>1
<1>2. PICK r \in AttemptRecords :
        /\ attempt' = [attempt EXCEPT ![n] = r]
        /\ r.caller = caller /\ r.work \in {"queued", "over"} /\ r.reply \in {"none", "status"}
  BY <1>0, RunOnceFacts
<1>3. /\ attempt' \in [AttemptIds -> AttemptRecords] /\ attempt'[n] = r
      /\ \A j \in AttemptIds : j # n => attempt'[j] = attempt[j]
  BY <1>1, <1>2 DEF AttemptTyped
<1>4. started \in Nat /\ n > started /\ attempt[n] = NotStarted
  BY <1>0, AttemptAssumption DEF AttemptTyped, StartedInOrder
<1>5. ~Unreported(n)
  BY <1>4, NotStartedTyped DEF Unreported
<1>6. AttemptTyped'
  <2>1. inFlight' \in [Services -> BOOLEAN]
    BY DEF AttemptTyped
  <2>2. wakeLock' \in [Services -> AttemptIds \cup {0}]
    BY <1>1 DEF AttemptTyped
  <2> QED
    BY <1>1, <1>3, <2>1, <2>2 DEF AttemptTyped
<1>7. StartedInOrder'
  <2>1. r.work # "unused"
    BY <1>2
  <2>2. \A j \in AttemptIds : j # n => (j > started' <=> j > started)
    BY <1>4, <1>0 DEF AttemptIds
  <2>3. ASSUME NEW j \in AttemptIds
        PROVE  IF j > started' THEN attempt'[j] = NotStarted ELSE attempt'[j].work # "unused"
    <3>1. CASE j = n
      <4>1. ~(n > started')
        BY <1>0, <1>4
      <4> QED BY <1>3, <2>1, <3>1, <4>1
    <3>2. CASE j # n
      <4>1. IF j > started THEN attempt[j] = NotStarted ELSE attempt[j].work # "unused"
        BY DEF StartedInOrder
      <4>2. attempt'[j] = attempt[j] /\ (j > started' <=> j > started)
        BY <1>3, <2>2, <3>2
      <4> QED BY <4>1, <4>2
    <3> QED BY <3>1, <3>2
  <2>4. workQueue' \in Seq(1 .. started')
    BY <1>1
  <2> HIDE DEF AttemptInv
  <2> QED BY <2>3, <2>4 DEF StartedInOrder
<1>8. OneInside' /\ HolderKeepsLease'
  <2>1. r.work \notin InsideSteps
    BY <1>2 DEF InsideSteps
  <2>2. \A j \in AttemptIds : attempt'[j].work \in InsideSteps => j # n /\ attempt'[j] = attempt[j]
    BY <1>3, <2>1
  <2>3. OneInside'
    BY <2>2 DEF OneInside
  <2>4. HolderKeepsLease'
    BY <2>2 DEF HolderKeepsLease, InsideSteps, Owns
  <2> QED
    BY <2>3, <2>4
<1>9. CallersExist'
  <2>1. caller <= services
    BY AttemptAssumption DEF CallersExist, AttemptTyped, Floor
  <2> QED
    BY <1>2, <1>3, <2>1 DEF CallersExist
<1>10. \A j \in AttemptIds : j # n => (Unreported(j)' <=> Unreported(j)) /\ attempt'[j] = attempt[j]
  BY <1>3 DEF Unreported
<1>11. CASE caller = Floor
  <2>1. ~Unreported(n)'
    BY <1>2, <1>3, <1>11 DEF Unreported
  <2>2. OneInFlight'
    BY <1>10, <1>11, <2>1 DEF OneInFlight
  <2>3. AwakeWhileWorking'
    BY <1>2, <1>3, <1>11 DEF AwakeWhileWorking, Floor
  <2> QED
    BY <1>6, <1>7, <1>8, <1>9, <2>2, <2>3
<1>12. CASE caller # Floor
  <2>1. caller = service /\ ~inFlight[service] /\ service \in Services /\ attempt'[n].caller = service
    BY <1>2, <1>3, <1>12
  <2>2. inFlight'[service] /\ wakeLock'[service] = n
    BY <1>12, <1>0, <2>1 DEF AttemptTyped
  <2>3. \A j \in AttemptIds : j # n /\ Unreported(j) => attempt[j].caller # service
    BY <2>1 DEF OneInFlight
  <2>5. OneInFlight'
    <3>1. ASSUME NEW j \in AttemptIds, Unreported(j)'
          PROVE  inFlight'[attempt'[j].caller]
      <4>1. CASE j = n
        BY <2>1, <2>2, <4>1
      <4>2. CASE j # n
        <5>1. attempt'[j] = attempt[j] /\ Unreported(j) /\ attempt[j].caller # service
          BY <1>10, <2>3, <3>1, <4>2
        <5>2. inFlight[attempt[j].caller] /\ attempt[j].caller \in Services
          BY <5>1 DEF OneInFlight, Unreported, AttemptTyped, AttemptRecords
        <5> QED
          BY <1>12, <5>1, <5>2 DEF AttemptTyped
      <4> QED
        BY <4>1, <4>2
    <3>2. ASSUME NEW j \in AttemptIds, NEW k \in AttemptIds, Unreported(j)', Unreported(k)',
                 attempt'[j].caller = attempt'[k].caller
          PROVE  j = k
      <4>1. CASE j = n /\ k # n
        BY <1>10, <2>1, <2>3, <3>2, <4>1
      <4>2. CASE k = n /\ j # n
        BY <1>10, <2>1, <2>3, <3>2, <4>2
      <4>3. CASE j # n /\ k # n
        BY <1>10, <3>2, <4>3 DEF OneInFlight
      <4> QED
        BY <4>1, <4>2, <4>3
    <3> QED
      BY <3>1, <3>2 DEF OneInFlight
  <2>6. AwakeWhileWorking'
    <3> SUFFICES ASSUME NEW j \in AttemptIds, attempt'[j].caller = service',
                        attempt'[j].reply \in {"none", "status"}
                 PROVE  wakeLock'[service'] = j
      BY DEF AwakeWhileWorking
    <3>1. CASE j = n
      BY <2>2, <3>1
    <3>2. CASE j # n
      <4>1. attempt[j].caller = service /\ Unreported(j)
        BY <1>3, <1>12, <2>1, <3>2 DEF Unreported
      <4> QED
        BY <2>3, <3>2, <4>1
    <3> QED
      BY <3>1, <3>2
  <2> QED
    BY <1>6, <1>7, <1>8, <1>9, <2>5, <2>6
<1> QED
  BY <1>11, <1>12

\* The work thread takes the next attempt only when it is inside of none.
LEMMA TakeKeeps == AttemptInv /\ TakeNext => AttemptInv'
<1> SUFFICES ASSUME AttemptInv, TakeNext
             PROVE  AttemptInv'
  OBVIOUS
<1> USE DEF AttemptInv
<1>1. PICK i : i = Head(workQueue)
  OBVIOUS
<1>2. /\ running = {} /\ workQueue # <<>> /\ workQueue' = Tail(workQueue)
      /\ running' = IF Settled(i) THEN running ELSE running \cup {i}
      /\ attempt' = [attempt EXCEPT ![i].work = IF Settled(i) THEN "over" ELSE "probe"]
      /\ UNCHANGED <<started, service, services, inFlight, wakeLock, dbOpen, schemaReady, lease, now>>
  BY <1>1 DEF TakeNext
<1>3. i \in 1 .. started /\ workQueue' \in Seq(1 .. started)
  BY <1>1, <1>2, HeadTailProperties DEF StartedInOrder
<1>4. i \in AttemptIds /\ ~(i > started) /\ i \in Nat
  BY <1>3, AttemptAssumption DEF AttemptTyped, AttemptIds
<1>5. PICK work \in {"over", "probe"} :
        /\ attempt' = [attempt EXCEPT ![i] = [attempt[i] EXCEPT !.work = work]]
        /\ running' = (IF work = "probe" THEN {i} ELSE {})
  BY <1>2
<1>6. PICK r \in AttemptRecords : /\ attempt' = [attempt EXCEPT ![i] = r]
                                  /\ r.work = work /\ r.caller = attempt[i].caller
                                  /\ r.reply = attempt[i].reply
  <2>1. attempt[i] \in AttemptRecords /\ work \in WorkSteps
    BY <1>4 DEF AttemptTyped, WorkSteps
  <2> QED
    BY <1>5, <2>1, WorkSet
<1>7. /\ attempt' \in [AttemptIds -> AttemptRecords] /\ attempt'[i] = r
      /\ \A j \in AttemptIds : j # i => attempt'[j] = attempt[j]
  BY <1>4, <1>6 DEF AttemptTyped
<1>8. \A j \in AttemptIds : attempt[j].work \notin InsideSteps
  BY <1>2 DEF OneInside
<1>9. AttemptTyped'
  BY <1>2, <1>4, <1>5, <1>7 DEF AttemptTyped
<1>10. StartedInOrder'
  BY <1>2, <1>3, <1>4, <1>6, <1>7 DEF StartedInOrder
<1>11. OneInside'
  <2>1. \A j \in AttemptIds : attempt'[j].work \in InsideSteps => j = i /\ work = "probe"
    BY <1>6, <1>7, <1>8 DEF InsideSteps
  <2> QED
    BY <1>5, <2>1 DEF OneInside
<1>12. HolderKeepsLease'
  BY <1>6, <1>7, <1>8 DEF HolderKeepsLease, InsideSteps
<1>13. CallersExist'
  BY <1>2, <1>6, <1>7 DEF CallersExist
<1>14. \A j \in AttemptIds : /\ (Unreported(j)' <=> Unreported(j))
                             /\ attempt'[j].caller = attempt[j].caller
                             /\ attempt'[j].reply = attempt[j].reply
  BY <1>6, <1>7 DEF Unreported
<1>15. OneInFlight'
  BY <1>2, <1>14 DEF OneInFlight
<1>16. AwakeWhileWorking'
  <2>1. \A j \in AttemptIds : attempt[j].work = "unused" => attempt'[j].work = "unused"
    BY <1>3, <1>4, <1>7 DEF StartedInOrder
  <2>2. \A j \in AttemptIds : attempt'[j].work # "unused" => attempt[j].work # "unused"
    BY <2>1
  <2> QED
    BY <1>2, <1>14, <2>2 DEF AwakeWhileWorking
<1> QED
  BY <1>9, <1>10, <1>11, <1>12, <1>13, <1>15, <1>16

\* What the process leaves when it dies keeps the invariant.
LEMMA DeathKeeps == AttemptInv /\ ProcessDies => AttemptInv'
<1> SUFFICES ASSUME AttemptInv, ProcessDies
             PROVE  AttemptInv'
  OBVIOUS
<1> USE DEF AttemptInv
<1>1. ASSUME NEW i \in AttemptIds
      PROVE  /\ attempt'[i] \in AttemptRecords
             /\ attempt'[i].caller = attempt[i].caller
             /\ IF i > started THEN attempt'[i] = NotStarted
                ELSE attempt'[i].work = "over" /\ attempt'[i].reply = "told"
  <2>1. attempt[i] \in AttemptRecords
    BY DEF AttemptTyped
  <2>2. CASE i > started
    <3>1. attempt'[i] = attempt[i] /\ attempt[i] = NotStarted
      BY <2>2, NotStartedTyped DEF StartedInOrder, ProcessDies
    <3> QED
      BY <2>1, <2>2, <3>1
  <2>3. CASE ~(i > started)
    <3>1. attempt'[i] = [Told(attempt[i]) EXCEPT !.work = "over", !.deadline = 0]
      BY <2>3 DEF StartedInOrder, ProcessDies
    <3>2. /\ Told(attempt[i]) \in AttemptRecords /\ Told(attempt[i]).caller = attempt[i].caller
          /\ Told(attempt[i]).reply = "told"
      BY <2>1, RecordFacts
    <3>3. 0 \in 0 .. MaxTick + Budget
      BY AttemptAssumption
    <3>4. PICK t \in AttemptRecords : t = Told(attempt[i])
      BY <3>2
    <3>5. LET o == [t EXCEPT !.work = "over", !.deadline = 0]
          IN  o \in AttemptRecords /\ o.caller = t.caller /\ o.work = "over" /\ o.reply = t.reply
      BY <3>3 DEF AttemptRecords, WorkSteps
    <3> QED
      BY <2>3, <3>1, <3>2, <3>4, <3>5
  <2> QED
    BY <2>2, <2>3
<1>2. /\ running' = {} /\ workQueue' = <<>> /\ service' = 0 /\ dbOpen' = FALSE
      /\ inFlight' = [s \in Services |-> FALSE] /\ wakeLock' = [s \in Services |-> 0]
      /\ UNCHANGED <<started, services, schemaReady, lease, now>>
  BY DEF ProcessDies
<1>3. attempt' \in [AttemptIds -> AttemptRecords]
  <2>1. attempt' = [i \in AttemptIds |-> attempt'[i]]
    BY DEF ProcessDies
  <2> QED
    BY <1>1, <2>1
<1>4. AttemptTyped'
  BY <1>2, <1>3 DEF AttemptTyped
<1>5. StartedInOrder'
  <2>1. <<>> \in Seq(1 .. started)
    OBVIOUS
  <2>2. "over" # "unused"
    OBVIOUS
  <2> QED
    BY <1>1, <1>2, <2>1, <2>2 DEF StartedInOrder
<1>6. \A i \in AttemptIds : /\ attempt'[i].work \notin InsideSteps /\ ~Unreported(i)'
                            /\ attempt'[i].work = "unused" \/ attempt'[i].reply = "told"
  BY <1>1, NotStartedTyped DEF InsideSteps, Unreported
<1>7. OneInside' /\ OneInFlight' /\ HolderKeepsLease'
  BY <1>2, <1>6 DEF OneInside, OneInFlight, HolderKeepsLease, InsideSteps
<1>8. CallersExist' /\ AwakeWhileWorking'
  BY <1>1, <1>2, AttemptAssumption DEF CallersExist, AwakeWhileWorking, AttemptTyped
<1> QED
  BY <1>4, <1>5, <1>7, <1>8

\* The instances of the service, the schema stamp and the clock.
LEMMA OthersKeep ==
  AttemptInv /\ (ServiceCreated \/ ServiceDestroyed \/ SchemaStamped \/ AttemptTick
                   \/ UNCHANGED attemptVars) => AttemptInv'
<1> SUFFICES ASSUME AttemptInv,
                    ServiceCreated \/ ServiceDestroyed \/ SchemaStamped \/ AttemptTick
                      \/ UNCHANGED attemptVars
             PROVE  AttemptInv'
  OBVIOUS
<1> USE DEF AttemptInv
<1>1. UNCHANGED <<attempt, started, workQueue, running, inFlight, lease>>
  BY DEF ServiceCreated, ServiceDestroyed, SchemaStamped, AttemptTick, attemptVars
<1>2. StartedInOrder' /\ OneInside' /\ HolderKeepsLease' /\ OneInFlight'
  BY <1>1 DEF StartedInOrder, OneInside, HolderKeepsLease, OneInFlight, Unreported, Owns
<1>3. CASE ServiceCreated
  <2>1. services + 1 \in 0 .. MaxService /\ services + 1 \in Services /\ services \in Nat
    BY <1>3, AttemptAssumption DEF ServiceCreated, AttemptTyped, Services
  <2>2. AttemptTyped'
    BY <1>1, <1>3, <2>1 DEF ServiceCreated, AttemptTyped
  <2>3. \A i \in AttemptIds : attempt[i].caller \in Nat
    BY DEF AttemptTyped, AttemptRecords, Services, Floor
  <2>4. CallersExist' /\ AwakeWhileWorking'
    BY <1>1, <1>3, <2>1, <2>3 DEF ServiceCreated, CallersExist, AwakeWhileWorking
  <2> QED
    BY <1>2, <2>2, <2>4
<1>4. CASE ServiceDestroyed
  <2>1. AttemptTyped'
    BY <1>1, <1>4 DEF ServiceDestroyed, AttemptTyped
  <2>2. CallersExist' /\ AwakeWhileWorking'
    BY <1>1, <1>4, AttemptAssumption DEF ServiceDestroyed, CallersExist, AwakeWhileWorking, AttemptTyped
  <2> QED
    BY <1>2, <2>1, <2>2
<1>5. CASE SchemaStamped \/ AttemptTick \/ UNCHANGED attemptVars
  <2>1. now' \in 0 .. MaxTick
    BY <1>5, AttemptAssumption DEF SchemaStamped, AttemptTick, attemptVars, AttemptTyped
  <2>2. UNCHANGED <<service, services, wakeLock, dbOpen>> /\ schemaReady' \in BOOLEAN
    BY <1>5 DEF SchemaStamped, AttemptTick, attemptVars, AttemptTyped
  <2>3. AttemptTyped'
    BY <1>1, <2>1, <2>2 DEF AttemptTyped
  <2>4. CallersExist' /\ AwakeWhileWorking'
    BY <1>1, <2>2 DEF CallersExist, AwakeWhileWorking
  <2> QED
    BY <1>2, <2>3, <2>4
<1> QED
  BY <1>3, <1>4, <1>5

-----------------------------------------------------------------------------
(* The theorems.                                                            *)

\* The invariant holds in an app just installed.
LEMMA AttemptStart == AttemptInit => AttemptInv
<1> SUFFICES ASSUME AttemptInit
             PROVE  AttemptInv
  OBVIOUS
<1>1. \A i \in AttemptIds : attempt[i] = NotStarted
  BY DEF AttemptInit
<1>2. AttemptTyped
  <2>1. /\ 0 \in 0 .. MaxAttempt /\ 0 \in 0 .. MaxService /\ 0 \in 0 .. MaxTick
        /\ 0 \in 0 .. MaxTick + LeaseTtl
    BY AttemptAssumption
  <2>2. attempt \in [AttemptIds -> AttemptRecords]
    BY NotStartedTyped DEF AttemptInit
  <2>3. NoLease \in [fence : AttemptIds \cup {0}, until : 0 .. MaxTick + LeaseTtl]
    BY <2>1 DEF NoLease
  <2> QED
    BY <2>1, <2>2, <2>3 DEF AttemptInit, AttemptTyped
<1>3. StartedInOrder
  <2>1. <<>> \in Seq(1 .. started) /\ \A i \in AttemptIds : i > started
    BY AttemptAssumption DEF AttemptInit, AttemptIds
  <2> QED
    BY <1>1, <2>1 DEF AttemptInit, StartedInOrder
<1>4. OneInside /\ OneInFlight /\ HolderKeepsLease
  BY <1>1, NotStartedTyped
     DEF AttemptInit, OneInside, InsideSteps, OneInFlight, Unreported, HolderKeepsLease
<1>5. CallersExist /\ AwakeWhileWorking
  BY <1>1, NotStartedTyped DEF AttemptInit, CallersExist, AwakeWhileWorking, Floor
<1> QED
  BY <1>2, <1>3, <1>4, <1>5 DEF AttemptInv

\* Every step keeps the invariant.
LEMMA AttemptStepKeeps == AttemptInv /\ [AttemptNext]_attemptVars => AttemptInv'
<1> SUFFICES ASSUME AttemptInv, [AttemptNext]_attemptVars
             PROVE  AttemptInv'
  OBVIOUS
<1>1. CASE StartCommand
  <2>1. service \in Services \cup {Floor} /\ service # Floor
    BY <1>1 DEF StartCommand, AttemptInv, AttemptTyped, Floor
  <2> QED
    BY <1>1, <2>1, NewKeeps DEF StartCommand
<1>2. CASE FloorTick
  BY <1>2, NewKeeps DEF FloorTick
<1>3. CASE TakeNext
  BY <1>3, TakeKeeps
<1>4. CASE ProcessDies
  BY <1>4, DeathKeeps
<1>5. CASE ServiceCreated \/ ServiceDestroyed \/ SchemaStamped \/ AttemptTick \/ UNCHANGED attemptVars
  BY <1>5, OthersKeep
<1>6. ASSUME NEW i \in AttemptIds, AttemptStep(i)
      PROVE  AttemptInv'
  <2>1. PICK r \in AttemptRecords : Advances(i, r) /\ WorksOn(i, r) /\ ReportsOn(i, r)
    BY <1>6, StepOfOne DEF AttemptInv
  <2> QED
    BY <2>1, OneKeeps
<1> QED
  BY <1>1, <1>2, <1>3, <1>4, <1>5, <1>6 DEF AttemptNext, AttemptStep

\* The inductive invariant of the attempts.
LEMMA AttemptInductive == AttemptSpec => []AttemptInv
BY AttemptStart, AttemptStepKeeps, PTL DEF AttemptSpec

JournalStates == TerminalStates \cup NonTerminalStates
JournalRows == [cycle : AttemptIds, to : JournalStates, at : 0 .. MaxTick]

\* An attempt has one row of the journal at most.
OneRowEach(log) == \A m, n \in 1 .. Len(log) : log[m].cycle = log[n].cycle => m = n
JournalTyped == attemptLog \in Seq(JournalRows) /\ OneRowEach(attemptLog)

\* The journal without the row of an attempt: the others, each once, in their order.
LEMMA WithoutTyped ==
  ASSUME NEW log \in Seq(JournalRows), OneRowEach(log), NEW i \in AttemptIds
  PROVE  /\ Without(log, i) \in Seq(JournalRows) /\ OneRowEach(Without(log, i))
         /\ \A n \in 1 .. Len(Without(log, i)) : Without(log, i)[n].cycle # i
<1>0. Len(log) \in Nat /\ DOMAIN log = 1 .. Len(log)
  OBVIOUS
<1>1. CASE RowOf(log, i) = {}
  <2>1. Without(log, i) = log
    BY <1>1 DEF Without
  <2>2. \A n \in 1 .. Len(log) : log[n].cycle # i
    BY <1>0, <1>1 DEF RowOf
  <2> QED BY <2>1, <2>2
<1>2. CASE RowOf(log, i) # {}
  <2>1. PICK p \in 1 .. Len(log) : log[p].cycle = i
    BY <1>0, <1>2 DEF RowOf
  <2>2. RowOf(log, i) = {p}
    BY <1>0, <2>1 DEF RowOf, OneRowEach
  <2>3. Max({p}) = p
    BY DEF Max
  <2> DEFINE t == SubSeq(log, 1, p - 1) \o SubSeq(log, p + 1, Len(log))
  <2>4. Without(log, i) = t
    BY <1>2, <2>2, <2>3 DEF Without, RemoveAt
  <2>5. /\ SubSeq(log, 1, p - 1) \in Seq(JournalRows) /\ Len(SubSeq(log, 1, p - 1)) = p - 1
        /\ SubSeq(log, p + 1, Len(log)) \in Seq(JournalRows)
        /\ Len(SubSeq(log, p + 1, Len(log))) = Len(log) - p
    <3>1. 1 \in Int /\ p - 1 \in Int /\ p + 1 \in Int /\ Len(log) \in Int /\ p <= Len(log) /\ 1 <= p
      BY <1>0, <2>1
    <3>2. \A m \in 1 .. p - 1 : log[m] \in JournalRows
      BY <1>0, <2>1, <3>1
    <3>3. \A m \in p + 1 .. Len(log) : log[m] \in JournalRows
      BY <1>0, <2>1, <3>1
    <3>4. SubSeq(log, 1, p - 1) \in Seq(JournalRows)
          /\ Len(SubSeq(log, 1, p - 1)) = IF 1 <= p - 1 THEN p - 1 - 1 + 1 ELSE 0
      BY <3>1, <3>2, SubSeqProperties
    <3>5. SubSeq(log, p + 1, Len(log)) \in Seq(JournalRows)
          /\ Len(SubSeq(log, p + 1, Len(log))) = IF p + 1 <= Len(log) THEN Len(log) - (p + 1) + 1 ELSE 0
      BY <3>1, <3>3, SubSeqProperties
    <3>6. (IF 1 <= p - 1 THEN p - 1 - 1 + 1 ELSE 0) = p - 1
      BY <3>1
    <3>7. (IF p + 1 <= Len(log) THEN Len(log) - (p + 1) + 1 ELSE 0) = Len(log) - p
      BY <3>1
    <3> QED BY <3>4, <3>5, <3>6, <3>7
  <2>51. \A m \in 1 .. p - 1 : SubSeq(log, 1, p - 1)[m] = log[m]
    BY <1>0, <2>1
  <2>52. \A m \in 1 .. Len(log) - p : SubSeq(log, p + 1, Len(log))[m] = log[p + m]
    <3>1. /\ p \in Int /\ p + 1 \in Int /\ Len(log) \in Int
          /\ \A m \in p + 1 .. Len(log) : log[m] \in JournalRows
      BY <1>0, <2>1
    <3>2. \A m \in 1 .. Len(log) - (p + 1) + 1 : SubSeq(log, p + 1, Len(log))[m] = log[p + 1 + m - 1]
      BY <3>1, SubSeqProperties
    <3>3. Len(log) - (p + 1) + 1 = Len(log) - p
      BY <3>1
    <3>4. \A m \in 1 .. Len(log) - p : p + 1 + m - 1 = p + m
      BY <3>1
    <3> QED BY <3>2, <3>3, <3>4
  <2>53. /\ t \in Seq(JournalRows)
         /\ Len(t) = Len(SubSeq(log, 1, p - 1)) + Len(SubSeq(log, p + 1, Len(log)))
         /\ \A m \in 1 .. Len(SubSeq(log, 1, p - 1)) + Len(SubSeq(log, p + 1, Len(log))) :
               t[m] = IF m <= Len(SubSeq(log, 1, p - 1)) THEN SubSeq(log, 1, p - 1)[m]
                      ELSE SubSeq(log, p + 1, Len(log))[m - Len(SubSeq(log, 1, p - 1))]
    BY <2>5, ConcatProperties
  <2> HIDE DEF t
  <2>54. \A m \in 1 .. (p - 1) + (Len(log) - p) :
            t[m] = IF m <= p - 1 THEN SubSeq(log, 1, p - 1)[m]
                   ELSE SubSeq(log, p + 1, Len(log))[m - (p - 1)]
    BY <2>5, <2>53
  <2>6. t \in Seq(JournalRows) /\ Len(t) = Len(log) - 1
    <3>1. Len(t) = (p - 1) + (Len(log) - p)
      BY <2>5, <2>53
    <3>2. (p - 1) + (Len(log) - p) = Len(log) - 1
      BY <1>0, <2>1
    <3> QED BY <2>53, <3>1, <3>2
  <2>7. ASSUME NEW n \in 1 .. Len(log) - 1
        PROVE  t[n] = log[IF n < p THEN n ELSE n + 1]
    <3>0. n \in 1 .. (p - 1) + (Len(log) - p) /\ n \in Int /\ p \in Int
      BY <1>0, <2>1
    <3>1. CASE n < p
      <4>1. n <= p - 1 /\ n \in 1 .. p - 1
        BY <3>0, <3>1
      <4> QED BY <2>51, <2>54, <3>0, <3>1, <4>1
    <3>2. CASE ~(n < p)
      <4>1. ~(n <= p - 1) /\ n - (p - 1) \in 1 .. Len(log) - p /\ p + (n - (p - 1)) = n + 1
        BY <1>0, <2>1, <3>2
      <4>2. t[n] = SubSeq(log, p + 1, Len(log))[n - (p - 1)]
        BY <2>54, <3>0, <4>1
      <4>3. SubSeq(log, p + 1, Len(log))[n - (p - 1)] = log[p + (n - (p - 1))]
        BY <2>52, <4>1
      <4> QED BY <3>2, <4>1, <4>2, <4>3
    <3> QED BY <3>1, <3>2
  <2>8. \A n \in 1 .. Len(log) - 1 :
          LET k == IF n < p THEN n ELSE n + 1 IN k \in 1 .. Len(log) /\ k # p /\ t[n] = log[k]
    BY <1>0, <2>1, <2>7
  <2>9. \A n \in 1 .. Len(t) : t[n].cycle # i
    BY <1>0, <2>1, <2>6, <2>8 DEF OneRowEach
  <2>10. OneRowEach(t)
    <3> SUFFICES ASSUME NEW m \in 1 .. Len(t), NEW n \in 1 .. Len(t), t[m].cycle = t[n].cycle
                 PROVE  m = n
      BY DEF OneRowEach
    <3>1. m \in 1 .. Len(log) - 1 /\ n \in 1 .. Len(log) - 1
      BY <2>6
    <3>2. (IF m < p THEN m ELSE m + 1) = (IF n < p THEN n ELSE n + 1)
      BY <2>8, <3>1 DEF OneRowEach
    <3> QED BY <2>1, <3>1, <3>2
  <2> QED BY <2>4, <2>6, <2>9, <2>10
<1> QED BY <1>1, <1>2

\* A row that is journaled replaces the one its attempt had.
LEMMA JournaledTyped ==
  ASSUME NEW log \in Seq(JournalRows), OneRowEach(log), NEW i \in AttemptIds,
         NEW to \in JournalStates, now \in 0 .. MaxTick
  PROVE  Journaled(log, i, to) \in Seq(JournalRows) /\ OneRowEach(Journaled(log, i, to))
<1> DEFINE t == Without(log, i)
           r == [cycle |-> i, to |-> to, at |-> IF to \in TerminalStates THEN 0 ELSE now]
<1>1. t \in Seq(JournalRows) /\ OneRowEach(t) /\ \A n \in 1 .. Len(t) : t[n].cycle # i
  BY WithoutTyped
<1>2. r \in JournalRows /\ r.cycle = i
  BY AttemptAssumption DEF JournalRows
<1>3. Journaled(log, i, to) = Append(t, r)
  BY DEF Journaled
<1> HIDE DEF t, r
<1>4. /\ Append(t, r) \in Seq(JournalRows) /\ Len(Append(t, r)) = Len(t) + 1 /\ Len(t) \in Nat
      /\ Append(t, r)[Len(t) + 1] = r /\ \A n \in 1 .. Len(t) : Append(t, r)[n] = t[n]
  BY <1>1, <1>2
<1>5. OneRowEach(Append(t, r))
  BY <1>1, <1>2, <1>4 DEF OneRowEach
<1> QED BY <1>3, <1>4, <1>5

\* What a sweep makes of the journal is a journal.
LEMMA AbandonedTyped ==
  ASSUME JournalTyped, now \in 0 .. MaxTick, NEW i \in AttemptIds
  PROVE  AbandonedStale(i) \in Seq(JournalRows) /\ OneRowEach(AbandonedStale(i))
<1> DEFINE others == Without(attemptLog, i)
<1>1. others \in Seq(JournalRows)
  BY WithoutTyped DEF JournalTyped
<1>2. CASE others # <<>> /\ Last(others).to \in NonTerminalStates /\ Last(others).at + LeaseTtl < now
  <2>1. Last(others) \in JournalRows
    BY <1>1, <1>2 DEF Last
  <2>2. Last(others).cycle \in AttemptIds
    BY <2>1 DEF JournalRows
  <2>3. AbandonedStale(i) = Journaled(attemptLog, Last(others).cycle, "abandoned")
    BY <1>2 DEF AbandonedStale
  <2> QED BY <2>2, <2>3, JournaledTyped DEF JournalTyped, JournalStates, TerminalStates
<1>3. CASE ~(others # <<>> /\ Last(others).to \in NonTerminalStates /\ Last(others).at + LeaseTtl < now)
  BY <1>3 DEF AbandonedStale, JournalTyped
<1> QED BY <1>2, <1>3

\* With one row for each, the journal is no longer than there are attempts.
LEMMA JournalIsShort == JournalTyped => Len(attemptLog) <= MaxAttempt
<1> SUFFICES ASSUME JournalTyped PROVE Len(attemptLog) <= MaxAttempt
  OBVIOUS
<1> DEFINE n == Len(attemptLog)
           f == [m \in 1 .. n |-> attemptLog[m].cycle]
<1>1. n \in Nat /\ \A m \in 1 .. n : attemptLog[m].cycle \in 1 .. MaxAttempt
  <2>1. attemptLog \in Seq(JournalRows)
    BY DEF JournalTyped
  <2>2. n \in Nat /\ \A m \in 1 .. n : attemptLog[m] \in JournalRows
    BY <2>1, LenProperties, ElementOfSeq
  <2>3. \A r \in JournalRows : r.cycle \in 1 .. MaxAttempt
    BY DEF JournalRows, AttemptIds
  <2> HIDE DEF n
  <2> QED BY <2>2, <2>3
<1>2. f \in Injection(1 .. n, 1 .. MaxAttempt)
  <2>1. f \in [1 .. n -> 1 .. MaxAttempt]
    BY <1>1
  <2>2. \A a, b \in DOMAIN f : f[a] = f[b] => a = b
    BY DEF JournalTyped, OneRowEach
  <2> QED BY <2>1, <2>2 DEF Injection, IsInjective
<1>3. /\ IsFiniteSet(1 .. n) /\ Cardinality(1 .. n) = n
      /\ IsFiniteSet(1 .. MaxAttempt) /\ Cardinality(1 .. MaxAttempt) = MaxAttempt
  <2>1. ASSUME NEW k \in Nat PROVE IsFiniteSet(1 .. k) /\ Cardinality(1 .. k) = k
    <3>1. 1 \in Int /\ k \in Int
      OBVIOUS
    <3>2. IsFiniteSet(1 .. k) /\ Cardinality(1 .. k) = IF 1 > k THEN 0 ELSE k - 1 + 1
      BY <3>1, FS_Interval
    <3>3. (IF 1 > k THEN 0 ELSE k - 1 + 1) = k
      BY SMT
    <3> QED BY <3>2, <3>3
  <2> HIDE DEF n
  <2> QED BY <1>1, <2>1, AttemptAssumption
<1> HIDE DEF f
<1> QED BY <1>2, <1>3, FS_Injection

\* What a step writes to the journal.
LEMMA JournalMoves ==
  ASSUME [AttemptNext]_attemptVars
  PROVE  \/ attemptLog' = attemptLog
         \/ \E i \in AttemptIds, to \in JournalStates : attemptLog' = Journaled(attemptLog, i, to)
         \/ \E i \in AttemptIds : attemptLog' = AbandonedStale(i)
<1> USE DEF JournalStates, TerminalStates, NonTerminalStates
<1>1. CASE UNCHANGED attemptVars
  BY <1>1 DEF attemptVars
<1>2. CASE ServiceCreated \/ StartCommand \/ ServiceDestroyed \/ FloorTick \/ TakeNext \/ ProcessDies
           \/ SchemaStamped \/ AttemptTick
  BY <1>2 DEF ServiceCreated, StartCommand, ServiceDestroyed, FloorTick, TakeNext, ProcessDies,
              SchemaStamped, AttemptTick
<1>3. ASSUME NEW i \in AttemptIds, FloorStopsWaiting(i) \/ ReplyStep(i) \/ ProbeRefused(i)
                                   \/ ReleaseLease(i) \/ WorkerDone(i)
      PROVE  attemptLog' = attemptLog
  BY <1>3 DEF FloorStopsWaiting, ReplyStep, RecordStatus, ReleaseWakeLock, ClearInFlight,
              ProbeRefused, ReleaseLease, WorkerDone
<1>4. ASSUME NEW i \in AttemptIds, WatchdogFires(i) \/ ProbeAnswered(i) \/ ConfigMissing(i) \/ SendRound(i)
                                   \/ ApplyAnswer(i) \/ CycleFails(i)
      PROVE  \E to \in JournalStates : attemptLog' = Journaled(attemptLog, i, to)
  BY <1>4 DEF WatchdogFires, ProbeAnswered, ConfigMissing, SendRound, ApplyAnswer, CycleFails, Enter
<1>5. ASSUME NEW i \in AttemptIds, ClaimLease(i)
      PROVE  \/ attemptLog' = attemptLog
             \/ \E to \in JournalStates : attemptLog' = Journaled(attemptLog, i, to)
  BY <1>5 DEF ClaimLease, Enter
<1>6. ASSUME NEW i \in AttemptIds, Sweep(i)
      PROVE  \/ attemptLog' = AbandonedStale(i)
             \/ \E to \in JournalStates : attemptLog' = Journaled(attemptLog, i, to)
  BY <1>6 DEF Sweep, Enter
<1> HIDE DEF JournalStates, TerminalStates, NonTerminalStates
<1>7. ASSUME NEW i \in AttemptIds, WorkStep(i)
      PROVE  \/ attemptLog' = attemptLog
             \/ \E to \in JournalStates : attemptLog' = Journaled(attemptLog, i, to)
             \/ attemptLog' = AbandonedStale(i)
  BY <1>3, <1>4, <1>5, <1>6, <1>7 DEF WorkStep
<1> QED BY <1>1, <1>2, <1>3, <1>4, <1>7 DEF AttemptNext

\* The journal keeps its type.
LEMMA JournalStep == AttemptTyped /\ JournalTyped /\ [AttemptNext]_attemptVars => JournalTyped'
<1> SUFFICES ASSUME AttemptTyped, JournalTyped, [AttemptNext]_attemptVars PROVE JournalTyped'
  OBVIOUS
<1>1. now \in 0 .. MaxTick /\ attemptLog \in Seq(JournalRows) /\ OneRowEach(attemptLog)
  BY DEF AttemptTyped, JournalTyped
<1>2. CASE attemptLog' = attemptLog
  BY <1>1, <1>2 DEF JournalTyped
<1>3. ASSUME NEW i \in AttemptIds, NEW to \in JournalStates, attemptLog' = Journaled(attemptLog, i, to)
      PROVE  JournalTyped'
  BY <1>1, <1>3, JournaledTyped DEF JournalTyped
<1>4. ASSUME NEW i \in AttemptIds, attemptLog' = AbandonedStale(i)
      PROVE  JournalTyped'
  BY <1>1, <1>4, AbandonedTyped DEF JournalTyped
<1> QED BY <1>2, <1>3, <1>4, JournalMoves

\* The attempts, the service, the lease and the journal keep their types.
THEOREM AttemptTypes == AttemptSpec => []AttemptTypeOK
<1>1. AttemptInit => JournalTyped
  <2>1. <<>> \in Seq(JournalRows) /\ Len(<<>>) = 0
    OBVIOUS
  <2> QED BY <2>1 DEF AttemptInit, JournalTyped, OneRowEach
<1>2. AttemptInv /\ JournalTyped => AttemptTypeOK
  <2> SUFFICES ASSUME AttemptInv, JournalTyped PROVE AttemptTypeOK
    OBVIOUS
  <2>1. AttemptTyped /\ StartedInOrder /\ Len(attemptLog) <= MaxAttempt
    BY JournalIsShort DEF AttemptInv
  <2>2. workQueue \in Seq(AttemptIds)
    <3>1. 1 .. started \subseteq AttemptIds
      BY <2>1, AttemptAssumption DEF AttemptTyped, AttemptIds
    <3>2. workQueue \in Seq(1 .. started)
      BY <2>1 DEF StartedInOrder
    <3> QED BY <3>1, <3>2, SeqMonotonic
  <2> QED BY <2>1, <2>2
          DEF AttemptTypeOK, AttemptTyped, AttemptRecords, JournalTyped, JournalRows, JournalStates
<1>3. AttemptInv => AttemptTyped
  BY DEF AttemptInv
<1> QED BY <1>1, <1>2, <1>3, JournalStep, AttemptInductive, PTL DEF AttemptSpec

\* An attempt past its claim keeps the lease to its end, even when it outlasts it.
THEOREM LeaseKept == AttemptSpec => []HolderKeepsLease
<1>1. AttemptInv => HolderKeepsLease
  BY DEF AttemptInv
<1> QED
  BY <1>1, AttemptInductive, PTL

\* The wake lock of a service that is up is that of the attempt it still waits for.
THEOREM AwakeForIts == AttemptSpec => []AwakeWhileWorking
<1>1. AttemptInv => AwakeWhileWorking
  BY DEF AttemptInv
<1> QED
  BY <1>1, AttemptInductive, PTL
-----------------------------------------------------------------------------
(* The background triggers.                                                 *)

\* A run of the app that is gone has left nothing in memory.
GoneIsEmpty ==
  ~app => ~strategies /\ generation = 0 /\ asking = {} /\ floorOps = <<>>

\* Every open prompt is of a generation that was given out, and of one before the last
\* disable when the strategies are off: its late answer is recognised as such.
PromptsAreOfThePast ==
  \A g \in asking : g <= generation /\ (~strategies => g < generation)

\* With the strategies on, the ticker is too, unless the prompt of this very generation is
\* open; off after they were on, it is not ticking.
TickerFollows ==
  /\ strategies => generation > 0
  /\ strategies /\ generation \notin asking => ticking /\ token
  /\ ~strategies /\ generation > 0 => ~ticking

\* What the queue does last, when there is something in it.
LastOp(q) == q[Len(q)]

\* What the queue of the floor does last is what was asked for last, and an empty queue has
\* done it.
FloorFollows ==
  generation > 0 =>
    IF floorOps # <<>> THEN LastOp(floorOps) = (IF strategies THEN "register" ELSE "unregister")
    ELSE IF strategies THEN floorWork \/ unconfirmed
    ELSE ~floorWork /\ ~legacyWork

\* While the app is up the chain of alarms is whole or known to be lost; the floor alone is
\* relied on only after a reboot, until the app opens.
ChainWhileUp == app /\ ticking => alarm \/ receiver # "idle" \/ missed

\* Whoever enabled can still disable: the bound is on the enabling.
RoomToDisable == strategies => generation < 2 * MaxGeneration

TriggersInv ==
  /\ TriggersTypeOK /\ RoomToDisable /\ GoneIsEmpty /\ PromptsAreOfThePast
  /\ TickerFollows /\ FloorFollows /\ ChainWhileUp /\ SomebodyTriggers

-----------------------------------------------------------------------------
(* The queue of the floor, and what the pieces of the actions leave.        *)

FloorQueues == Seq({"register", "unregister"})

\* An operation queued goes to the end.
LEMMA QueuedLast ==
  ASSUME NEW q \in FloorQueues, NEW op \in {"register", "unregister"}
  PROVE  /\ Append(q, op) \in FloorQueues /\ Append(q, op) # <<>>
         /\ LastOp(Append(q, op)) = op
<1>1. Append(q, op) \in FloorQueues /\ Append(q, op) # <<>>
  BY AppendProperties DEF FloorQueues
<1>2. Len(Append(q, op)) = Len(q) + 1 /\ Append(q, op)[Len(q) + 1] = op
  BY AppendProperties DEF FloorQueues
<1> QED
  BY <1>1, <1>2 DEF LastOp

\* The operation done leaves the end where it was, if any is left, and was it otherwise.
LEMMA DoneFirst ==
  ASSUME NEW q \in FloorQueues, q # <<>>
  PROVE  /\ Tail(q) \in FloorQueues
         /\ Tail(q) = <<>> => LastOp(q) = Head(q)
         /\ Tail(q) # <<>> => LastOp(Tail(q)) = LastOp(q)
<1>1. /\ Tail(q) \in FloorQueues /\ Head(q) = q[1]
      /\ Len(q) \in Nat /\ Len(q) > 0 /\ Len(Tail(q)) = Len(q) - 1
      /\ \A i \in 1 .. Len(Tail(q)) : Tail(q)[i] = q[i + 1]
  BY HeadTailProperties, EmptySeq, LenProperties DEF FloorQueues
<1>2. Tail(q) = <<>> => Len(q) = 1
  BY <1>1
<1>3. Tail(q) # <<>> => Len(Tail(q)) > 0
  BY <1>1, EmptySeq DEF FloorQueues
<1> QED
  BY <1>1, <1>2, <1>3 DEF LastOp

\* What starting and stopping the ticker leaves, whoever does it.
LEMMA TickerTyped ==
  ASSUME StartTicking \/ StopTicking
  PROVE  /\ ticking' \in BOOLEAN /\ alarm' \in BOOLEAN /\ token' \in BOOLEAN
         /\ missed' \in BOOLEAN /\ serviceUp' \in BOOLEAN
BY DEF StartTicking, StopTicking

\* What a runtime that is gone leaves.
LEMMA GoneTyped ==
  ASSUME RuntimeGone
  PROVE  /\ strategies' \in BOOLEAN /\ generation' \in 0 .. 2 * MaxGeneration
         /\ asking' \subseteq 1 .. 2 * MaxGeneration /\ floorOps' \in FloorQueues
<1>1. 0 \in 0 .. 2 * MaxGeneration /\ {} \subseteq 1 .. 2 * MaxGeneration
  BY TriggersAssumption
<1>2. <<>> \in FloorQueues
  BY DEF FloorQueues
<1> QED
  BY <1>1, <1>2 DEF RuntimeGone

\* An outage is counted within its bound.
LEMMA OutageTyped ==
  ASSUME TriggersTypeOK, Outage
  PROVE  outages' \in 0 .. MaxOutage
BY TriggersAssumption DEF TriggersTypeOK, Outage

\* A generation given out is within its bound.
LEMMA GenerationTyped ==
  ASSUME TriggersTypeOK, generation + 1 <= 2 * MaxGeneration
  PROVE  generation + 1 \in 1 .. 2 * MaxGeneration /\ generation + 1 \in 0 .. 2 * MaxGeneration
BY TriggersAssumption DEF TriggersTypeOK

-----------------------------------------------------------------------------
(* The types.                                                               *)

\* Every step keeps the types and leaves room to disable.
LEMMA TypeStep ==
  TriggersTypeOK /\ RoomToDisable /\ [TriggersNext]_triggersVars => TriggersTypeOK' /\ RoomToDisable'
<1> SUFFICES ASSUME TriggersTypeOK, RoomToDisable, [TriggersNext]_triggersVars
             PROVE  TriggersTypeOK' /\ RoomToDisable'
  OBVIOUS
<1> USE DEF FloorQueues
<1>1. CASE Pair \/ Unpair
  <2>1. paired' \in BOOLEAN
    BY <1>1, Zenon DEF Pair, Unpair
  <2>2. UNCHANGED <<app, facadeVars, tickerVars, floorVars, outages>>
    BY <1>1, Zenon DEF Pair, Unpair
  <2> QED
    BY <2>1, <2>2 DEF TriggersTypeOK, RoomToDisable, facadeVars, tickerVars, floorVars
<1>3. CASE RegisterStrategies
  <2>1. /\ generation + 1 \in 0 .. 2 * MaxGeneration /\ generation + 1 \in 1 .. 2 * MaxGeneration
        /\ generation + 1 < 2 * MaxGeneration
    BY <1>3, TriggersAssumption DEF RegisterStrategies, TriggersTypeOK
  <2>2. Append(floorOps, "register") \in FloorQueues
    BY QueuedLast DEF TriggersTypeOK
  <2>3. RoomToDisable'
    BY <1>3, <2>1, TriggersAssumption DEF RegisterStrategies, RoomToDisable
  <2> QED
    BY <1>3, <2>1, <2>2, <2>3 DEF RegisterStrategies, TriggersTypeOK, tickerVars, floorVars
<1>4. CASE UnregisterStrategies
  <2>1. generation + 1 \in 0 .. 2 * MaxGeneration
    BY <1>4, TriggersAssumption DEF UnregisterStrategies, TriggersTypeOK, RoomToDisable
  <2>2. Append(floorOps, "unregister") \in FloorQueues
    BY QueuedLast DEF TriggersTypeOK
  <2>3. RoomToDisable'
    BY <1>4 DEF UnregisterStrategies, RoomToDisable
  <2>4. StopTicking
    BY <1>4 DEF UnregisterStrategies
  <2> QED
    BY <1>4, <2>1, <2>2, <2>3, <2>4, TickerTyped DEF UnregisterStrategies, TriggersTypeOK, floorVars
<1>5. ASSUME NEW g \in asking, PermissionAnswered(g)
      PROVE  TriggersTypeOK' /\ RoomToDisable'
  <2>1. StartTicking \/ StopTicking
    BY <1>5 DEF PermissionAnswered
  <2> QED
    BY <1>5, <2>1, TickerTyped DEF PermissionAnswered, TriggersTypeOK, RoomToDisable, floorVars
<1>6. CASE FloorRegisters
  <2>1. Tail(floorOps) \in FloorQueues
    BY <1>6, DoneFirst DEF FloorRegisters, TriggersTypeOK
  <2>2. floorWork' \in BOOLEAN /\ legacyWork' \in BOOLEAN /\ unconfirmed' \in BOOLEAN
    BY <1>6 DEF FloorRegisters, TriggersTypeOK
  <2>3. outages' \in 0 .. MaxOutage
    BY <1>6, OutageTyped DEF FloorRegisters, TriggersTypeOK
  <2> QED
    BY <1>6, <2>1, <2>2, <2>3 DEF FloorRegisters, TriggersTypeOK, RoomToDisable, tickerVars
<1>7. CASE FloorUnregisters
  <2>1. Tail(floorOps) \in FloorQueues
    BY <1>7, DoneFirst DEF FloorUnregisters, TriggersTypeOK
  <2> QED
    BY <1>7, <2>1 DEF FloorUnregisters, TriggersTypeOK, RoomToDisable, tickerVars
<1>8. CASE AlarmFires
  BY <1>8 DEF AlarmFires, TriggersTypeOK, RoomToDisable, facadeVars, floorVars
<1>9. CASE BroadcastLost
  <2>1. outages' \in 0 .. MaxOutage
    BY <1>9, OutageTyped DEF BroadcastLost
  <2> QED
    BY <1>9, <2>1 DEF BroadcastLost, TriggersTypeOK, RoomToDisable, facadeVars, floorVars
<1>10. CASE ReceiverReads
  BY <1>10 DEF ReceiverReads, TriggersTypeOK, RoomToDisable, facadeVars, floorVars
<1>11. CASE ReceiverReArms
  BY <1>11 DEF ReceiverReArms, TriggersTypeOK, RoomToDisable, facadeVars, floorVars
<1>12. CASE AppOpens
  <2>1. alarm' \in BOOLEAN /\ token' \in BOOLEAN
    BY <1>12, Zenon DEF AppOpens
  <2> QED
    BY <1>12, <2>1 DEF AppOpens, TriggersTypeOK, RoomToDisable, facadeVars, floorVars
<1>13. CASE AppDestroyed
  <2>1. outages' \in 0 .. MaxOutage
    BY <1>13, OutageTyped DEF AppDestroyed
  <2>2. RoomToDisable'
    BY <1>13 DEF AppDestroyed, RuntimeGone, RoomToDisable
  <2>3. RuntimeGone /\ StopTicking
    BY <1>13 DEF AppDestroyed
  <2> QED
    BY <1>13, <2>1, <2>2, <2>3, GoneTyped, TickerTyped DEF AppDestroyed, TriggersTypeOK, floorVars
<1>14. CASE AppKilled
  <2>1. outages' \in 0 .. MaxOutage
    BY <1>14, OutageTyped DEF AppKilled
  <2>2. RoomToDisable'
    BY <1>14 DEF AppKilled, RuntimeGone, RoomToDisable
  <2>3. RuntimeGone
    BY <1>14 DEF AppKilled
  <2>4. missed' \in BOOLEAN
    BY <1>14, Zenon DEF AppKilled
  <2> QED
    BY <1>14, <2>1, <2>2, <2>3, <2>4, GoneTyped DEF AppKilled, TriggersTypeOK, floorVars
<1>15. CASE Reboot
  <2>1. outages' \in 0 .. MaxOutage
    BY <1>15, OutageTyped DEF Reboot
  <2>2. RoomToDisable'
    BY <1>15 DEF Reboot, RuntimeGone, RoomToDisable
  <2>3. RuntimeGone
    BY <1>15 DEF Reboot
  <2>4. missed' \in BOOLEAN
    BY <1>15, Zenon DEF Reboot
  <2>5. /\ app' = FALSE /\ alarm' = FALSE /\ token' = FALSE /\ serviceUp' = FALSE
        /\ receiver' = "idle" /\ UNCHANGED <<paired, ticking, floorVars>>
    BY <1>15, Zenon DEF Reboot
  <2>6. /\ strategies' \in BOOLEAN /\ generation' \in 0 .. 2 * MaxGeneration
        /\ asking' \subseteq 1 .. 2 * MaxGeneration /\ floorOps' \in FloorQueues
    BY <2>3, GoneTyped
  <2>7. TriggersTypeOK'
    BY <2>1, <2>4, <2>5, <2>6 DEF TriggersTypeOK, floorVars
  <2> QED
    BY <2>2, <2>7
<1>16. CASE ServiceKilled
  <2>1. serviceUp' \in BOOLEAN
    BY <1>16, Zenon DEF ServiceKilled
  <2>2. UNCHANGED <<paired, app, facadeVars, ticking, alarm, token, missed, receiver, floorVars, outages>>
    BY <1>16, Zenon DEF ServiceKilled
  <2> QED
    BY <2>1, <2>2 DEF TriggersTypeOK, RoomToDisable, facadeVars, floorVars
<1>17. CASE UNCHANGED triggersVars
  BY <1>17 DEF triggersVars, TriggersTypeOK, RoomToDisable
<1> QED
  BY <1>1, <1>3, <1>4, <1>5, <1>6, <1>7, <1>8, <1>9, <1>10, <1>11, <1>12, <1>13, <1>14,
     <1>15, <1>16, <1>17 DEF TriggersNext

-----------------------------------------------------------------------------
(* The other parts of the invariant, one lemma each.                        *)

\* A runtime that is gone stays empty, and its prompts are of the past.
LEMMA PromptsStep == TriggersInv /\ [TriggersNext]_triggersVars => (GoneIsEmpty /\ PromptsAreOfThePast)'
<1> SUFFICES ASSUME TriggersInv, [TriggersNext]_triggersVars
             PROVE  (GoneIsEmpty /\ PromptsAreOfThePast)'
  OBVIOUS
<1> USE DEF TriggersInv, TriggersTypeOK, GoneIsEmpty, PromptsAreOfThePast, facadeVars
<1>1. CASE Pair
  BY <1>1 DEF Pair, facadeVars, tickerVars, floorVars
<1>2. CASE Unpair
  BY <1>2 DEF Unpair, facadeVars, tickerVars, floorVars
<1>3. CASE RegisterStrategies
  BY <1>3 DEF RegisterStrategies, tickerVars, floorVars
<1>4. CASE UnregisterStrategies
  BY <1>4 DEF UnregisterStrategies, StopTicking, floorVars
<1>5. CASE FloorRegisters
  BY <1>5 DEF FloorRegisters, tickerVars
<1>6. CASE FloorUnregisters
  BY <1>6 DEF FloorUnregisters, tickerVars
<1>7. CASE AlarmFires
  BY <1>7 DEF AlarmFires, facadeVars, floorVars
<1>8. CASE BroadcastLost
  BY <1>8 DEF BroadcastLost, facadeVars, floorVars
<1>9. CASE ReceiverReads
  BY <1>9 DEF ReceiverReads, facadeVars, floorVars
<1>10. CASE ReceiverReArms
  BY <1>10 DEF ReceiverReArms, facadeVars, floorVars
<1>11. CASE AppOpens
  BY <1>11 DEF AppOpens, facadeVars, floorVars
<1>12. CASE AppDestroyed
  BY <1>12 DEF AppDestroyed, RuntimeGone, StopTicking, floorVars
<1>13. CASE AppKilled
  BY <1>13 DEF AppKilled, RuntimeGone, floorVars
<1>14. CASE Reboot
  BY <1>14 DEF Reboot, RuntimeGone, floorVars
<1>15. CASE ServiceKilled
  BY <1>15 DEF ServiceKilled, facadeVars, floorVars
<1>16. ASSUME NEW g \in asking, PermissionAnswered(g)
       PROVE  (GoneIsEmpty /\ PromptsAreOfThePast)'
  BY <1>16 DEF PermissionAnswered, CompletedLate, StartTicking, StopTicking, floorVars
<1>17. CASE UNCHANGED triggersVars
  BY <1>17 DEF triggersVars
<1> QED
  BY <1>1, <1>2, <1>3, <1>4, <1>5, <1>6, <1>7, <1>8, <1>9, <1>10, <1>11, <1>12, <1>13,
     <1>14, <1>15, <1>16, <1>17 DEF TriggersNext

\* The ticker keeps following the strategies.
LEMMA TickerStep == TriggersInv /\ [TriggersNext]_triggersVars => TickerFollows'
<1> SUFFICES ASSUME TriggersInv, [TriggersNext]_triggersVars
             PROVE  TickerFollows'
  OBVIOUS
<1> USE DEF TriggersInv, TriggersTypeOK, GoneIsEmpty, PromptsAreOfThePast, TickerFollows
<1>1. CASE Pair
  BY <1>1 DEF Pair, facadeVars, tickerVars, floorVars
<1>2. CASE Unpair
  BY <1>2 DEF Unpair, facadeVars, tickerVars, floorVars
<1>3. CASE RegisterStrategies
  BY <1>3 DEF RegisterStrategies, tickerVars, floorVars
<1>4. CASE UnregisterStrategies
  BY <1>4 DEF UnregisterStrategies, StopTicking, floorVars
<1>5. CASE FloorRegisters
  BY <1>5 DEF FloorRegisters, tickerVars
<1>6. CASE FloorUnregisters
  BY <1>6 DEF FloorUnregisters, tickerVars
<1>7. CASE AlarmFires
  BY <1>7 DEF AlarmFires, facadeVars, floorVars
<1>8. CASE BroadcastLost
  BY <1>8 DEF BroadcastLost, facadeVars, floorVars
<1>9. CASE ReceiverReads
  BY <1>9 DEF ReceiverReads, facadeVars, floorVars
<1>10. CASE ReceiverReArms
  BY <1>10 DEF ReceiverReArms, facadeVars, floorVars
<1>11. CASE AppOpens
  BY <1>11 DEF AppOpens, facadeVars, floorVars
<1>12. CASE AppDestroyed
  BY <1>12 DEF AppDestroyed, RuntimeGone, StopTicking, floorVars
<1>13. CASE AppKilled
  BY <1>13 DEF AppKilled, RuntimeGone, floorVars
<1>14. CASE Reboot
  BY <1>14 DEF Reboot, RuntimeGone, floorVars
<1>15. CASE ServiceKilled
  BY <1>15 DEF ServiceKilled, facadeVars, floorVars
<1>16. ASSUME NEW g \in asking, PermissionAnswered(g)
       PROVE  TickerFollows'
  BY <1>16 DEF PermissionAnswered, CompletedLate, StartTicking, StopTicking, floorVars
<1>17. CASE UNCHANGED triggersVars
  BY <1>17 DEF triggersVars
<1> QED
  BY <1>1, <1>2, <1>3, <1>4, <1>5, <1>6, <1>7, <1>8, <1>9, <1>10, <1>11, <1>12, <1>13,
     <1>14, <1>15, <1>16, <1>17 DEF TriggersNext

\* The floor keeps following the strategies.
LEMMA FloorStep == TriggersInv /\ [TriggersNext]_triggersVars => FloorFollows'
<1> SUFFICES ASSUME TriggersInv, [TriggersNext]_triggersVars
             PROVE  FloorFollows'
  OBVIOUS
<1> USE DEF TriggersInv, TriggersTypeOK, GoneIsEmpty, FloorFollows, FloorQueues
<1>1. CASE Pair
  BY <1>1 DEF Pair, facadeVars, tickerVars, floorVars
<1>2. CASE Unpair
  BY <1>2 DEF Unpair, facadeVars, tickerVars, floorVars
<1>3. CASE RegisterStrategies
  <2>1. /\ floorOps' # <<>> /\ LastOp(floorOps') = "register"
    BY <1>3, QueuedLast DEF RegisterStrategies
  <2> QED
    BY <1>3, <2>1 DEF RegisterStrategies
<1>4. CASE UnregisterStrategies
  <2>1. /\ floorOps' # <<>> /\ LastOp(floorOps') = "unregister"
    BY <1>4, QueuedLast DEF UnregisterStrategies
  <2> QED
    BY <1>4, <2>1 DEF UnregisterStrategies
<1>5. CASE FloorRegisters
  <2>1. /\ floorOps' = <<>> => LastOp(floorOps) = "register"
        /\ floorOps' # <<>> => LastOp(floorOps') = LastOp(floorOps)
    BY <1>5, DoneFirst DEF FloorRegisters
  <2>2. floorOps # <<>> /\ UNCHANGED <<strategies, generation>>
    BY <1>5 DEF FloorRegisters
  <2>3. floorWork' \/ unconfirmed'
    BY <1>5 DEF FloorRegisters
  <2> QED
    BY <2>1, <2>2, <2>3
<1>6. CASE FloorUnregisters
  <2>1. /\ floorOps' = <<>> => LastOp(floorOps) = "unregister"
        /\ floorOps' # <<>> => LastOp(floorOps') = LastOp(floorOps)
    BY <1>6, DoneFirst DEF FloorUnregisters
  <2>2. floorOps # <<>> /\ UNCHANGED <<strategies, generation>>
    BY <1>6 DEF FloorUnregisters
  <2>3. ~floorWork' /\ ~legacyWork'
    BY <1>6 DEF FloorUnregisters
  <2> QED
    BY <2>1, <2>2, <2>3
<1>7. CASE AlarmFires
  BY <1>7 DEF AlarmFires, facadeVars, floorVars
<1>8. CASE BroadcastLost
  BY <1>8 DEF BroadcastLost, facadeVars, floorVars
<1>9. CASE ReceiverReads
  BY <1>9 DEF ReceiverReads, facadeVars, floorVars
<1>10. CASE ReceiverReArms
  BY <1>10 DEF ReceiverReArms, facadeVars, floorVars
<1>11. CASE AppOpens
  BY <1>11 DEF AppOpens, facadeVars, floorVars
<1>12. CASE AppDestroyed
  BY <1>12 DEF AppDestroyed, RuntimeGone, StopTicking, floorVars
<1>13. CASE AppKilled
  BY <1>13 DEF AppKilled, RuntimeGone, floorVars
<1>14. CASE Reboot
  BY <1>14 DEF Reboot, RuntimeGone, floorVars
<1>15. CASE ServiceKilled
  BY <1>15 DEF ServiceKilled, facadeVars, floorVars
<1>16. ASSUME NEW g \in asking, PermissionAnswered(g)
       PROVE  FloorFollows'
  BY <1>16 DEF PermissionAnswered, CompletedLate, StartTicking, StopTicking, floorVars
<1>17. CASE UNCHANGED triggersVars
  BY <1>17 DEF triggersVars
<1> QED
  BY <1>1, <1>2, <1>3, <1>4, <1>5, <1>6, <1>7, <1>8, <1>9, <1>10, <1>11, <1>12, <1>13,
     <1>14, <1>15, <1>16, <1>17 DEF TriggersNext

\* The chain of alarms stays whole, or is known to be lost.
LEMMA ChainStep == TriggersInv /\ [TriggersNext]_triggersVars => (ChainWhileUp /\ SomebodyTriggers)'
<1> SUFFICES ASSUME TriggersInv, [TriggersNext]_triggersVars
             PROVE  (ChainWhileUp /\ SomebodyTriggers)'
  OBVIOUS
<1> USE DEF TriggersInv, ChainWhileUp, SomebodyTriggers, FloorServes
<1>1. CASE Pair
  BY <1>1 DEF Pair, facadeVars, tickerVars, floorVars
<1>2. CASE Unpair
  BY <1>2 DEF Unpair, facadeVars, tickerVars, floorVars
<1>3. CASE RegisterStrategies
  BY <1>3 DEF RegisterStrategies, tickerVars, floorVars
<1>4. CASE UnregisterStrategies
  BY <1>4 DEF UnregisterStrategies, StopTicking, floorVars
<1>5. CASE FloorRegisters
  BY <1>5 DEF FloorRegisters, tickerVars
<1>6. CASE FloorUnregisters
  BY <1>6 DEF FloorUnregisters, tickerVars, GoneIsEmpty
<1>7. CASE AlarmFires
  BY <1>7 DEF AlarmFires, facadeVars, floorVars
<1>8. CASE BroadcastLost
  BY <1>8 DEF BroadcastLost, facadeVars, floorVars
<1>9. CASE ReceiverReads
  BY <1>9 DEF ReceiverReads, facadeVars, floorVars
<1>10. CASE ReceiverReArms
  BY <1>10 DEF ReceiverReArms, facadeVars, floorVars
<1>11. CASE AppOpens
  BY <1>11 DEF AppOpens, facadeVars, floorVars
<1>12. CASE AppDestroyed
  BY <1>12 DEF AppDestroyed, RuntimeGone, StopTicking, floorVars
<1>13. CASE AppKilled
  BY <1>13 DEF AppKilled, RuntimeGone, floorVars
<1>14. CASE Reboot
  BY <1>14 DEF Reboot, RuntimeGone, floorVars
<1>15. CASE ServiceKilled
  BY <1>15 DEF ServiceKilled, facadeVars, floorVars
<1>16. ASSUME NEW g \in asking, PermissionAnswered(g)
       PROVE  (ChainWhileUp /\ SomebodyTriggers)'
  BY <1>16 DEF PermissionAnswered, CompletedLate, StartTicking, StopTicking, floorVars
<1>17. CASE UNCHANGED triggersVars
  BY <1>17 DEF triggersVars
<1> QED
  BY <1>1, <1>2, <1>3, <1>4, <1>5, <1>6, <1>7, <1>8, <1>9, <1>10, <1>11, <1>12, <1>13,
     <1>14, <1>15, <1>16, <1>17 DEF TriggersNext

-----------------------------------------------------------------------------
(* The theorems.                                                            *)

\* The invariant holds initially: nothing was registered and nothing ticks.
LEMMA TriggersStart == TriggersInit => TriggersInv
<1> SUFFICES ASSUME TriggersInit
             PROVE  TriggersInv
  OBVIOUS
<1>1. TriggersTypeOK
  <2>1. 0 \in 0 .. 2 * MaxGeneration /\ {} \subseteq 1 .. 2 * MaxGeneration /\ 0 \in 0 .. MaxOutage
    BY TriggersAssumption
  <2>2. <<>> \in Seq({"register", "unregister"})
    OBVIOUS
  <2> QED
    BY <2>1, <2>2, Zenon DEF TriggersInit, TriggersTypeOK
<1>2. RoomToDisable /\ GoneIsEmpty /\ PromptsAreOfThePast
  BY DEF TriggersInit, RoomToDisable, GoneIsEmpty, PromptsAreOfThePast
<1>3. TickerFollows /\ FloorFollows
  BY DEF TriggersInit, TickerFollows, FloorFollows
<1>4. ChainWhileUp /\ SomebodyTriggers
  BY DEF TriggersInit, ChainWhileUp, SomebodyTriggers
<1> QED
  BY <1>1, <1>2, <1>3, <1>4 DEF TriggersInv

\* Every step keeps the invariant.
LEMMA TriggersStep == TriggersInv /\ [TriggersNext]_triggersVars => TriggersInv'
<1> SUFFICES ASSUME TriggersInv, [TriggersNext]_triggersVars
             PROVE  TriggersInv'
  OBVIOUS
<1>1. TriggersTypeOK' /\ RoomToDisable'
  BY TypeStep DEF TriggersInv
<1>2. GoneIsEmpty' /\ PromptsAreOfThePast' /\ TickerFollows' /\ FloorFollows'
  BY PromptsStep, TickerStep, FloorStep
<1>3. ChainWhileUp' /\ SomebodyTriggers'
  BY ChainStep
<1> QED
  BY <1>1, <1>2, <1>3 DEF TriggersInv

\* The inductive invariant of the triggers.
LEMMA TriggersInductive == TriggersSpec => []TriggersInv
BY TriggersStart, TriggersStep, PTL DEF TriggersSpec

\* The state of the triggers keeps its type: no registration goes past its bound, and the
\* queue of the floor holds only its two operations.
THEOREM TriggersTyped == TriggersSpec => []TriggersTypeOK
<1>1. TriggersInv => TriggersTypeOK
  BY DEF TriggersInv
<1> QED
  BY <1>1, TriggersInductive, PTL

\* However late a permission prompt of an earlier generation is answered, once nothing is
\* open the triggers are on exactly while the bridge is paired.
THEOREM TriggersMatch == TriggersSpec => []TriggersMatchPairing
<1>1. TriggersInv => TriggersMatchPairing
  BY DEF TriggersInv, TriggersTypeOK, TickerFollows, FloorFollows, TriggersMatchPairing
<1> QED
  BY <1>1, TriggersInductive, PTL

\* While the persisted flag is on, something will start the next attempt.
THEOREM TriggersServed == TriggersSpec => []SomebodyTriggers
<1>1. TriggersInv => SomebodyTriggers
  BY DEF TriggersInv
<1> QED
  BY <1>1, TriggersInductive, PTL
=============================================================================
