------------------------- MODULE DiagnosticsOutbox -------------------------
(* The durable outbox of diagnostic observations (autoreas-telemetry.db)   *)
(* and the two drainers that post it, the JS flush at the end of a cycle   *)
(* and the native courier, each a pass over one batch of the oldest rows.  *)
(* A body is its kind; a verdict is the class the ladder tells apart.  The *)
(* counters a pass returns are left out: nothing reads them back.          *)
EXTENDS Naturals, FiniteSets, FiniteSetsExt

CONSTANTS
  MaxObservation,  \* bound: observations ever recorded
  OutboxCap,       \* SYNC_DIAGNOSTICS_OUTBOX_MAX_ROWS
  FlushBatch,      \* SYNC_DIAGNOSTICS_FLUSH_BATCH_SIZE
  ParkedMaxAge     \* SYNC_DIAGNOSTICS_PARKED_ROW_MAX_AGE_MS

ASSUME DiagnosticsAssumption ==
  /\ MaxObservation \in Nat /\ OutboxCap \in Nat \ {0} /\ FlushBatch \in Nat \ {0}
  /\ ParkedMaxAge \in Nat

VARIABLES
  kindOf,      \* the kind every recorded observation declares
  stored,      \* the rows of sync_diagnostics_outbox
  ageOf,       \* how old a row is, counted no further than past the bound
  gate,        \* not_before lies ahead
  telemetry,   \* the user's switch
  pass,        \* what each drainer is doing
  judged,      \* the observations the bridge has, or refused for good
  unjudged,    \* those it answered with a 400 that declares no code
  shed         \* those the cap dropped

diagnosticsVars == <<kindOf, stored, ageOf, gate, telemetry, pass, judged, unjudged, shed>>

Observations == 1 .. MaxObservation
Drainers == {"flush", "courier"}
Kinds == {"episode_action", "screen_stall", "foreign"}

\* SYNC_DIAGNOSTICS_ACCEPTED_KINDS of each side; the body of a cycle, which names no kind,
\* goes wherever episode_action goes.  Neither side declares a kind undeliverable.
AcceptedKinds(d) ==
  IF d = "flush" THEN {"episode_action", "screen_stall"} ELSE {"episode_action"}

\* The ladder's classes: a 2xx; a 413 or a 400 with a code; a 400 without; an answer that
\* names a wait, a 503 among them; kind_not_served and every other status; no answer.
Verdicts == {"ok", "permanent", "codeless", "wait", "kept", "lost"}
NoPass == [batch |-> {}, verdict |-> "none"]

DiagnosticsTypeOK ==
  /\ kindOf \in [Observations -> Kinds \cup {"none"}]
  /\ stored \subseteq Observations /\ Cardinality(stored) <= OutboxCap
  /\ ageOf \in [Observations -> 0 .. ParkedMaxAge + 1]
  /\ gate \in BOOLEAN /\ telemetry \in BOOLEAN
  /\ pass \in [Drainers -> [batch : SUBSET Observations, verdict : Verdicts \cup {"none"}]]
  /\ \A d \in Drainers : Cardinality(pass[d].batch) <= FlushBatch
  /\ judged \subseteq Observations /\ unjudged \subseteq Observations
  /\ shed \subseteq Observations

\* The foreign rows are those of another build of the app, left by an update or a rollback.
DiagnosticsInit ==
  /\ kindOf = [o \in Observations |-> "none"]
  /\ stored = {} /\ ageOf = [o \in Observations |-> 0]
  /\ gate = FALSE /\ telemetry = TRUE
  /\ pass = [d \in Drainers |-> NoPass]
  /\ judged = {} /\ unjudged = {} /\ shed = {}

----------------------------------------------------------------------------
(* Recording.                                                              *)

\* The trigger behind every INSERT: the newest row goes when the table is over its cap.
Shed(rows) == IF Cardinality(rows) > OutboxCap THEN {Max(rows)} ELSE {}

\* emitChapterAction, recordScreenStall and the cycle's envelope: gated by the switch and by
\* the registry of the JS side (which accepts every kind this build records).
Record ==
  \E o \in Observations, k \in Kinds :
    /\ kindOf[o] = "none" /\ \A p \in 1 .. o - 1 : kindOf[p] # "none"
    /\ telemetry
    /\ kindOf' = [kindOf EXCEPT ![o] = k]
    /\ LET over == Shed(stored \cup {o})
       IN  stored' = (stored \cup {o}) \ over /\ shed' = shed \cup over
    /\ UNCHANGED <<ageOf, gate, telemetry, pass, judged, unjudged>>

SwitchTelemetry ==
  /\ telemetry' = ~telemetry
  /\ UNCHANGED <<kindOf, stored, ageOf, gate, pass, judged, unjudged, shed>>

----------------------------------------------------------------------------
(* A pass.                                                                 *)

\* readFlushCandidates: ORDER BY created_at, LIMIT the batch.  The pass goes through what is
\* left of it from the oldest on.
OldestStored == {o \in stored : Cardinality({p \in stored : p <= o}) <= FlushBatch}

BeginPass(d) ==
  /\ pass[d] = NoPass /\ telemetry /\ ~gate /\ stored # {}
  /\ pass' = [pass EXCEPT ![d].batch = OldestStored]
  /\ UNCHANGED <<kindOf, stored, ageOf, gate, telemetry, judged, unjudged, shed>>

Candidate(d) == Min(pass[d].batch)
Continued(d) == [batch |-> pass[d].batch \ {Candidate(d)}, verdict |-> "none"]
Outlived(o) == ageOf[o] > ParkedMaxAge

\* remove answers for a row that is already gone as for one it deletes; it may also fail.
RemovedRow(o) == {stored \ {o}, stored}

\* A body this drainer does not route: parked, or reaped once it outlived the bound; the
\* batch goes on either way.
SkipUnrouted(d) ==
  /\ pass[d].batch # {} /\ pass[d].verdict = "none"
  /\ kindOf[Candidate(d)] \notin AcceptedKinds(d)
  /\ stored' \in IF Outlived(Candidate(d)) THEN RemovedRow(Candidate(d)) ELSE {stored}
  /\ pass' = [pass EXCEPT ![d] = Continued(d)]
  /\ UNCHANGED <<kindOf, ageOf, gate, telemetry, judged, unjudged, shed>>

\* The bridge answers the post, or does not.
Post(d) ==
  /\ pass[d].batch # {} /\ pass[d].verdict = "none"
  /\ kindOf[Candidate(d)] \in AcceptedKinds(d)
  /\ \E v \in Verdicts :
       /\ pass' = [pass EXCEPT ![d].verdict = v]
       /\ judged' = judged \cup (IF v \in {"ok", "permanent"} THEN {Candidate(d)} ELSE {})
       /\ unjudged' = unjudged \cup (IF v = "codeless" THEN {Candidate(d)} ELSE {})
  /\ UNCHANGED <<kindOf, stored, ageOf, gate, telemetry, shed>>

\* A 2xx, a 413, and a 400 that declares a code remove the row, and the batch goes on.
RemoveAnswered(d) ==
  /\ pass[d].verdict \in {"ok", "permanent"}
  /\ stored' \in RemovedRow(Candidate(d))
  /\ pass' = [pass EXCEPT ![d] = Continued(d)]
  /\ UNCHANGED <<kindOf, ageOf, gate, telemetry, judged, unjudged, shed>>

\* Mutant: every kept row counts as parked.
ParkedWhenKept(v) == v # "ok"

\* Which kept rows the age bound may retire.
Parked(v) == v = "codeless"

\* Every other verdict keeps the row and ends the pass; one that names a wait closes the gate.
Stop(d) ==
  /\ pass[d].verdict \in {"codeless", "wait", "kept", "lost"}
  /\ LET o == Candidate(d)
         reap == Parked(pass[d].verdict) /\ Outlived(o)
     IN  /\ stored' \in IF reap THEN RemovedRow(o) ELSE {stored}
         /\ gate' = (gate \/ (~reap /\ pass[d].verdict = "wait"))
  /\ pass' = [pass EXCEPT ![d] = NoPass]
  /\ UNCHANGED <<kindOf, ageOf, telemetry, judged, unjudged, shed>>

\* The app or the `:sync` process dies, or the courier's budget of time ends between two rows.
EndPass(d) ==
  /\ pass[d].batch # {}
  /\ pass' = [pass EXCEPT ![d] = NoPass]
  /\ UNCHANGED <<kindOf, stored, ageOf, gate, telemetry, judged, unjudged, shed>>

----------------------------------------------------------------------------
(* Time.                                                                   *)

RowsAge ==
  /\ \E o \in stored : ageOf[o] <= ParkedMaxAge
  /\ ageOf' = [o \in Observations |->
       IF o \in stored THEN Min({ageOf[o] + 1, ParkedMaxAge + 1}) ELSE ageOf[o]]
  /\ UNCHANGED <<kindOf, stored, gate, telemetry, pass, judged, unjudged, shed>>

GateOpens ==
  /\ gate /\ gate' = FALSE
  /\ UNCHANGED <<kindOf, stored, ageOf, telemetry, pass, judged, unjudged, shed>>

DiagnosticsNext ==
  \/ Record \/ SwitchTelemetry \/ RowsAge \/ GateOpens
  \/ \E d \in Drainers : \/ BeginPass(d) \/ SkipUnrouted(d) \/ Post(d) \/ RemoveAnswered(d)
                         \/ Stop(d) \/ EndPass(d)

DiagnosticsSpec == DiagnosticsInit /\ [][DiagnosticsNext]_diagnosticsVars

----------------------------------------------------------------------------
(* Properties.                                                             *)

\* An observation, of which the outbox holds the only copy, leaves it only when the bridge
\* has it or refused it for good, by the cap before it was ever stored, or past the age
\* bound; and one of a kind both drainers route, which may be reaped on its verdict only,
\* not before the bridge answered it without judging it: an outage, however long, destroys
\* none of those.
OutageKeepsRows ==
  \A o \in Observations :
    (kindOf[o] # "none" /\ o \notin stored /\ o \notin judged \cup shed) =>
      /\ Outlived(o)
      /\ (\A d \in Drainers : kindOf[o] \in AcceptedKinds(d)) => o \in unjudged

\* isSyncDiagnosticsParkedDisposition: the clock retires parked rows only, and a row is parked
\* when this build does not name its kind or the bridge declared no code; "a row the bridge
\* never answered about is PENDING and no clock may destroy it".
OnlyParkedRowsExpire ==
  \A o \in Observations : (kindOf[o] # "none" /\ o \notin stored) =>
    \/ o \in judged \cup shed
    \/ /\ Outlived(o)
       /\ o \in unjudged \/ \A d \in Drainers : kindOf[o] \notin AcceptedKinds(d)

============================================================================
