---------------------------- MODULE ContentProofs ----------------------------
(* Theorems about what the app keeps beside the queue: the diagnostics       *)
(* outbox, the anime folders, the covers, the row of the sync status, and a  *)
(* chapter button with the row its card shows.                               *)
EXTENDS MCContent, RemoteMergeProofs, FiniteSetTheorems, SequenceTheorems, WellFoundedInduction, TLAPS

(***************************************************************************)
(* Least and largest naturals.                                             *)
(***************************************************************************)

\* A set of naturals that is not empty has a least member.
LEMMA LeastNatural ==
  ASSUME NEW T, T \subseteq Nat, T # {}
  PROVE  \E x \in T : \A y \in T : x <= y
<1>1. PICK x \in T : \A y \in T : ~(<<y, x>> \in OpToRel(<, Nat))
  BY NatLessThanWellFounded, WFMin
<1>2. ASSUME NEW y \in T PROVE x <= y
  <2>1. ~(y < x)
    BY <1>1 DEF OpToRel
  <2> QED BY <2>1
<1> QED BY <1>2

\* A bounded set of naturals that is not empty has a largest member, which is its Max.
LEMMA BoundedMax ==
  ASSUME NEW n \in Nat, NEW S, S \subseteq 0 .. n, S # {}
  PROVE  Max(S) \in S /\ \A x \in S : x <= Max(S)
<1> DEFINE T == {n - x : x \in S}
<1>1. T \subseteq Nat /\ T # {}
  <2>1. PICK x \in S : TRUE
    OBVIOUS
  <2>2. n - x \in T
    OBVIOUS
  <2>3. ASSUME NEW y \in S PROVE n - y \in Nat
    OBVIOUS
  <2> QED BY <2>2, <2>3
<1>2. PICK t \in T : \A u \in T : ~(<<u, t>> \in OpToRel(<, Nat))
  BY <1>1, NatLessThanWellFounded, WFMin
<1>3. \A u \in T : ~(u < t)
  BY <1>1, <1>2 DEF OpToRel
<1>4. PICK m \in S : t = n - m
  OBVIOUS
<1>5. \A x \in S : m >= x
  <2> SUFFICES ASSUME NEW x \in S PROVE m >= x
    OBVIOUS
  <2>1. n - x \in T /\ x \in 0 .. n /\ m \in 0 .. n
    OBVIOUS
  <2> QED BY <2>1, <1>3, <1>4
<1>6. Max(S) \in S /\ \A x \in S : Max(S) >= x
  BY <1>5 DEF Max
<1> QED BY <1>6

\* The least of a set of naturals that is not empty is its Min.
LEMMA LeastIsMin ==
  ASSUME NEW S, S \subseteq Nat, S # {}
  PROVE  Min(S) \in S /\ \A x \in S : Min(S) <= x
<1>1. PICK m \in S : \A x \in S : m <= x
  BY LeastNatural
<1>2. Min(S) \in S /\ \A x \in S : Min(S) <= x
  BY <1>1 DEF Min
<1> QED BY <1>2

(***************************************************************************)
(* The diagnostics outbox.                                                 *)
(***************************************************************************)

\* What the argument needs of the types.
DiagnosticsShape ==
  /\ kindOf \in [Observations -> Kinds \cup {"none"}]
  /\ ageOf \in [Observations -> 0 .. ParkedMaxAge + 1]
  /\ DOMAIN pass = Drainers
  /\ \A d \in Drainers : pass[d] = [batch |-> pass[d].batch, verdict |-> pass[d].verdict]

\* A verdict that is still to be acted on is one the bridge gave on the row at the head of
\* the batch, and the history has it.
VerdictsOfCandidates ==
  \A d \in Drainers :
    /\ pass[d].verdict \in {"ok", "permanent"} => Candidate(d) \in judged
    /\ pass[d].verdict = "codeless" => Candidate(d) \in unjudged

DiagnosticsInv == DiagnosticsShape /\ VerdictsOfCandidates /\ OutageKeepsRows

\* The smaller of two naturals is one of them.
LEMMA MinOfTwo ==
  ASSUME NEW a \in Nat, NEW b \in Nat
  PROVE  Min({a, b}) \in {a, b} /\ Min({a, b}) <= a /\ Min({a, b}) <= b
<1>1. CASE a <= b
  BY <1>1 DEF Min
<1>2. CASE b < a
  BY <1>2 DEF Min
<1> QED BY <1>1, <1>2

LEMMA DiagnosticsInitInv == DiagnosticsInit => DiagnosticsInv
  BY DiagnosticsAssumption
  DEF DiagnosticsInit, DiagnosticsInv, DiagnosticsShape, VerdictsOfCandidates,
      OutageKeepsRows, NoPass, Kinds

\* A step of one drainer that leaves it with no verdict, or with one the history has, keeps
\* every verdict of a candidate.
LEMMA PassEdited ==
  ASSUME NEW d \in Drainers, DiagnosticsShape, VerdictsOfCandidates,
         NEW r, pass' = [pass EXCEPT ![d] = r],
         r = [batch |-> r.batch, verdict |-> r.verdict],
         judged \subseteq judged', unjudged \subseteq unjudged',
         r.verdict \in {"ok", "permanent"} => Min(r.batch) \in judged',
         r.verdict = "codeless" => Min(r.batch) \in unjudged'
  PROVE  /\ DOMAIN pass' = Drainers
         /\ \A e \in Drainers : pass'[e] = [batch |-> pass'[e].batch, verdict |-> pass'[e].verdict]
         /\ VerdictsOfCandidates'
<1>1. /\ DOMAIN pass' = Drainers /\ pass'[d] = r
      /\ \A e \in Drainers \ {d} : pass'[e] = pass[e]
  BY DEF DiagnosticsShape
<1>2. ASSUME NEW e \in Drainers
      PROVE  pass'[e] = [batch |-> pass'[e].batch, verdict |-> pass'[e].verdict]
  <2>1. CASE e = d
    BY <2>1, <1>1
  <2>2. CASE e # d
    BY <2>2, <1>1 DEF DiagnosticsShape
  <2> QED BY <2>1, <2>2
<1>3. ASSUME NEW e \in Drainers
      PROVE  /\ pass'[e].verdict \in {"ok", "permanent"} => Min(pass'[e].batch) \in judged'
             /\ pass'[e].verdict = "codeless" => Min(pass'[e].batch) \in unjudged'
  <2>1. CASE e = d
    BY <2>1, <1>1
  <2>2. CASE e # d
    BY <2>2, <1>1 DEF VerdictsOfCandidates, Candidate
  <2> QED BY <2>1, <2>2
<1> QED BY <1>1, <1>2, <1>3 DEF VerdictsOfCandidates, Candidate

\* A step that gives one drainer a new batch and no verdict.
LEMMA PassBegins ==
  ASSUME NEW d \in Drainers, DiagnosticsShape, VerdictsOfCandidates,
         NEW b, pass' = [pass EXCEPT ![d] = [batch |-> b, verdict |-> "none"]],
         UNCHANGED <<kindOf, ageOf, judged, unjudged>>
  PROVE  DiagnosticsShape' /\ VerdictsOfCandidates'
<1> DEFINE r == [batch |-> b, verdict |-> "none"]
<1>1. pass' = [pass EXCEPT ![d] = r] /\ r.batch = b /\ r.verdict = "none"
  OBVIOUS
<1>2. r = [batch |-> r.batch, verdict |-> r.verdict]
  BY <1>1
<1> HIDE DEF r
<1> QED BY <1>1, <1>2, PassEdited DEF DiagnosticsShape

\* Nothing leaves the outbox in a step that keeps the rows and the history.
LEMMA RowsStay ==
  ASSUME OutageKeepsRows, kindOf' = kindOf, stored' = stored, ageOf' = ageOf,
         judged \subseteq judged', unjudged \subseteq unjudged', shed' = shed
  PROVE  OutageKeepsRows'
  BY DEF OutageKeepsRows, Outlived

LEMMA RecordInv == DiagnosticsInv /\ Record => DiagnosticsInv'
<1> SUFFICES ASSUME DiagnosticsInv, Record PROVE DiagnosticsInv'
  OBVIOUS
<1> USE DEF DiagnosticsInv
<1>1. PICK o \in Observations, k \in Kinds :
        /\ kindOf' = [kindOf EXCEPT ![o] = k]
        /\ stored' = (stored \cup {o}) \ Shed(stored \cup {o})
        /\ shed' = shed \cup Shed(stored \cup {o})
        /\ UNCHANGED <<ageOf, pass, judged, unjudged>>
  BY DEF Record
<1>2. DiagnosticsShape'
  BY <1>1 DEF DiagnosticsShape
<1>3. VerdictsOfCandidates'
  BY <1>1 DEF VerdictsOfCandidates, Candidate
<1>4. OutageKeepsRows'
  <2> SUFFICES ASSUME NEW p \in Observations, kindOf'[p] # "none", p \notin stored'
               PROVE  \/ p \in judged' \cup shed'
                      \/ /\ Outlived(p)'
                         /\ p \in unjudged' \/ \E d \in Drainers : kindOf'[p] \notin AcceptedKinds(d)
    BY DEF OutageKeepsRows
  <2>1. CASE p \in stored \cup {o}
    BY <2>1, <1>1
  <2>2. CASE p \notin stored \cup {o}
    <3>1. kindOf'[p] = kindOf[p]
      BY <2>2, <1>1 DEF DiagnosticsShape
    <3> QED BY <3>1, <2>2, <1>1 DEF OutageKeepsRows, Outlived
  <2> QED BY <2>1, <2>2
<1> QED BY <1>2, <1>3, <1>4

LEMMA RowsAgeInv == DiagnosticsInv /\ RowsAge => DiagnosticsInv'
<1> SUFFICES ASSUME DiagnosticsInv, RowsAge PROVE DiagnosticsInv'
  OBVIOUS
<1> USE DEF DiagnosticsInv
<1>1. ASSUME NEW o \in Observations
      PROVE  Min({ageOf[o] + 1, ParkedMaxAge + 1}) \in 0 .. ParkedMaxAge + 1
  BY MinOfTwo, DiagnosticsAssumption DEF DiagnosticsShape
<1>2. DiagnosticsShape'
  BY <1>1 DEF DiagnosticsShape, RowsAge
<1>3. VerdictsOfCandidates'
  BY DEF VerdictsOfCandidates, Candidate, RowsAge
<1>4. OutageKeepsRows'
  BY DEF OutageKeepsRows, Outlived, RowsAge
<1> QED BY <1>2, <1>3, <1>4

LEMMA BeginPassInv ==
  ASSUME NEW d \in Drainers, DiagnosticsInv, BeginPass(d) PROVE DiagnosticsInv'
<1> USE DEF DiagnosticsInv
<1>1. pass[d] = [batch |-> {}, verdict |-> "none"] /\ pass' = [pass EXCEPT ![d].batch = OldestStored]
  BY DEF BeginPass, NoPass
<1> DEFINE r == [pass[d] EXCEPT !.batch = OldestStored]
<1>2. pass' = [pass EXCEPT ![d] = [batch |-> OldestStored, verdict |-> "none"]]
  <2>1. r = [batch |-> OldestStored, verdict |-> "none"]
    BY <1>1
  <2>2. pass' = [pass EXCEPT ![d] = r]
    BY <1>1
  <2> QED BY <2>1, <2>2
<1>3. VerdictsOfCandidates' /\ DiagnosticsShape'
  BY <1>2, PassBegins DEF BeginPass
<1> QED BY <1>3, RowsStay DEF BeginPass

LEMMA PostInv ==
  ASSUME NEW d \in Drainers, DiagnosticsInv, Post(d) PROVE DiagnosticsInv'
<1> USE DEF DiagnosticsInv
<1>1. PICK v \in Verdicts :
        /\ pass' = [pass EXCEPT ![d].verdict = v]
        /\ judged' = judged \cup (IF v \in {"ok", "permanent"} THEN {Candidate(d)} ELSE {})
        /\ unjudged' = unjudged \cup (IF v = "codeless" THEN {Candidate(d)} ELSE {})
  BY DEF Post
<1> DEFINE r == [pass[d] EXCEPT !.verdict = v]
<1>2. pass' = [pass EXCEPT ![d] = r]
  BY <1>1
<1>3. r = [batch |-> pass[d].batch, verdict |-> v]
  <2>1. pass[d] = [batch |-> pass[d].batch, verdict |-> pass[d].verdict]
    BY DEF DiagnosticsShape
  <2> QED BY <2>1
<1>4. r.batch = pass[d].batch /\ r.verdict = v /\ r = [batch |-> r.batch, verdict |-> r.verdict]
  BY <1>3
<1> HIDE DEF r
<1>5. VerdictsOfCandidates' /\ DiagnosticsShape'
  BY <1>1, <1>2, <1>4, PassEdited, ZenonT(40) DEF Post, DiagnosticsShape, Candidate
<1> QED BY <1>1, <1>5, RowsStay DEF Post

\* A drainer that takes its candidate out of the outbox, and that is why it may.
LEMMA RowTaken ==
  ASSUME OutageKeepsRows, NEW c, stored' = stored \ {c},
         UNCHANGED <<kindOf, ageOf, judged, unjudged, shed>>,
         \/ c \in judged
         \/ /\ Outlived(c)
            /\ c \in unjudged \/ \E d \in Drainers : kindOf[c] \notin AcceptedKinds(d)
  PROVE  OutageKeepsRows'
  BY DEF OutageKeepsRows, Outlived

LEMMA SkipInv ==
  ASSUME NEW d \in Drainers, DiagnosticsInv, SkipUnrouted(d) PROVE DiagnosticsInv'
<1> USE DEF DiagnosticsInv
<1>1. VerdictsOfCandidates' /\ DiagnosticsShape'
  BY PassBegins DEF SkipUnrouted, Continued
<1>2. OutageKeepsRows'
  <2>1. CASE stored' = stored
    BY <2>1, RowsStay DEF SkipUnrouted
  <2>2. CASE stored' # stored
    <3>1. Outlived(Candidate(d)) /\ stored' = stored \ {Candidate(d)}
      BY <2>2 DEF SkipUnrouted, RemovedRow
    <3> QED BY <3>1, RowTaken DEF SkipUnrouted
  <2> QED BY <2>1, <2>2
<1> QED BY <1>1, <1>2

LEMMA RemoveInv ==
  ASSUME NEW d \in Drainers, DiagnosticsInv, RemoveAnswered(d) PROVE DiagnosticsInv'
<1> USE DEF DiagnosticsInv
<1>1. VerdictsOfCandidates' /\ DiagnosticsShape'
  BY PassBegins DEF RemoveAnswered, Continued
<1>2. Candidate(d) \in judged
  BY DEF RemoveAnswered, VerdictsOfCandidates
<1>3. OutageKeepsRows'
  <2>1. CASE stored' = stored
    BY <2>1, RowsStay DEF RemoveAnswered
  <2>2. CASE stored' # stored
    BY <2>2, <1>2, RowTaken DEF RemoveAnswered, RemovedRow
  <2> QED BY <2>1, <2>2
<1> QED BY <1>1, <1>3

LEMMA StopInv ==
  ASSUME NEW d \in Drainers, DiagnosticsInv, Stop(d) PROVE DiagnosticsInv'
<1> USE DEF DiagnosticsInv
<1>1. VerdictsOfCandidates' /\ DiagnosticsShape'
  BY PassBegins DEF Stop, NoPass
<1>2. OutageKeepsRows'
  <2>1. CASE stored' = stored
    BY <2>1, RowsStay DEF Stop
  <2>2. CASE stored' # stored
    <3>1. /\ Parked(pass[d].verdict) /\ Outlived(Candidate(d))
          /\ stored' = stored \ {Candidate(d)}
      BY <2>2 DEF Stop, RemovedRow
    <3>2. Candidate(d) \in unjudged
      BY <3>1 DEF Parked, VerdictsOfCandidates
    <3> QED BY <3>1, <3>2, RowTaken DEF Stop
  <2> QED BY <2>1, <2>2
<1> QED BY <1>1, <1>2

LEMMA EndPassInv ==
  ASSUME NEW d \in Drainers, DiagnosticsInv, EndPass(d) PROVE DiagnosticsInv'
<1> USE DEF DiagnosticsInv
<1>1. VerdictsOfCandidates' /\ DiagnosticsShape'
  BY PassBegins DEF EndPass, NoPass
<1> QED BY <1>1, RowsStay DEF EndPass

\* A step that leaves the rows, the passes and the history alone.
LEMMA OtherDiagnostics ==
  ASSUME DiagnosticsInv, UNCHANGED <<kindOf, stored, ageOf, pass, judged, unjudged, shed>>
  PROVE  DiagnosticsInv'
  BY DEF DiagnosticsInv, DiagnosticsShape, VerdictsOfCandidates, OutageKeepsRows,
         Candidate, Outlived

LEMMA DiagnosticsStep == DiagnosticsInv /\ [DiagnosticsNext]_diagnosticsVars => DiagnosticsInv'
<1> SUFFICES ASSUME DiagnosticsInv, [DiagnosticsNext]_diagnosticsVars PROVE DiagnosticsInv'
  OBVIOUS
<1>1. CASE Record
  BY <1>1, RecordInv
<1>2. CASE SwitchTelemetry
  BY <1>2, OtherDiagnostics DEF SwitchTelemetry
<1>3. CASE RowsAge
  BY <1>3, RowsAgeInv
<1>4. CASE GateOpens
  BY <1>4, OtherDiagnostics DEF GateOpens
<1>5. ASSUME NEW d \in Drainers,
             \/ BeginPass(d) \/ SkipUnrouted(d) \/ Post(d) \/ RemoveAnswered(d)
             \/ Stop(d) \/ EndPass(d)
      PROVE  DiagnosticsInv'
  BY <1>5, BeginPassInv, SkipInv, PostInv, RemoveInv, StopInv, EndPassInv
<1>6. CASE UNCHANGED diagnosticsVars
  BY <1>6, OtherDiagnostics DEF diagnosticsVars
<1> QED BY <1>1, <1>2, <1>3, <1>4, <1>5, <1>6 DEF DiagnosticsNext

\* Whatever the two drainers do to the same rows, in whatever order the passes, the verdicts
\* and the deaths come, and whatever the caps and the age bound: a row leaves the outbox
\* only with a verdict of the bridge, by the cap, or past the bound, and a row of a kind both
\* drainers route then only once the bridge answered it without judging it.
THEOREM DiagnosticsKept == DiagnosticsSpec => []OutageKeepsRows
<1>1. DiagnosticsInv => OutageKeepsRows
  BY DEF DiagnosticsInv
<1> QED BY <1>1, DiagnosticsInitInv, DiagnosticsStep, PTL DEF DiagnosticsSpec

\* The rows of the outbox and of a batch are finitely many.
LEMMA RowsAreFinite ==
  ASSUME NEW S, S \subseteq Observations
  PROVE  IsFiniteSet(S) /\ Cardinality(S) \in Nat
<1>1. IsFiniteSet(Observations)
  BY DiagnosticsAssumption, FS_Interval DEF Observations
<1>2. IsFiniteSet(S)
  BY <1>1, FS_Subset
<1> QED BY <1>2, FS_CardinalityType

\* The trigger keeps the table within its cap.
LEMMA ShedKeepsCap ==
  ASSUME stored \subseteq Observations, Cardinality(stored) <= OutboxCap, NEW o \in Observations
  PROVE  /\ Shed(stored \cup {o}) \subseteq Observations
         /\ Cardinality((stored \cup {o}) \ Shed(stored \cup {o})) <= OutboxCap
<1> DEFINE held == stored \cup {o}
<1>1. held \subseteq Observations /\ held # {}
  OBVIOUS
<1>2. IsFiniteSet(stored) /\ Cardinality(stored) \in Nat /\ IsFiniteSet(held) /\ Cardinality(held) \in Nat
  BY <1>1, RowsAreFinite
<1>3. Cardinality(held) <= Cardinality(stored) + 1
  BY <1>2, FS_AddElement
<1>4. Max(held) \in held
  <2>1. held \subseteq 0 .. MaxObservation
    BY <1>1 DEF Observations
  <2> HIDE DEF held
  <2> QED BY <1>1, <2>1, BoundedMax, DiagnosticsAssumption
<1> HIDE DEF held
<1>5. CASE Cardinality(held) > OutboxCap
  <2>1. Shed(held) = {Max(held)}
    BY <1>5 DEF Shed
  <2>2. Cardinality(held \ {Max(held)}) = Cardinality(held) - 1
    BY <1>2, <1>4, FS_RemoveElement
  <2>3. Cardinality(held \ {Max(held)}) <= OutboxCap
    BY <1>2, <1>3, <2>2, DiagnosticsAssumption
  <2> QED BY <1>1, <1>4, <2>1, <2>3 DEF held
<1>6. CASE ~(Cardinality(held) > OutboxCap)
  <2>1. Shed(held) = {} /\ Cardinality(held) <= OutboxCap
    BY <1>2, <1>6, DiagnosticsAssumption DEF Shed
  <2>2. held \ Shed(held) = held
    BY <2>1
  <2> QED BY <2>1, <2>2 DEF held
<1> QED BY <1>5, <1>6

\* A batch has no more held than the limit of its query.
LEMMA BatchIsLimited ==
  ASSUME stored \subseteq Observations
  PROVE  OldestStored \subseteq Observations /\ Cardinality(OldestStored) <= FlushBatch
<1>1. OldestStored \subseteq stored
  BY DEF OldestStored
<1>2. CASE OldestStored = {}
  BY <1>2, FS_EmptySet, DiagnosticsAssumption
<1>3. CASE OldestStored # {}
  <2> DEFINE m == Max(OldestStored)
             upTo == {p \in stored : p <= m}
  <2>1. m \in OldestStored /\ \A x \in OldestStored : x <= m
    <3>1. OldestStored \subseteq 0 .. MaxObservation
      BY <1>1 DEF Observations
    <3> QED BY <1>3, <3>1, BoundedMax, DiagnosticsAssumption
  <2>2. Cardinality(upTo) <= FlushBatch
    BY <2>1 DEF OldestStored
  <2>3. OldestStored \subseteq upTo /\ upTo \subseteq Observations
    BY <1>1, <2>1
  <2> HIDE DEF m, upTo
  <2>4. IsFiniteSet(upTo) /\ Cardinality(upTo) \in Nat
    BY <2>3, RowsAreFinite
  <2>5. Cardinality(OldestStored) <= Cardinality(upTo) /\ Cardinality(OldestStored) \in Nat
    BY <1>1, <2>3, <2>4, FS_Subset, RowsAreFinite
  <2> QED BY <1>1, <2>2, <2>4, <2>5, DiagnosticsAssumption
<1> QED BY <1>1, <1>2, <1>3

\* A row that is taken out leaves no more of them than there were.
LEMMA OneLess ==
  ASSUME NEW S, S \subseteq Observations, NEW x, NEW n \in Nat, Cardinality(S) <= n
  PROVE  S \ {x} \subseteq Observations /\ Cardinality(S \ {x}) <= n
<1>1. IsFiniteSet(S) /\ Cardinality(S) \in Nat
  BY RowsAreFinite
<1>2. Cardinality(S \ {x}) \in {Cardinality(S), Cardinality(S) - 1}
  BY <1>1, FS_RemoveElement
<1> QED BY <1>1, <1>2

\* Each part of the types that a pass can touch.
PassRecords == [batch : SUBSET Observations, verdict : Verdicts \cup {"none"}]

\* The oldest row of a batch is one of it.
LEMMA CandidateInBatch ==
  ASSUME NEW d \in Drainers, DiagnosticsTypeOK, pass[d].batch # {}
  PROVE  Candidate(d) \in Observations
<1>1. pass[d].batch \subseteq Observations /\ Observations \subseteq Nat
  BY DEF DiagnosticsTypeOK, Observations
<1>2. Candidate(d) \in pass[d].batch
  BY <1>1, LeastIsMin DEF Candidate
<1> QED BY <1>1, <1>2

\* A drainer whose pass becomes another of the right type.
LEMMA PassTyped ==
  ASSUME DiagnosticsTypeOK, NEW d \in Drainers, NEW r \in PassRecords, Cardinality(r.batch) <= FlushBatch,
         pass' = [pass EXCEPT ![d] = r]
  PROVE  /\ pass' \in [Drainers -> PassRecords]
         /\ \A e \in Drainers : Cardinality(pass'[e].batch) <= FlushBatch
<1>1. pass \in [Drainers -> PassRecords] /\ \A e \in Drainers : Cardinality(pass[e].batch) <= FlushBatch
  BY DEF DiagnosticsTypeOK, PassRecords
<1> HIDE DEF PassRecords
<1>2. \A e \in Drainers : pass'[e] = IF e = d THEN r ELSE pass[e]
  BY <1>1
<1> QED BY <1>1, <1>2

\* What a pass leaves of its batch.
LEMMA ContinuedTyped ==
  ASSUME DiagnosticsTypeOK, NEW d \in Drainers
  PROVE  /\ Continued(d) \in PassRecords /\ Cardinality(Continued(d).batch) <= FlushBatch
         /\ NoPass \in PassRecords /\ Cardinality(NoPass.batch) <= FlushBatch
<1>1. pass[d].batch \subseteq Observations /\ Cardinality(pass[d].batch) <= FlushBatch
  BY DEF DiagnosticsTypeOK
<1>2. /\ pass[d].batch \ {Candidate(d)} \subseteq Observations
      /\ Cardinality(pass[d].batch \ {Candidate(d)}) <= FlushBatch
  BY <1>1, OneLess, DiagnosticsAssumption
<1> QED BY <1>2, FS_EmptySet, DiagnosticsAssumption DEF Continued, NoPass, PassRecords

\* A row that may be removed leaves the table within its cap.
LEMMA RemovedTyped ==
  ASSUME DiagnosticsTypeOK, NEW o, stored' \in RemovedRow(o) \cup {stored}
  PROVE  stored' \subseteq Observations /\ Cardinality(stored') <= OutboxCap
<1>1. stored \subseteq Observations /\ Cardinality(stored) <= OutboxCap
  BY DEF DiagnosticsTypeOK
<1>2. stored \ {o} \subseteq Observations /\ Cardinality(stored \ {o}) <= OutboxCap
  BY <1>1, OneLess, DiagnosticsAssumption
<1> QED BY <1>1, <1>2 DEF RemovedRow

\* The steps of a pass keep the types.
LEMMA PassStepsTyped ==
  ASSUME DiagnosticsTypeOK, NEW d \in Drainers,
         \/ BeginPass(d) \/ SkipUnrouted(d) \/ Post(d) \/ RemoveAnswered(d)
         \/ Stop(d) \/ EndPass(d)
  PROVE  DiagnosticsTypeOK'
<1>0. /\ pass[d] \in PassRecords /\ Cardinality(pass[d].batch) <= FlushBatch
      /\ pass[d] = [batch |-> pass[d].batch, verdict |-> pass[d].verdict]
  BY DEF DiagnosticsTypeOK, PassRecords
<1>1. ASSUME NEW r \in PassRecords, Cardinality(r.batch) <= FlushBatch, pass' = [pass EXCEPT ![d] = r],
             stored' \in RemovedRow(Candidate(d)) \cup {stored},
             gate' \in BOOLEAN, judged' \subseteq Observations, unjudged' \subseteq Observations,
             UNCHANGED <<kindOf, ageOf, telemetry, shed>>
      PROVE  DiagnosticsTypeOK'
  <2>1. /\ pass' \in [Drainers -> PassRecords]
        /\ \A e \in Drainers : Cardinality(pass'[e].batch) <= FlushBatch
    BY <1>1, PassTyped
  <2>2. stored' \subseteq Observations /\ Cardinality(stored') <= OutboxCap
    BY <1>1, RemovedTyped
  <2> QED BY <1>1, <2>1, <2>2 DEF DiagnosticsTypeOK, PassRecords
<1>2. CASE BeginPass(d)
  <2> DEFINE r == [pass[d] EXCEPT !.batch = OldestStored]
  <2>1. r = [batch |-> OldestStored, verdict |-> pass[d].verdict]
    BY <1>0
  <2>2. OldestStored \subseteq Observations /\ Cardinality(OldestStored) <= FlushBatch
    BY BatchIsLimited DEF DiagnosticsTypeOK
  <2>3. r \in PassRecords /\ Cardinality(r.batch) <= FlushBatch
    BY <1>0, <2>1, <2>2 DEF PassRecords
  <2>4. pass' = [pass EXCEPT ![d] = r]
    BY <1>2 DEF BeginPass
  <2> HIDE DEF r
  <2> QED BY <1>1, <1>2, <2>3, <2>4 DEF BeginPass, DiagnosticsTypeOK
<1>3. CASE SkipUnrouted(d)
  BY <1>1, <1>3, ContinuedTyped DEF SkipUnrouted, DiagnosticsTypeOK
<1>4. CASE Post(d)
  <2>1. PICK v \in Verdicts :
          /\ pass' = [pass EXCEPT ![d].verdict = v]
          /\ judged' = judged \cup (IF v \in {"ok", "permanent"} THEN {Candidate(d)} ELSE {})
          /\ unjudged' = unjudged \cup (IF v = "codeless" THEN {Candidate(d)} ELSE {})
    BY <1>4 DEF Post
  <2>2. Candidate(d) \in Observations
    BY <1>4, CandidateInBatch DEF Post
  <2> DEFINE r == [pass[d] EXCEPT !.verdict = v]
  <2>3. r = [batch |-> pass[d].batch, verdict |-> v]
    BY <1>0
  <2>4. r \in PassRecords /\ Cardinality(r.batch) <= FlushBatch
    BY <1>0, <2>3 DEF PassRecords
  <2>5. pass' = [pass EXCEPT ![d] = r]
    BY <2>1
  <2>6. judged' \subseteq Observations /\ unjudged' \subseteq Observations
    BY <2>1, <2>2 DEF DiagnosticsTypeOK
  <2> HIDE DEF r
  <2> QED BY <1>1, <1>4, <2>4, <2>5, <2>6 DEF Post, DiagnosticsTypeOK
<1>5. CASE RemoveAnswered(d)
  BY <1>1, <1>5, ContinuedTyped DEF RemoveAnswered, DiagnosticsTypeOK
<1>6. CASE Stop(d)
  BY <1>1, <1>6, ContinuedTyped DEF Stop, DiagnosticsTypeOK
<1>7. CASE EndPass(d)
  BY <1>1, <1>7, ContinuedTyped DEF EndPass, DiagnosticsTypeOK
<1> QED BY <1>2, <1>3, <1>4, <1>5, <1>6, <1>7

\* Every step keeps the types of the outbox.
LEMMA DiagnosticsTypeStep == DiagnosticsTypeOK /\ [DiagnosticsNext]_diagnosticsVars => DiagnosticsTypeOK'
<1> SUFFICES ASSUME DiagnosticsTypeOK, [DiagnosticsNext]_diagnosticsVars PROVE DiagnosticsTypeOK'
  OBVIOUS
<1>1. CASE Record
  <2>1. PICK o \in Observations, k \in Kinds :
          /\ kindOf' = [kindOf EXCEPT ![o] = k]
          /\ stored' = (stored \cup {o}) \ Shed(stored \cup {o})
          /\ shed' = shed \cup Shed(stored \cup {o})
    BY <1>1 DEF Record
  <2>2. stored' \subseteq Observations /\ shed' \subseteq Observations /\ Cardinality(stored') <= OutboxCap
    BY <2>1, ShedKeepsCap DEF DiagnosticsTypeOK
  <2>3. kindOf' \in [Observations -> Kinds \cup {"none"}]
    BY <2>1 DEF DiagnosticsTypeOK
  <2> QED BY <1>1, <2>2, <2>3 DEF Record, DiagnosticsTypeOK
<1>2. CASE RowsAge
  <2>1. ASSUME NEW o \in Observations
        PROVE  Min({ageOf[o] + 1, ParkedMaxAge + 1}) \in 0 .. ParkedMaxAge + 1
    BY MinOfTwo, DiagnosticsAssumption DEF DiagnosticsTypeOK
  <2>2. ageOf' \in [Observations -> 0 .. ParkedMaxAge + 1]
    BY <1>2, <2>1 DEF RowsAge, DiagnosticsTypeOK
  <2> QED BY <1>2, <2>2 DEF RowsAge, DiagnosticsTypeOK
<1>3. CASE SwitchTelemetry \/ GateOpens \/ UNCHANGED diagnosticsVars
  BY <1>3 DEF SwitchTelemetry, GateOpens, diagnosticsVars, DiagnosticsTypeOK
<1>4. ASSUME NEW d \in Drainers,
             \/ BeginPass(d) \/ SkipUnrouted(d) \/ Post(d) \/ RemoveAnswered(d)
             \/ Stop(d) \/ EndPass(d)
      PROVE  DiagnosticsTypeOK'
  BY <1>4, PassStepsTyped
<1> QED BY <1>1, <1>2, <1>3, <1>4 DEF DiagnosticsNext

\* The outbox's state is well typed: the table never exceeds its cap, nor a batch its limit.
THEOREM DiagnosticsTyped == DiagnosticsSpec => []DiagnosticsTypeOK
<1>1. Cardinality({}) <= OutboxCap /\ Cardinality({}) <= FlushBatch
  BY FS_EmptySet, DiagnosticsAssumption
<1>2. ASSUME DiagnosticsInit PROVE DiagnosticsTypeOK
  <2>1. NoPass.batch = {} /\ NoPass \in [batch : SUBSET Observations, verdict : Verdicts \cup {"none"}]
    BY DEF NoPass
  <2>2. \A d \in Drainers : pass[d] = NoPass
    BY <1>2 DEF DiagnosticsInit
  <2>3. /\ pass \in [Drainers -> [batch : SUBSET Observations, verdict : Verdicts \cup {"none"}]]
        /\ \A d \in Drainers : Cardinality(pass[d].batch) <= FlushBatch
    BY <1>1, <1>2, <2>1, <2>2 DEF DiagnosticsInit
  <2>4. kindOf \in [Observations -> Kinds \cup {"none"}] /\ ageOf \in [Observations -> 0 .. ParkedMaxAge + 1]
    BY <1>2, DiagnosticsAssumption DEF DiagnosticsInit
  <2> QED BY <1>1, <1>2, <2>3, <2>4 DEF DiagnosticsInit, DiagnosticsTypeOK
<1> QED BY <1>2, DiagnosticsTypeStep, PTL DEF DiagnosticsSpec

(***************************************************************************)
(* The folders.  First, about paths and what they share.                   *)
(***************************************************************************)

\* A path is a sequence of names that is not empty.
LEMMA PathIsSequence ==
  ASSUME NEW p \in Paths
  PROVE  p \in Seq(FolderNames) /\ Len(p) \in 1 .. WalkDepth + 1 /\ p # <<>>
<1>1. PICK n \in 1 .. WalkDepth + 1 : p \in [1 .. n -> FolderNames]
  BY DEF Paths
<1>2. n \in Nat /\ p \in Seq(FolderNames) /\ Len(p) = n
  BY <1>1, FoldersAssumption
<1> QED BY <1>1, <1>2, EmptySeq

\* The last n names of a path, one by one.
LEMMA EndingElements ==
  ASSUME NEW S, NEW p \in Seq(S), NEW n \in 0 .. Len(p)
  PROVE  /\ Ending(p, n) \in Seq(S) /\ Len(Ending(p, n)) = n
         /\ \A i \in 1 .. n : Ending(p, n)[i] = p[Len(p) - n + i]
<1>1. Len(p) \in Nat
  OBVIOUS
<1>2. \A i \in (Len(p) - n + 1) .. Len(p) : p[i] \in S
  BY <1>1, ElementOfSeq
<1>3. /\ Ending(p, n) \in Seq(S)
      /\ Len(Ending(p, n)) = IF Len(p) - n + 1 <= Len(p) THEN Len(p) - (Len(p) - n + 1) + 1 ELSE 0
      /\ \A i \in 1 .. Len(p) - (Len(p) - n + 1) + 1 :
           Ending(p, n)[i] = p[(Len(p) - n + 1) + i - 1]
  BY <1>1, <1>2, SubSeqProperties DEF Ending
<1> QED BY <1>1, <1>3

\* The length two paths share.
LEMMA SharedLength ==
  ASSUME NEW S, NEW p \in Seq(S), NEW q \in Seq(S)
  PROVE  /\ Shared(p, q) = IF Len(p) <= Len(q) THEN Len(p) ELSE Len(q)
         /\ Shared(p, q) \in 0 .. Len(p) /\ Shared(p, q) \in 0 .. Len(q)
<1>1. Len(p) \in Nat /\ Len(q) \in Nat
  OBVIOUS
<1> QED BY <1>1, MinOfTwo DEF Shared

\* Two paths are related when they agree from the back, as far as the shorter goes.
LEMMA RelatedElements ==
  ASSUME NEW S, NEW p \in Seq(S), NEW q \in Seq(S)
  PROVE  Related(p, q) <=>
           \A i \in 1 .. Shared(p, q) :
             p[Len(p) - Shared(p, q) + i] = q[Len(q) - Shared(p, q) + i]
<1> DEFINE n == Shared(p, q)
<1>1. n \in 0 .. Len(p) /\ n \in 0 .. Len(q)
  BY SharedLength
<1> HIDE DEF n
<1>2. /\ Ending(p, n) \in Seq(S) /\ Len(Ending(p, n)) = n
      /\ \A i \in 1 .. n : Ending(p, n)[i] = p[Len(p) - n + i]
      /\ Ending(q, n) \in Seq(S) /\ Len(Ending(q, n)) = n
      /\ \A i \in 1 .. n : Ending(q, n)[i] = q[Len(q) - n + i]
  BY <1>1, EndingElements
<1>3. Ending(p, n) = Ending(q, n) <=> \A i \in 1 .. n : Ending(p, n)[i] = Ending(q, n)[i]
  BY <1>2, SeqEqual
<1> QED BY <1>2, <1>3 DEF Related, n

\* Paths that are related stay so with the same name below both.
LEMMA RelatedBelow ==
  ASSUME NEW S, NEW p \in Seq(S), NEW q \in Seq(S), NEW x \in S, Related(p, q)
  PROVE  Related(Append(p, x), Append(q, x))
<1> DEFINE n == Shared(p, q)
           pp == Append(p, x)
           qq == Append(q, x)
<1>1. /\ pp \in Seq(S) /\ Len(pp) = Len(p) + 1 /\ pp[Len(p) + 1] = x
      /\ \A i \in 1 .. Len(p) : pp[i] = p[i]
      /\ qq \in Seq(S) /\ Len(qq) = Len(q) + 1 /\ qq[Len(q) + 1] = x
      /\ \A i \in 1 .. Len(q) : qq[i] = q[i]
  BY AppendProperties
<1>2. Len(p) \in Nat /\ Len(q) \in Nat
  OBVIOUS
<1>3. n \in 0 .. Len(p) /\ n \in 0 .. Len(q) /\ n = IF Len(p) <= Len(q) THEN Len(p) ELSE Len(q)
  BY SharedLength
<1>4. \A i \in 1 .. n : p[Len(p) - n + i] = q[Len(q) - n + i]
  BY RelatedElements
<1> HIDE DEF n, pp, qq
<1>5. Shared(pp, qq) = n + 1
  <2>1. Shared(pp, qq) = IF Len(pp) <= Len(qq) THEN Len(pp) ELSE Len(qq)
    BY <1>1, SharedLength
  <2> QED BY <2>1, <1>1, <1>2, <1>3
<1>6. ASSUME NEW i \in 1 .. n + 1
      PROVE  pp[Len(pp) - (n + 1) + i] = qq[Len(qq) - (n + 1) + i]
  <2>1. /\ Len(pp) - (n + 1) + i = Len(p) - n + i
        /\ Len(qq) - (n + 1) + i = Len(q) - n + i
    BY <1>1, <1>2, <1>3
  <2>2. CASE i = n + 1
    <3>1. n \in Nat
      BY <1>2, <1>3
    <3>2. Len(p) - n + (n + 1) = Len(p) + 1 /\ Len(q) - n + (n + 1) = Len(q) + 1
      BY <3>1, <1>2
    <3> QED BY <3>2, <2>1, <2>2, <1>1
  <2>3. CASE i \in 1 .. n
    <3>1. Len(p) - n + i \in 1 .. Len(p) /\ Len(q) - n + i \in 1 .. Len(q)
      BY <2>3, <1>2, <1>3
    <3>2. pp[Len(p) - n + i] = p[Len(p) - n + i] /\ qq[Len(q) - n + i] = q[Len(q) - n + i]
      BY <3>1, <1>1
    <3> QED BY <3>2, <2>1, <2>3, <1>4
  <2> QED BY <2>2, <2>3, <1>3
<1>7. Related(pp, qq)
  BY <1>1, <1>5, <1>6, RelatedElements
<1> QED BY <1>7 DEF pp, qq

\* A path that is related to some folder has a best match.
LEMMA MatchExists ==
  ASSUME NEW folders, folders \subseteq Paths, NEW q \in Seq(FolderNames), q # <<>>,
         NEW f \in folders, Related(f, q)
  PROVE  MatchByPath(folders, q) # {}
<1> DEFINE related == {g \in folders : q # <<>> /\ Related(g, q)}
           lengths == {Shared(g, q) : g \in related}
<1>1. f \in related
  OBVIOUS
<1>2. \A g \in related : Shared(g, q) \in 0 .. Len(q)
  BY PathIsSequence, SharedLength
<1>3. lengths \subseteq 0 .. Len(q) /\ lengths # {} /\ Len(q) \in Nat
  BY <1>1, <1>2
<1>4. Max(lengths) \in lengths /\ \A x \in lengths : x <= Max(lengths)
  BY <1>3, BoundedMax
<1>5. PICK best \in related : Shared(best, q) = Max(lengths)
  BY <1>4
<1>6. \A g \in related : Shared(g, q) <= Shared(best, q)
  BY <1>4, <1>5
<1> QED BY <1>5, <1>6 DEF MatchByPath

\* A prefix of a path, and the prefix one name longer.
LEMMA PrefixGrows ==
  ASSUME NEW path \in Seq(FolderNames), NEW k \in Nat, k + 1 \in 1 .. Len(path)
  PROVE  /\ SubSeq(path, 1, k) \in Seq(FolderNames)
         /\ path[k + 1] \in FolderNames
         /\ SubSeq(path, 1, k + 1) = Append(SubSeq(path, 1, k), path[k + 1])
         /\ SubSeq(path, 1, k + 1) # <<>>
<1>1. Len(path) \in Nat /\ \A i \in 1 .. Len(path) : path[i] \in FolderNames
  BY ElementOfSeq
<1>2. /\ SubSeq(path, 1, k) \in Seq(FolderNames) /\ Len(SubSeq(path, 1, k)) = k
      /\ \A i \in 1 .. k : SubSeq(path, 1, k)[i] = path[i]
  BY <1>1, SubSeqProperties
<1>3. /\ SubSeq(path, 1, k + 1) \in Seq(FolderNames) /\ Len(SubSeq(path, 1, k + 1)) = k + 1
      /\ \A i \in 1 .. k + 1 : SubSeq(path, 1, k + 1)[i] = path[i]
  BY <1>1, SubSeqProperties
<1> DEFINE longer == Append(SubSeq(path, 1, k), path[k + 1])
<1>4. /\ longer \in Seq(FolderNames) /\ Len(longer) = k + 1 /\ longer[k + 1] = path[k + 1]
      /\ \A i \in 1 .. k : longer[i] = SubSeq(path, 1, k)[i]
  BY <1>1, <1>2, AppendProperties
<1>5. \A i \in 1 .. k + 1 : longer[i] = SubSeq(path, 1, k + 1)[i]
  BY <1>2, <1>3, <1>4
<1>6. longer = SubSeq(path, 1, k + 1)
  BY <1>3, <1>4, <1>5, SeqEqual
<1> QED BY <1>1, <1>2, <1>3, <1>6, EmptySeq

\* What is probed for is no folder of the index, and lies where a walk would find it.
LEMMA ExpectedIsNew ==
  ASSUME NEW folders, folders \subseteq Paths, NEW path \in Paths, NEW e \in Expected(folders, path)
  PROVE  e \notin folders /\ Len(e) <= WalkDepth
<1> DEFINE known == {d \in 1 .. Len(path) - 1 : MatchByPath(folders, SubSeq(path, 1, d)) # {}}
           parents == MatchByPath(folders, SubSeq(path, 1, Max(known)))
<1>1. /\ path \in Seq(FolderNames) /\ Len(path) \in Nat /\ 1 <= Len(path) /\ path # <<>>
      /\ WalkDepth \in Nat /\ 1 <= WalkDepth
      /\ \A i \in 1 .. Len(path) : path[i] \in FolderNames
  BY PathIsSequence, FoldersAssumption, ElementOfSeq
<1>2. Named(folders, path[Len(path)]) = {}
  BY <1>1 DEF Expected
<1>3. CASE known = {}
  <2>1. e = <<path[1]>>
    BY <1>1, <1>2, <1>3 DEF Expected
  <2>2. e \in Seq(FolderNames) /\ Len(e) = 1 /\ e[1] = path[1]
    BY <2>1, <1>1
  <2>3. ASSUME e \in folders PROVE FALSE
    <3>1. CASE Len(path) = 1
      BY <3>1, <2>2, <2>3, <1>2 DEF Named
    <3>2. CASE Len(path) # 1
      <4>1. /\ SubSeq(path, 1, 1) \in Seq(FolderNames) /\ Len(SubSeq(path, 1, 1)) = 1
            /\ SubSeq(path, 1, 1)[1] = path[1]
        BY <1>1, SubSeqProperties
      <4>2. SubSeq(path, 1, 1) = e
        BY <4>1, <2>2, SeqEqual
      <4>3. Related(e, e) /\ e # <<>>
        BY <2>2, EmptySeq DEF Related
      <4>4. MatchByPath(folders, e) # {}
        BY <2>2, <2>3, <4>3, MatchExists
      <4>5. 1 \in known
        <5>1. MatchByPath(folders, SubSeq(path, 1, 1)) # {}
          BY <4>2, <4>4, Zenon
        <5>2. 1 \in 1 .. Len(path) - 1
          <6>1. ASSUME NEW n \in Nat, 1 <= n, n # 1 PROVE 1 \in 1 .. n - 1
            BY <6>1
          <6>2. Len(path) \in Nat /\ 1 <= Len(path) /\ Len(path) # 1
            BY <1>1, <3>2
          <6> HIDE DEF known, parents
          <6> QED BY <6>1, <6>2
        <5> QED BY <5>1, <5>2
      <4> QED BY <4>5, <1>3
    <3> QED BY <3>1, <3>2
  <2> QED BY <2>2, <2>3, <1>1
<1>4. CASE known # {}
  <2>1. Max(known) \in known /\ \A d \in known : d <= Max(known)
    <3>1. known \subseteq 0 .. Len(path)
      BY <1>1
    <3> QED BY <3>1, <1>1, <1>4, BoundedMax
  <2> DEFINE k == Max(known)
  <2>2. k \in 1 .. Len(path) - 1 /\ k + 1 \in 1 .. Len(path) /\ k \in Nat
    BY <2>1, <1>1
  <2>3. PICK f \in parents : Len(f) < WalkDepth /\ e = Append(f, path[k + 1])
    BY <1>1, <1>2, <1>4 DEF Expected
  <2>4. f \in folders /\ Related(f, SubSeq(path, 1, k))
    BY <2>3 DEF MatchByPath
  <2>5. f \in Seq(FolderNames) /\ Len(f) \in Nat
    BY <2>4, PathIsSequence
  <2>6. /\ SubSeq(path, 1, k) \in Seq(FolderNames) /\ path[k + 1] \in FolderNames
        /\ SubSeq(path, 1, k + 1) = Append(SubSeq(path, 1, k), path[k + 1])
        /\ SubSeq(path, 1, k + 1) # <<>>
    BY <1>1, <2>2, PrefixGrows
  <2> HIDE DEF k, known
  <2>7. e \in Seq(FolderNames) /\ Len(e) = Len(f) + 1 /\ e[Len(e)] = path[k + 1]
    BY <2>3, <2>5, <2>6, AppendProperties
  <2>8. ASSUME e \in folders PROVE FALSE
    <3>1. CASE k + 1 = Len(path)
      BY <3>1, <2>7, <2>8, <1>2 DEF Named
    <3>2. CASE k + 1 # Len(path)
      <4>1. Related(e, SubSeq(path, 1, k + 1))
        BY <2>3, <2>4, <2>5, <2>6, RelatedBelow
      <4>2. SubSeq(path, 1, k + 1) \in Seq(FolderNames)
        BY <2>6, AppendProperties
      <4>3. MatchByPath(folders, SubSeq(path, 1, k + 1)) # {}
        BY <4>1, <4>2, <2>6, <2>8, MatchExists
      <4>4. k + 1 \in known
        BY <4>3, <3>2, <2>2, <1>1 DEF known
      <4> QED BY <4>4, <2>1, <2>2 DEF k
    <3> QED BY <3>1, <3>2
  <2>9. Len(e) <= WalkDepth
    BY <2>3, <2>5, <2>7, <1>1
  <2> QED BY <2>8, <2>9
<1> QED BY <1>3, <1>4

-----------------------------------------------------------------------------
(* The state of the store.                                                  *)

WalkRecords == [root : FolderRoots \cup {"none", "over"}, depth : 0 .. WalkDepth,
                level : SUBSET (Paths \cup {<<>>}), found : SUBSET Paths]

\* The type of the state, that of a walk's frontier among it.
FoldersInv == FoldersTypeOK /\ walks \in [WalkIds -> WalkRecords]

\* What the walk of the store and what it publishes keep of the type.
StoreTyped ==
  /\ root \in FolderRoots \cup {"none"} /\ status \in {"idle", "indexing", "ready", "lost"}
  /\ (index = NoIndex \/ index \subseteq Paths) /\ (status = "ready" => index # NoIndex)
  /\ walks \in [WalkIds -> WalkRecords]
  /\ sharedWalk \in 0 .. MaxWalk /\ (sharedWalk # 0 => walks[sharedWalk].root \in FolderRoots)

OutsideTyped ==
  /\ tree \in [FolderRoots -> SUBSET Paths] /\ readable \subseteq FolderRoots
  /\ wanted \in Paths /\ appeared \in 0 .. MaxAppear

ProbeTyped == probe.root \in FolderRoots \cup {"none"}

LEMMA FoldersInvParts == FoldersInv <=> StoreTyped /\ OutsideTyped /\ ProbeTyped
<1>1. ASSUME walks \in [WalkIds -> WalkRecords], NEW w \in WalkIds
      PROVE  /\ walks[w].root \in FolderRoots \cup {"none", "over"}
             /\ walks[w].depth \in 0 .. WalkDepth /\ walks[w].found \subseteq Paths
  BY <1>1 DEF WalkRecords
<1> QED BY <1>1 DEF FoldersInv, FoldersTypeOK, StoreTyped, OutsideTyped, ProbeTyped

\* No walk's findings are the index of a store that has none.
LEMMA EmptyPathIsNone == <<>> \notin Paths
  BY PathIsSequence

\* A walk's fields, changed one at a time.
LEMMA WalkEdited ==
  ASSUME NEW walk \in WalkRecords
  PROVE  /\ \A x \in FolderRoots \cup {"none", "over"} :
              [walk EXCEPT !.root = x] \in WalkRecords /\ [walk EXCEPT !.root = x].root = x
         /\ \A x \in 0 .. WalkDepth :
              /\ [walk EXCEPT !.depth = x] \in WalkRecords
              /\ [walk EXCEPT !.depth = x].root = walk.root
         /\ \A x \in SUBSET (Paths \cup {<<>>}) :
              /\ [walk EXCEPT !.level = x] \in WalkRecords
              /\ [walk EXCEPT !.level = x].root = walk.root
         /\ \A x \in SUBSET Paths :
              /\ [walk EXCEPT !.found = x] \in WalkRecords
              /\ [walk EXCEPT !.found = x].root = walk.root
  BY DEF WalkRecords

LEMMA NoWalkTyped == NoWalk \in WalkRecords
  BY FoldersAssumption DEF NoWalk, WalkRecords

LEMMA FoldersInitInv == FoldersInit => FoldersInv
<1> SUFFICES ASSUME FoldersInit PROVE StoreTyped /\ OutsideTyped /\ ProbeTyped
  BY FoldersInvParts
<1>1. StoreTyped
  BY NoWalkTyped, FoldersAssumption DEF FoldersInit, StoreTyped
<1>2. OutsideTyped /\ ProbeTyped
  BY FoldersAssumption DEF FoldersInit, OutsideTyped, ProbeTyped, NoProbe
<1> QED BY <1>1, <1>2

\* A walk that begins, or is lost at once, with what is known put aside.
LEMMA StartWalkTyped ==
  ASSUME StoreTyped, NEW r \in FolderRoots, NEW aside, aside = NoIndex \/ aside \subseteq Paths,
         StartWalk(r, aside), root' = r
  PROVE  StoreTyped'
<1>1. CASE r \notin readable
  BY <1>1, FoldersAssumption DEF StoreTyped, StartWalk
<1>2. CASE r \in readable
  <2>1. PICK w \in WalkIds :
          /\ walks' = [walks EXCEPT ![w] = [NoWalk EXCEPT !.root = r, !.level = {<<>>}]]
          /\ sharedWalk' = w /\ status' = "indexing" /\ index' = aside
    BY <1>2 DEF StartWalk
  <2> DEFINE new == [NoWalk EXCEPT !.root = r, !.level = {<<>>}]
  <2>2. new \in WalkRecords /\ new.root = r
    <3> DEFINE rooted == [NoWalk EXCEPT !.root = r]
    <3>1. rooted \in WalkRecords /\ rooted.root = r
      BY NoWalkTyped, WalkEdited
    <3>2. new = [rooted EXCEPT !.level = {<<>>}]
      OBVIOUS
    <3> HIDE DEF rooted, new
    <3>3. {<<>>} \in SUBSET (Paths \cup {<<>>})
      OBVIOUS
    <3> QED BY <3>1, <3>2, <3>3, WalkEdited
  <2> HIDE DEF new
  <2>3. walks' \in [WalkIds -> WalkRecords] /\ walks'[w].root = r
    BY <2>1, <2>2 DEF StoreTyped, new
  <2>4. w \in 0 .. MaxWalk
    BY FoldersAssumption DEF WalkIds
  <2> QED BY <2>1, <2>3, <2>4 DEF StoreTyped
<1> QED BY <1>1, <1>2

LEMMA IndexFoldersTyped ==
  ASSUME StoreTyped, NEW r \in FolderRoots, NEW force, IndexFolders(r, force)
  PROVE  StoreTyped'
<1> DEFINE known == IF root = r THEN index ELSE NoIndex
           was == IF root = r THEN status ELSE "idle"
<1>1. /\ known = NoIndex \/ known \subseteq Paths
      /\ was \in {"idle", "indexing", "ready", "lost"} /\ (was = "ready" => known # NoIndex)
      /\ root' = r
  BY DEF StoreTyped, IndexFolders
<1>2. \/ /\ status' = (IF was = "idle" THEN "indexing" ELSE was)
         /\ index' = known /\ UNCHANGED <<walks, sharedWalk>>
      \/ status' = was /\ index' = known /\ UNCHANGED <<walks, sharedWalk>>
      \/ StartWalk(r, known)
  BY DEF IndexFolders
<1> HIDE DEF known, was
<1>3. CASE index' = known /\ status' \in {was, "indexing"} /\ UNCHANGED <<walks, sharedWalk>>
  BY <1>1, <1>3 DEF StoreTyped
<1>4. CASE StartWalk(r, known)
  BY <1>1, <1>4, StartWalkTyped
<1> QED BY <1>2, <1>3, <1>4

LEMMA EndedTyped ==
  ASSUME walks \in [WalkIds -> WalkRecords], NEW w \in WalkIds, Ended(w),
         sharedWalk \in 0 .. MaxWalk, sharedWalk # 0 => walks[sharedWalk].root \in FolderRoots
  PROVE  /\ walks' \in [WalkIds -> WalkRecords] /\ sharedWalk' \in 0 .. MaxWalk
         /\ sharedWalk' # 0 => walks'[sharedWalk'].root \in FolderRoots
<1> DEFINE over == [NoWalk EXCEPT !.root = "over"]
<1>1. over \in WalkRecords
  BY NoWalkTyped, WalkEdited
<1>2. walks' = [walks EXCEPT ![w] = over] /\ sharedWalk' = IF sharedWalk = w THEN 0 ELSE sharedWalk
  BY DEF Ended
<1> HIDE DEF over
<1>3. walks' \in [WalkIds -> WalkRecords] /\ \A v \in WalkIds \ {w} : walks'[v] = walks[v]
  BY <1>1, <1>2
<1>4. sharedWalk' # 0 => sharedWalk' = sharedWalk /\ sharedWalk \in WalkIds \ {w}
  BY <1>2, FoldersAssumption DEF WalkIds
<1> QED BY <1>2, <1>3, <1>4, FoldersAssumption

LEMMA ListLevelTyped ==
  ASSUME StoreTyped, OutsideTyped, NEW w \in WalkIds, ListLevel(w)
  PROVE  StoreTyped'
<1> DEFINE children == {f \in tree[walks[w].root] :
                          SubSeq(f, 1, Len(f) - 1) \in walks[w].level}
           new == [walks[w] EXCEPT !.depth = @ + 1, !.level = children, !.found = @ \cup children]
<1>1. walks[w] \in WalkRecords /\ walks[w].root \in FolderRoots /\ walks[w].depth < WalkDepth
  BY DEF StoreTyped, OutsideTyped, ListLevel
<1>2. children \subseteq Paths
  BY <1>1 DEF OutsideTyped
<1>3. walks' = [walks EXCEPT ![w] = new]
  BY DEF ListLevel
<1> HIDE DEF children
<1>4. new \in WalkRecords /\ new.root = walks[w].root
  <2>1. walks[w].depth + 1 \in 0 .. WalkDepth /\ walks[w].found \cup children \subseteq Paths
    BY <1>1, <1>2, FoldersAssumption DEF WalkRecords
  <2> DEFINE deeper == [walks[w] EXCEPT !.depth = walks[w].depth + 1]
             framed == [deeper EXCEPT !.level = children]
  <2>2. deeper \in WalkRecords /\ deeper.root = walks[w].root
    BY <1>1, <2>1, WalkEdited
  <2>3. new = [framed EXCEPT !.found = walks[w].found \cup children]
    OBVIOUS
  <2> HIDE DEF deeper
  <2>4. framed \in WalkRecords /\ framed.root = deeper.root
    BY <1>2, <2>2, WalkEdited
  <2> HIDE DEF framed, new
  <2> QED BY <2>1, <2>2, <2>3, <2>4, WalkEdited
<1> HIDE DEF new
<1>5. walks' \in [WalkIds -> WalkRecords] /\ \A v \in WalkIds : walks'[v].root = walks[v].root
  BY <1>3, <1>4 DEF StoreTyped
<1>6. sharedWalk # 0 => sharedWalk \in WalkIds
  BY FoldersAssumption DEF StoreTyped, WalkIds
<1> QED BY <1>5, <1>6 DEF StoreTyped, ListLevel

LEMMA PublishesTyped ==
  ASSUME StoreTyped, NEW w \in WalkIds, WalkPublishes(w)
  PROVE  StoreTyped'
<1>1. walks[w].found \subseteq Paths
  BY DEF StoreTyped, WalkRecords
<1>2. walks[w].found # NoIndex
  BY <1>1, EmptyPathIsNone DEF NoIndex
<1>3. /\ walks' \in [WalkIds -> WalkRecords] /\ sharedWalk' \in 0 .. MaxWalk
      /\ sharedWalk' # 0 => walks'[sharedWalk'].root \in FolderRoots
  BY EndedTyped DEF StoreTyped, WalkPublishes
<1> QED BY <1>1, <1>2, <1>3 DEF StoreTyped, WalkPublishes

LEMMA FailsTyped ==
  ASSUME StoreTyped, NEW w \in WalkIds, WalkFails(w)
  PROVE  StoreTyped'
<1>1. /\ walks' \in [WalkIds -> WalkRecords] /\ sharedWalk' \in 0 .. MaxWalk
      /\ sharedWalk' # 0 => walks'[sharedWalk'].root \in FolderRoots
  BY EndedTyped DEF StoreTyped, WalkFails
<1> QED BY <1>1 DEF StoreTyped, WalkFails

LEMMA AppearsTyped ==
  ASSUME OutsideTyped, NEW r \in FolderRoots, FolderAppears(r)
  PROVE  OutsideTyped'
<1>1. PICK f \in Paths : tree' = [tree EXCEPT ![r] = @ \cup {f}]
  BY DEF FolderAppears
<1>2. tree' \in [FolderRoots -> SUBSET Paths]
  BY <1>1 DEF OutsideTyped
<1> QED BY <1>2, FoldersAssumption DEF OutsideTyped, FolderAppears

\* Nothing of the device changes, and the probe stays of its type.
LEMMA OutsideKept ==
  ASSUME OutsideTyped, UNCHANGED outside PROVE OutsideTyped'
  BY DEF OutsideTyped, outside

LEMMA FoldersStep == FoldersInv /\ [FoldersNext]_foldersVars => FoldersInv'
<1> SUFFICES ASSUME StoreTyped, OutsideTyped, ProbeTyped, [FoldersNext]_foldersVars
             PROVE  StoreTyped' /\ OutsideTyped' /\ ProbeTyped'
  BY FoldersInvParts, PTL
<1>1. CASE RecheckAccess
  <2>1. OutsideTyped' /\ ProbeTyped'
    BY <1>1, OutsideKept DEF RecheckAccess, ProbeTyped
  <2>2. CASE status' = "lost" /\ index' = NoIndex /\ UNCHANGED <<root, walks, sharedWalk>>
    BY <2>1, <2>2 DEF StoreTyped
  <2>3. CASE IndexFolders(root, TRUE)
    <3>1. root \in FolderRoots
      BY <1>1 DEF RecheckAccess, StoreTyped
    <3> QED BY <3>1, <2>1, <2>3, IndexFoldersTyped
  <2> QED BY <1>1, <2>1, <2>2, <2>3 DEF RecheckAccess
<1>2. CASE ProbeStarts
  <2>1. StoreTyped' /\ OutsideTyped'
    BY <1>2, OutsideKept DEF ProbeStarts, StoreTyped
  <2>2. probe'.root = root
    BY <1>2 DEF ProbeStarts
  <2> QED BY <2>1, <2>2 DEF ProbeTyped, StoreTyped
<1>3. CASE ProbeAnswers
  <2>1. OutsideTyped' /\ ProbeTyped'
    BY <1>3, OutsideKept DEF ProbeAnswers, ProbeTyped, NoProbe
  <2>2. CASE UNCHANGED <<root, status, index, walks, sharedWalk>>
    BY <2>1, <2>2 DEF StoreTyped
  <2>3. CASE probe.root \in readable /\ root = probe.root /\ IndexFolders(root, TRUE)
    <3>1. root \in FolderRoots
      BY <2>3 DEF OutsideTyped
    <3> QED BY <3>1, <2>1, <2>3, IndexFoldersTyped
  <2> QED BY <1>3, <2>1, <2>2, <2>3 DEF ProbeAnswers
<1>4. ASSUME NEW r \in FolderRoots, NEW force \in BOOLEAN, IndexRequested(r, force)
      PROVE  StoreTyped' /\ OutsideTyped' /\ ProbeTyped'
  BY <1>4, IndexFoldersTyped, OutsideKept DEF IndexRequested, ProbeTyped
<1>5. ASSUME NEW r \in FolderRoots, FolderAppears(r)
      PROVE  StoreTyped' /\ OutsideTyped' /\ ProbeTyped'
  BY <1>5, AppearsTyped DEF FolderAppears, StoreTyped, ProbeTyped
<1>6. ASSUME NEW r \in FolderRoots, AccessChanges(r)
      PROVE  StoreTyped' /\ OutsideTyped' /\ ProbeTyped'
  BY <1>6 DEF AccessChanges, StoreTyped, OutsideTyped, ProbeTyped
<1>7. ASSUME NEW w \in WalkIds, ListLevel(w)
      PROVE  StoreTyped' /\ OutsideTyped' /\ ProbeTyped'
  BY <1>7, ListLevelTyped, OutsideKept DEF ListLevel, ProbeTyped
<1>8. ASSUME NEW w \in WalkIds, WalkPublishes(w)
      PROVE  StoreTyped' /\ OutsideTyped' /\ ProbeTyped'
  BY <1>8, PublishesTyped, OutsideKept DEF WalkPublishes, ProbeTyped
<1>9. ASSUME NEW w \in WalkIds, WalkFails(w)
      PROVE  StoreTyped' /\ OutsideTyped' /\ ProbeTyped'
  BY <1>9, FailsTyped, OutsideKept DEF WalkFails, ProbeTyped
<1>10. CASE UNCHANGED foldersVars
  BY <1>10 DEF foldersVars, StoreTyped, OutsideTyped, ProbeTyped
<1> QED BY <1>1, <1>2, <1>3, <1>4, <1>5, <1>6, <1>7, <1>8, <1>9, <1>10 DEF FoldersNext

\* The store of the folders keeps its type: a walk belongs to a root that was picked, the one
\* callers share is under way, and a store that is ready has an index.
THEOREM FoldersTyped == FoldersSpec => []FoldersTypeOK
<1>1. FoldersInv => FoldersTypeOK
  BY DEF FoldersInv
<1> QED BY <1>1, FoldersInitInv, FoldersStep, PTL DEF FoldersSpec

\* For any tree, depth of walk and number of names: once the index is what a walk of the tree
\* as it is would find, the folder a probe looks for is not on disk, so the probe that would
\* walk the whole tree again and find nothing new does not happen.
THEOREM ProbesEnd == FoldersSpec => []ProbesConverge
<1>1. FoldersInv => ProbesConverge
  <2> SUFFICES ASSUME FoldersInv, root # "none", index = Walked(tree[root]),
                      NEW e \in Expected(index, wanted), e \in tree[root]
               PROVE  FALSE
    BY DEF ProbesConverge
  <2>1. wanted \in Paths /\ tree[root] \subseteq Paths
    BY DEF FoldersInv, FoldersTypeOK
  <2>2. index \subseteq Paths
    BY <2>1 DEF Walked
  <2>3. e \notin index /\ Len(e) <= WalkDepth
    BY <2>1, <2>2, ExpectedIsNew
  <2> QED BY <2>3 DEF Walked
<1> QED BY <1>1, FoldersInitInv, FoldersStep, PTL DEF FoldersSpec

(***************************************************************************)
(* The covers.                                                             *)
(***************************************************************************)

EntryRecords == [file : Versions, source : {-1, 0, 1, 2}]
PairRecords == [image : Versions, sidecar : Versions, source : {0, 1, 2}]
Finds == [entries : Entries, targets : SUBSET CoverAnimes, wanted : SUBSET CoverAnimes,
          asked : [CoverAnimes -> {0, 1, 2}], answered : BOOLEAN, cut : BOOLEAN,
          handled : SUBSET CoverAnimes, then : {"none", "discard", "delete", "publish"}]

\* What the argument needs of the types.
CoverShape ==
  /\ manifest \in Entries \cup {NoCopy} /\ spare \in Entries \cup {NoCopy}
  /\ inbox \in [CoverAnimes -> PairRecords]
  /\ prefetch.image \in Versions /\ prefetch.source \in {0, 1, 2}
  /\ source \in [CoverAnimes -> {0, 1, 2}] /\ served \in [CoverAnimes -> Versions]
  /\ active \subseteq CoverAnimes /\ found \in Finds

\* The pass may leave anime a without its cover: it left the list, or its source changed.
Excused(a) == found.answered /\ (a \notin found.wanted \/ found.asked[a] # Readable[a].source)

\* What the task holds in memory names a file for a cover the disk has.
Carried(a) ==
  HasCover(a) =>
    \/ found.entries[a].file # 0 /\ <<a, found.entries[a].file>> \in coverFiles
    \/ Excused(a)

\* A cover is in memory from the moment it is asked for until the manifest on disk is the
\* one in memory.
CoverCarried ==
  /\ sweepStep = "ask" => \A a \in CoverAnimes :
       Carried(a) /\ (a \in found.targets => found.entries[a] = Readable[a])
  /\ sweepStep \in {"clear", "fill", "drop"} /\ manifest # NoCopy =>
       \A a \in CoverAnimes : Carried(a)
  /\ sweepStep \in {"drop", "move"} => spare = found.entries
  /\ sweepStep = "move" => manifest = NoCopy
  /\ sweepStep = "delete" => manifest = found.entries

CoverInv == CoverShape /\ CoverCarried

\* The step of CoverStays.
StaysCovered ==
  \A a \in CoverAnimes :
    HasCover(a) /\ manifest # NoCopy /\ sweepStep # "idle" /\ ~HasCover(a)' =>
      found.answered /\ (a \notin found.wanted \/ found.asked[a] # Readable[a].source)

LEMMA VersionFacts == 0 \in Versions /\ NoEntry \in EntryRecords /\ NoPair \in PairRecords
  BY CoverAssumption DEF Versions, NoEntry, EntryRecords, NoPair, PairRecords

LEMMA EntriesAreRecords == Entries = [CoverAnimes -> EntryRecords]
  BY DEF Entries, EntryRecords

\* No entry of a manifest is the mark of one that is missing.
LEMMA EntriesAreNoMark ==
  ASSUME NEW e \in Entries, NEW a \in CoverAnimes
  PROVE  e # NoCopy
<1>1. e[a].source # -2
  BY EntriesAreRecords DEF EntryRecords
<1>2. NoCopy[a].source = -2
  BY DEF NoCopy
<1> QED BY <1>1, <1>2

LEMMA ReadableTyped == CoverShape => Readable \in Entries
<1>1. NoEntries \in Entries
  BY VersionFacts, EntriesAreRecords DEF NoEntries
<1> QED BY <1>1 DEF CoverShape, Readable

LEMMA NothingFoundTyped == NothingFound \in Finds
<1>1. NoEntries \in Entries
  BY VersionFacts, EntriesAreRecords DEF NoEntries
<1> QED BY <1>1 DEF NothingFound, Finds

LEMMA CoverInitInv == CoverInit => CoverInv
<1> SUFFICES ASSUME CoverInit PROVE CoverInv
  OBVIOUS
<1>1. 1 \in Versions
  BY CoverAssumption DEF Versions
<1>2. prefetch.image = 0 /\ prefetch.source = 0
  BY DEF CoverInit, NoPrefetch
<1>3. CoverShape
  BY <1>1, <1>2, VersionFacts, NothingFoundTyped DEF CoverInit, CoverShape
<1>4. CoverCarried
  BY DEF CoverInit, CoverCarried
<1> QED BY <1>3, <1>4 DEF CoverInv

\* The task and the disk stay as they are.
LEMMA TaskRests ==
  ASSUME CoverCarried, UNCHANGED <<store, sweepStep, found>>
  PROVE  CoverCarried' /\ StaysCovered
<1>1. Readable' = Readable
  BY DEF store, Readable
<1>2. \A a \in CoverAnimes : HasCover(a)' <=> HasCover(a)
  BY <1>1 DEF store, HasCover
<1>3. \A a \in CoverAnimes : Carried(a)' <=> Carried(a)
  BY <1>1, <1>2 DEF store, Carried, Excused
<1> QED BY <1>1, <1>2, <1>3 DEF CoverCarried, StaysCovered, store

\* The disk stays as it is, and the task goes where nothing is to be carried.
LEMMA TaskMoves ==
  ASSUME UNCHANGED store,
         sweepStep' \in {"idle", "adopt", "discard", "config", "publish"}
  PROVE  CoverCarried' /\ StaysCovered
<1>1. \A a \in CoverAnimes : HasCover(a)' <=> HasCover(a)
  BY DEF store, HasCover, Readable
<1> QED BY <1>1 DEF CoverCarried, StaysCovered

\* A task that ends.
LEMMA FinishInv ==
  ASSUME CoverShape, Finish
  PROVE  found' \in Finds /\ sweepStep' = "idle"
  BY NothingFoundTyped DEF Finish

LEMMA EndHydrationInv ==
  ASSUME CoverShape, EndHydration
  PROVE  found' \in Finds /\ sweepStep' \in {"idle", "config"}
  BY NothingFoundTyped DEF CoverShape, EndHydration, Finish

\* Nothing of the shape is touched but the task.
LEMMA ShapeKept ==
  ASSUME CoverShape, found' \in Finds,
         UNCHANGED <<manifest, spare, inbox, prefetch, source, served, active>>
  PROVE  CoverShape'
  BY DEF CoverShape


LEMMA AdoptInv == CoverInv /\ AdoptInbox => CoverInv' /\ StaysCovered
<1> SUFFICES ASSUME CoverInv, AdoptInbox PROVE CoverInv' /\ StaysCovered
  OBVIOUS
<1> DEFINE adopted == [a \in CoverAnimes |->
             IF a \in Adopted THEN [file |-> inbox[a].image, source |-> inbox[a].source]
             ELSE Readable[a]]
           checked == [a \in CoverAnimes |->
             IF <<a, adopted[a].file>> \in coverFiles' THEN adopted[a]
             ELSE [adopted[a] EXCEPT !.file = 0]]
           seen == {a \in CoverAnimes : inbox[a].sidecar # 0}
<1>1. /\ coverFiles \subseteq coverFiles'
      /\ inbox' = [a \in CoverAnimes |-> IF a \in Adopted THEN [inbox[a] EXCEPT !.image = 0]
                                         ELSE inbox[a]]
      /\ found' = [found EXCEPT !.entries = checked, !.then = "discard", !.handled = seen]
      /\ sweepStep' \in {"discard", "clear"}
      /\ UNCHANGED <<manifest, spare, prefetch, world>>
  BY DEF AdoptInbox
<1>2. Readable' = Readable /\ Readable \in Entries
  BY <1>1, ReadableTyped DEF Readable, CoverInv
<1>3. ASSUME NEW a \in CoverAnimes
      PROVE  /\ adopted[a] \in EntryRecords /\ checked[a] \in EntryRecords
             /\ (IF a \in Adopted THEN [inbox[a] EXCEPT !.image = 0] ELSE inbox[a]) \in PairRecords
  <2>1. Readable[a] \in EntryRecords /\ inbox[a] \in PairRecords
    BY <1>2, EntriesAreRecords DEF CoverInv, CoverShape
  <2>2. adopted[a] \in EntryRecords
    BY <2>1 DEF EntryRecords, PairRecords
  <2>3. [adopted[a] EXCEPT !.file = 0] \in EntryRecords
    BY <2>2, VersionFacts DEF EntryRecords
  <2>4. [inbox[a] EXCEPT !.image = 0] \in PairRecords
    BY <2>1, VersionFacts DEF PairRecords
  <2> QED BY <2>1, <2>2, <2>3, <2>4
<1>4. checked \in Entries
  BY <1>3, EntriesAreRecords
<1>5. ASSUME NEW a \in CoverAnimes, HasCover(a)'
      PROVE  checked[a].file # 0 /\ <<a, checked[a].file>> \in coverFiles'
  <2>1. a \notin Adopted /\ <<a, Readable[a].file>> \in coverFiles' /\ Readable[a].file # 0
    BY <1>2, <1>5 DEF HasCover, Adopted
  <2> QED BY <2>1
<1> HIDE DEF adopted, checked, seen
<1>6. found' \in Finds /\ found'.entries = checked
  <2>1. seen \subseteq CoverAnimes
    BY DEF seen
  <2> QED BY <2>1, <1>1, <1>4 DEF CoverInv, CoverShape, Finds
<1>7. CoverShape'
  <2>1. inbox' \in [CoverAnimes -> PairRecords]
    BY <1>1, <1>3
  <2> QED BY <2>1, <1>1, <1>6 DEF CoverInv, CoverShape, world
<1>8. CoverCarried'
  BY <1>1, <1>5, <1>6 DEF CoverCarried, Carried
<1>9. StaysCovered
  BY <1>1, <1>2 DEF StaysCovered, HasCover
<1> QED BY <1>7, <1>8, <1>9 DEF CoverInv

LEMMA ClearInv == CoverInv /\ ClearSpare => CoverInv' /\ StaysCovered
<1> SUFFICES ASSUME CoverInv, ClearSpare PROVE CoverInv' /\ StaysCovered
  OBVIOUS
<1>1. /\ sweepStep = "clear" /\ spare' = NoCopy /\ sweepStep' = "fill"
      /\ UNCHANGED <<manifest, coverFiles, inbox, prefetch, found, source, served, active>>
  BY DEF ClearSpare, diskAndSteps, world
<1>2. manifest # NoCopy => Readable' = Readable
  BY <1>1 DEF Readable
<1>3. manifest # NoCopy => \A a \in CoverAnimes : HasCover(a)' <=> HasCover(a)
  BY <1>1, <1>2 DEF HasCover
<1>4. CoverCarried'
  BY <1>1, <1>2, <1>3 DEF CoverInv, CoverCarried, Carried, Excused
<1>5. CoverShape'
  BY <1>1 DEF CoverInv, CoverShape
<1> QED BY <1>3, <1>4, <1>5 DEF CoverInv, StaysCovered

LEMMA FillInv == CoverInv /\ FillSpare => CoverInv' /\ StaysCovered
<1> SUFFICES ASSUME CoverInv, FillSpare PROVE CoverInv' /\ StaysCovered
  OBVIOUS
<1>1. /\ sweepStep = "fill" /\ spare' = found.entries /\ sweepStep' = "drop"
      /\ UNCHANGED <<manifest, coverFiles, inbox, prefetch, found, source, served, active>>
  BY DEF FillSpare, diskAndSteps, world
<1>2. manifest # NoCopy => Readable' = Readable
  BY <1>1 DEF Readable
<1>3. manifest # NoCopy => \A a \in CoverAnimes : HasCover(a)' <=> HasCover(a)
  BY <1>1, <1>2 DEF HasCover
<1>4. CoverCarried'
  BY <1>1, <1>2, <1>3 DEF CoverInv, CoverCarried, Carried, Excused
<1>5. CoverShape'
  BY <1>1 DEF CoverInv, CoverShape, Finds
<1> QED BY <1>3, <1>4, <1>5 DEF CoverInv, StaysCovered

LEMMA DropInv == CoverInv /\ DropManifest => CoverInv' /\ StaysCovered
<1> SUFFICES ASSUME CoverInv, DropManifest PROVE CoverInv' /\ StaysCovered
  OBVIOUS
<1>1. /\ sweepStep = "drop" /\ manifest' = NoCopy /\ sweepStep' = "move"
      /\ UNCHANGED <<spare, coverFiles, inbox, prefetch, found, source, served, active>>
  BY DEF DropManifest, diskAndSteps, world
<1>2. CoverShape' /\ CoverCarried'
  BY <1>1 DEF CoverInv, CoverShape, CoverCarried
<1>3. StaysCovered
  <2> SUFFICES ASSUME NEW a \in CoverAnimes, HasCover(a), manifest # NoCopy, ~HasCover(a)'
               PROVE  Excused(a)
    BY DEF StaysCovered, Excused
  <2>1. spare = found.entries /\ spare \in Entries /\ Carried(a)
    BY <1>1 DEF CoverInv, CoverCarried, CoverShape, Finds
  <2>2. spare # NoCopy
    BY <2>1, EntriesAreNoMark
  <2>3. Readable' = found.entries
    BY <1>1, <2>1, <2>2 DEF Readable
  <2> QED BY <1>1, <2>1, <2>3 DEF HasCover, Carried
<1> QED BY <1>2, <1>3 DEF CoverInv

LEMMA MoveSpareInv == CoverInv /\ MoveSpare => CoverInv' /\ StaysCovered
<1> SUFFICES ASSUME CoverInv, MoveSpare PROVE CoverInv' /\ StaysCovered
  OBVIOUS
<1>1. /\ sweepStep = "move" /\ manifest' = spare /\ spare' = NoCopy /\ sweepStep' = found.then
      /\ UNCHANGED <<coverFiles, inbox, prefetch, found, source, served, active>>
  BY DEF MoveSpare, diskAndSteps, world
<1>2. found.then \in {"none", "discard", "delete", "publish"}
  BY DEF CoverInv, CoverShape, Finds
<1>3. CoverShape'
  BY <1>1 DEF CoverInv, CoverShape
<1> QED BY <1>1, <1>2, <1>3 DEF CoverInv, CoverCarried, StaysCovered

LEMMA SelectInv == CoverInv /\ SelectTargets => CoverInv' /\ StaysCovered
<1> SUFFICES ASSUME CoverInv, SelectTargets PROVE CoverInv' /\ StaysCovered
  OBVIOUS
<1>1. UNCHANGED <<store, inbox, prefetch, world>>
  BY DEF SelectTargets
<1>2. CASE Finish
  <2>1. CoverShape'
    BY <1>1, <1>2, FinishInv, ShapeKept DEF CoverInv, store, world
  <2> QED BY <2>1, <1>1, <1>2, FinishInv, TaskMoves DEF CoverInv
<1>3. CASE ~Finish
  <2>1. PICK late \in SUBSET active :
          /\ found' = [found EXCEPT !.entries = Readable, !.wanted = active, !.asked = source,
               !.targets = Targets(Readable, late, Head(tasks) = "forced")]
          /\ sweepStep' = "ask"
    BY <1>3 DEF SelectTargets
  <2> DEFINE targets == Targets(Readable, late, Head(tasks) = "forced")
  <2>2. targets \subseteq CoverAnimes /\ active \subseteq CoverAnimes
    BY DEF Targets, CoverInv, CoverShape
  <2>3. found' = [found EXCEPT !.entries = Readable, !.wanted = active, !.asked = source,
                               !.targets = targets]
    BY <2>1
  <2> HIDE DEF targets
  <2>4. found' \in Finds /\ found'.entries = Readable
    BY <2>2, <2>3, ReadableTyped DEF CoverInv, CoverShape, Finds
  <2>5. Readable' = Readable /\ coverFiles' = coverFiles
    BY <1>1 DEF Readable, store
  <2>6. CoverShape'
    BY <1>1, <2>4, ShapeKept DEF CoverInv, store, world
  <2>7. CoverCarried'
    BY <2>1, <2>4, <2>5 DEF CoverCarried, Carried, HasCover
  <2>8. StaysCovered
    BY <2>5 DEF StaysCovered, HasCover
  <2> QED BY <2>6, <2>7, <2>8 DEF CoverInv
<1> QED BY <1>2, <1>3

LEMMA AnswerInv ==
  ASSUME NEW a \in CoverAnimes,
         NEW kind \in {"image", "not_modified", "absent", "unknown", "transient"},
         CoverInv, Answer(a, kind)
  PROVE  CoverInv' /\ StaysCovered
<1> DEFINE entry == Resolved(found.entries[a], kind, served[a], found.asked[a])
<1>1. /\ sweepStep = "ask" /\ a \in found.targets
      /\ coverFiles' = IF kind = "image" THEN coverFiles \cup {<<a, served[a]>>} ELSE coverFiles
      /\ found' = [found EXCEPT !.targets = @ \ {a}, !.answered = TRUE, !.entries[a] = entry]
      /\ UNCHANGED <<manifest, spare, inbox, prefetch, sweepStep, source, served, active>>
  BY DEF Answer, world
<1>2. /\ found.entries \in [CoverAnimes -> EntryRecords] /\ found.asked[a] \in {0, 1, 2}
      /\ served[a] \in Versions /\ found.targets \subseteq CoverAnimes
  BY EntriesAreRecords DEF CoverInv, CoverShape, Finds
<1>3. entry \in EntryRecords /\ entry.source = found.asked[a]
  <2>1. found.entries[a].file \in Versions
    BY <1>2 DEF EntryRecords
  <2> QED BY <1>2, <2>1, VersionFacts DEF Resolved, EntryRecords
<1>4. /\ kind = "image" => entry.file = served[a] /\ served[a] # 0
      /\ kind = "absent" /\ found.entries[a].source = found.asked[a] =>
           entry.file = found.entries[a].file
      /\ kind \notin {"image", "absent"} => entry.file = found.entries[a].file
  BY DEF Resolved, Answer
<1> HIDE DEF entry
<1>5. [found.entries EXCEPT ![a] = entry] \in Entries
  BY <1>2, <1>3, EntriesAreRecords
<1>6. /\ found' \in Finds /\ found'.targets = found.targets \ {a} /\ found'.answered
      /\ found'.wanted = found.wanted /\ found'.asked = found.asked
      /\ found'.entries = [found.entries EXCEPT ![a] = entry]
  <2>1. found \in Finds
    BY DEF CoverInv, CoverShape
  <2> QED BY <1>1, <1>5, <2>1 DEF Finds
<1>7. Readable' = Readable /\ found.entries[a] = Readable[a]
  BY <1>1 DEF Readable, CoverInv, CoverCarried
<1>8. ASSUME NEW b \in CoverAnimes
      PROVE  Carried(b)' /\ (b \in found'.targets => found'.entries[b] = Readable'[b])
  <2>1. CASE b = a
    <3> SUFFICES ASSUME HasCover(a)'
                 PROVE  \/ entry.file # 0 /\ <<a, entry.file>> \in coverFiles'
                        \/ Excused(a)'
      BY <2>1, <1>2, <1>6 DEF Carried
    <3>1. Readable[a].file # 0 /\ <<a, Readable[a].file>> \in coverFiles'
      BY <1>7 DEF HasCover
    <3>2. CASE kind = "image"
      BY <3>2, <1>1, <1>4
    <3>3. CASE kind = "absent" /\ found.entries[a].source # found.asked[a]
      BY <3>3, <1>6, <1>7 DEF Excused
    <3>4. CASE entry.file = found.entries[a].file
      BY <3>1, <3>4, <1>7
    <3> QED BY <3>2, <3>3, <3>4, <1>4
  <2>2. CASE b # a
    <3>1. Carried(b) /\ (b \in found.targets => found.entries[b] = Readable[b])
      BY <1>1 DEF CoverInv, CoverCarried
    <3>2. found'.entries[b] = found.entries[b]
      BY <2>2, <1>2, <1>6
    <3>3. \A v : <<b, v>> \in coverFiles' <=> <<b, v>> \in coverFiles
      BY <2>2, <1>1
    <3> QED BY <3>1, <3>2, <3>3, <1>6, <1>7 DEF Carried, Excused, HasCover
  <2> QED BY <2>1, <2>2
<1>9. CoverShape'
  BY <1>1, <1>6, ShapeKept DEF CoverInv
<1>10. CoverCarried'
  BY <1>1, <1>8 DEF CoverCarried
<1>11. StaysCovered
  BY <1>1, <1>7 DEF StaysCovered, HasCover
<1> QED BY <1>9, <1>10, <1>11 DEF CoverInv

LEMMA CutOffInv ==
  ASSUME NEW a \in CoverAnimes, CoverInv, CutOff(a)
  PROVE  CoverInv' /\ StaysCovered
<1>1. /\ sweepStep = "ask" /\ found' = [found EXCEPT !.targets = @ \ {a}, !.cut = TRUE]
      /\ UNCHANGED <<store, inbox, prefetch, sweepStep, world>>
  BY DEF CutOff
<1>2. /\ found' \in Finds /\ found'.targets = found.targets \ {a} /\ found'.answered = found.answered
      /\ found'.wanted = found.wanted /\ found'.asked = found.asked
      /\ found'.entries = found.entries
  BY <1>1 DEF CoverInv, CoverShape, Finds
<1>3. Readable' = Readable /\ \A b \in CoverAnimes : HasCover(b)' <=> HasCover(b)
  BY <1>1 DEF store, Readable, HasCover
<1>4. CoverCarried'
  BY <1>1, <1>2, <1>3 DEF CoverInv, CoverCarried, Carried, Excused, store
<1>5. CoverShape'
  BY <1>1, <1>2, ShapeKept DEF CoverInv, store, world
<1> QED BY <1>3, <1>4, <1>5 DEF CoverInv, StaysCovered

LEMMA SettleInv == CoverInv /\ Settle => CoverInv' /\ StaysCovered
<1> SUFFICES ASSUME CoverInv, Settle PROVE CoverInv' /\ StaysCovered
  OBVIOUS
<1>1. sweepStep = "ask" /\ UNCHANGED <<store, inbox, prefetch, world>>
  BY DEF Settle
<1>2. CASE Finish
  <2>1. CoverShape'
    BY <1>1, <1>2, FinishInv, ShapeKept DEF CoverInv, store, world
  <2> QED BY <2>1, <1>1, <1>2, FinishInv, TaskMoves DEF CoverInv
<1>3. CASE ~Finish
  <2>1. /\ found.answered /\ sweepStep' = "clear"
        /\ \/ found' = [found EXCEPT !.then = "publish"]
           \/ found' = [found EXCEPT !.entries = Pruned, !.then = "delete"]
    BY <1>3 DEF Settle
  <2>2. Pruned \in Entries /\ \A a \in found.wanted : Pruned[a] = found.entries[a]
    BY VersionFacts, EntriesAreRecords DEF CoverInv, CoverShape, Finds, Pruned
  <2>3. /\ found' \in Finds /\ found'.answered
        /\ found'.wanted = found.wanted /\ found'.asked = found.asked
        /\ found'.entries \in {found.entries, Pruned}
    BY <2>1, <2>2 DEF CoverInv, CoverShape, Finds
  <2>4. Readable' = Readable /\ \A b \in CoverAnimes : HasCover(b)' <=> HasCover(b)
    BY <1>1 DEF store, Readable, HasCover
  <2>5. ASSUME NEW a \in CoverAnimes PROVE Carried(a)'
    <3>1. Carried(a)
      BY <1>1 DEF CoverInv, CoverCarried
    <3>2. CASE a \in found.wanted
      <4>1. found'.entries[a] = found.entries[a]
        BY <2>2, <2>3, <3>2
      <4> QED BY <4>1, <3>1, <2>1, <2>3, <2>4, <1>1 DEF Carried, Excused, store
    <3>3. CASE a \notin found.wanted
      BY <2>3, <3>3 DEF Carried, Excused
    <3> QED BY <3>2, <3>3
  <2>6. CoverCarried'
    BY <2>1, <2>5 DEF CoverCarried
  <2>7. CoverShape'
    BY <1>1, <2>3, ShapeKept DEF CoverInv, store, world
  <2> QED BY <2>4, <2>6, <2>7 DEF CoverInv, StaysCovered
<1> QED BY <1>2, <1>3

LEMMA DeleteInv == CoverInv /\ DeleteOrphans => CoverInv' /\ StaysCovered
<1> SUFFICES ASSUME CoverInv, DeleteOrphans PROVE CoverInv' /\ StaysCovered
  OBVIOUS
<1>1. /\ sweepStep = "delete" /\ coverFiles' = coverFiles \ Orphans(found.entries)
      /\ sweepStep' = "publish"
      /\ UNCHANGED <<manifest, spare, inbox, prefetch, found, source, served, active>>
  BY DEF DeleteOrphans, world
<1>2. Readable' = Readable /\ manifest = found.entries
  BY <1>1 DEF Readable, CoverInv, CoverCarried
<1>3. StaysCovered
  <2> SUFFICES ASSUME NEW a \in CoverAnimes, HasCover(a), manifest # NoCopy
               PROVE  HasCover(a)'
    BY DEF StaysCovered
  <2>1. Readable = found.entries
    BY <1>2 DEF Readable
  <2>2. <<a, Readable[a].file>> \notin Orphans(found.entries)
    BY <2>1 DEF Orphans
  <2> QED BY <1>1, <1>2, <2>2 DEF HasCover
<1>4. CoverShape' /\ CoverCarried'
  BY <1>1 DEF CoverInv, CoverShape, CoverCarried
<1> QED BY <1>3, <1>4 DEF CoverInv

\* The steps of a task that leave the disk alone and end what was carried.
LEMMA TaskEndsInv ==
  CoverInv /\ (TakeTask \/ Discard \/ WriteFails \/ Publish) => CoverInv' /\ StaysCovered
<1> SUFFICES ASSUME CoverInv, TakeTask \/ Discard \/ WriteFails \/ Publish
             PROVE  CoverInv' /\ StaysCovered
  OBVIOUS
<1>1. CASE TakeTask
  <2>1. CoverShape'
    BY <1>1 DEF CoverInv, CoverShape, TakeTask, store, world
  <2> QED BY <1>1, <2>1, TaskMoves DEF CoverInv, TakeTask
<1>2. CASE Discard
  <2>1. found' \in Finds /\ sweepStep' \in {"idle", "config"}
    BY <1>2, EndHydrationInv DEF CoverInv, Discard
  <2>2. inbox' \in [CoverAnimes -> PairRecords]
    BY <1>2, VersionFacts DEF Discard, CoverInv, CoverShape
  <2>3. CoverShape'
    BY <1>2, <2>1, <2>2 DEF Discard, CoverInv, CoverShape, store, world
  <2> QED BY <1>2, <2>1, <2>3, TaskMoves DEF CoverInv, Discard
<1>3. CASE WriteFails
  <2>1. found' \in Finds /\ sweepStep' \in {"idle", "config"}
    BY <1>3, EndHydrationInv, FinishInv DEF CoverInv, WriteFails
  <2>2. CoverShape'
    BY <1>3, <2>1, ShapeKept DEF WriteFails, CoverInv, store, world
  <2> QED BY <1>3, <2>1, <2>2, TaskMoves DEF CoverInv, WriteFails
<1>4. CASE Publish
  <2>1. found' \in Finds /\ sweepStep' = "idle"
    BY <1>4, FinishInv DEF CoverInv, Publish
  <2>2. CoverShape'
    BY <1>4, <2>1, ShapeKept DEF Publish, CoverInv, store, world
  <2> QED BY <1>4, <2>1, <2>2, TaskMoves DEF CoverInv, Publish
<1> QED BY <1>1, <1>2, <1>3, <1>4

\* The native prefetch works on the inbox, which the manifest does not name.
LEMMA PrefetchInv ==
  ASSUME NEW a \in CoverAnimes, CoverInv,
         PrefetchStarts(a) \/ PrefetchImage(a) \/ PrefetchSidecar(a) \/ PrefetchEnds
  PROVE  CoverInv' /\ StaysCovered
<1>1. UNCHANGED <<store, sweepStep, found, world>>
  BY DEF PrefetchStarts, PrefetchImage, PrefetchSidecar, PrefetchEnds
<1>2. CoverCarried' /\ StaysCovered
  BY <1>1, TaskRests DEF CoverInv
<1>3. prefetch'.image \in Versions /\ prefetch'.source \in {0, 1, 2}
  BY VersionFacts
  DEF CoverInv, CoverShape, PrefetchStarts, PrefetchImage, PrefetchSidecar, PrefetchEnds, NoPrefetch
<1>4. inbox' \in [CoverAnimes -> PairRecords]
  <2>1. inbox[a] \in PairRecords /\ inbox \in [CoverAnimes -> PairRecords]
    BY DEF CoverInv, CoverShape
  <2>2. CASE PrefetchImage(a)
    <3>1. inbox' = [inbox EXCEPT ![a].image = prefetch.image] /\ prefetch.image \in Versions
      BY <2>2 DEF PrefetchImage, CoverInv, CoverShape
    <3> QED BY <2>1, <3>1 DEF PairRecords
  <2>3. CASE PrefetchSidecar(a)
    <3>1. /\ inbox' = [inbox EXCEPT ![a].sidecar = prefetch.image, ![a].source = prefetch.source]
          /\ prefetch.image \in Versions /\ prefetch.source \in {0, 1, 2}
      BY <2>3 DEF PrefetchSidecar, CoverInv, CoverShape
    <3> QED BY <2>1, <3>1 DEF PairRecords
  <2>4. CASE PrefetchStarts(a) \/ PrefetchEnds
    BY <2>1, <2>4 DEF PrefetchStarts, PrefetchEnds
  <2> QED BY <2>2, <2>3, <2>4
<1>5. CoverShape'
  BY <1>1, <1>3, <1>4 DEF CoverInv, CoverShape, store, world
<1> QED BY <1>2, <1>5 DEF CoverInv

\* The user, the bridge and the list.
LEMMA WorldInv ==
  ASSUME NEW a \in CoverAnimes, CoverInv,
         ImageChanges(a) \/ CoverEdited(a) \/ AnimeLeavesOrReturns(a)
  PROVE  CoverInv' /\ StaysCovered
<1>1. UNCHANGED <<store, sweepStep, found, inbox, prefetch>>
  BY DEF ImageChanges, CoverEdited, AnimeLeavesOrReturns
<1>2. CoverCarried' /\ StaysCovered
  BY <1>1, TaskRests DEF CoverInv
<1>3. served' \in [CoverAnimes -> Versions]
  BY VersionFacts DEF CoverInv, CoverShape, ImageChanges, CoverEdited, AnimeLeavesOrReturns
<1>4. source' \in [CoverAnimes -> {0, 1, 2}] /\ active' \subseteq CoverAnimes
  BY DEF CoverInv, CoverShape, ImageChanges, CoverEdited, AnimeLeavesOrReturns
<1>5. CoverShape'
  BY <1>1, <1>3, <1>4 DEF CoverInv, CoverShape, store
<1> QED BY <1>2, <1>5 DEF CoverInv

LEMMA RequestsInv ==
  ASSUME CoverInv, RequestHydrate \/ \E t \in {"sweep", "forced"} : RequestSweep(t)
  PROVE  CoverInv' /\ StaysCovered
<1>1. UNCHANGED <<store, sweepStep, found, inbox, prefetch, world>>
  BY DEF RequestHydrate, RequestSweep
<1>2. CoverShape'
  BY <1>1 DEF CoverInv, CoverShape, store, world
<1> QED BY <1>1, <1>2, TaskRests DEF CoverInv

\* The process dies, or a file is taken between two tasks.
LEMMA LossesInv == CoverInv /\ (AppDies \/ FileVanishes) => CoverInv' /\ StaysCovered
<1> SUFFICES ASSUME CoverInv, AppDies \/ FileVanishes PROVE CoverInv' /\ StaysCovered
  OBVIOUS
<1>1. CASE AppDies
  <2>1. CoverShape'
    BY <1>1, NothingFoundTyped, ShapeKept DEF AppDies, CoverInv, store, world
  <2> QED BY <1>1, <2>1, TaskMoves DEF CoverInv, AppDies
<1>2. CASE FileVanishes
  <2>1. sweepStep = "idle" /\ UNCHANGED <<manifest, spare, inbox, prefetch, sweepStep, found, world>>
    BY <1>2 DEF FileVanishes
  <2>2. CoverShape' /\ CoverCarried' /\ StaysCovered
    BY <2>1 DEF CoverInv, CoverShape, CoverCarried, StaysCovered, world
  <2> QED BY <2>2 DEF CoverInv
<1> QED BY <1>1, <1>2

LEMMA CoverStep ==
  CoverInv /\ [CoverNext]_coverVars => CoverInv' /\ (StaysCovered \/ UNCHANGED coverVars)
<1> SUFFICES ASSUME CoverInv, [CoverNext]_coverVars
             PROVE  CoverInv' /\ (StaysCovered \/ UNCHANGED coverVars)
  OBVIOUS
<1>1. CASE RequestHydrate \/ \E t \in {"sweep", "forced"} : RequestSweep(t)
  BY <1>1, RequestsInv
<1>2. CASE TakeTask \/ Discard \/ WriteFails \/ Publish
  BY <1>2, TaskEndsInv
<1>3. CASE AdoptInbox
  BY <1>3, AdoptInv
<1>4. CASE ClearSpare \/ FillSpare \/ DropManifest \/ MoveSpare
  BY <1>4, ClearInv, FillInv, DropInv, MoveSpareInv
<1>5. CASE SelectTargets \/ Settle \/ DeleteOrphans
  BY <1>5, SelectInv, SettleInv, DeleteInv
<1>6. CASE AppDies \/ FileVanishes
  BY <1>6, LossesInv
<1>7. CASE PrefetchEnds
  <2>1. UNCHANGED <<store, sweepStep, found, world, inbox>> /\ prefetch' = NoPrefetch
    BY <1>7 DEF PrefetchEnds
  <2>2. CoverShape'
    BY <2>1, VersionFacts DEF CoverInv, CoverShape, NoPrefetch, store, world
  <2> QED BY <2>1, <2>2, TaskRests DEF CoverInv
<1>8. ASSUME NEW a \in CoverAnimes,
             NEW k \in {"image", "not_modified", "absent", "unknown", "transient"}, Answer(a, k)
      PROVE  CoverInv' /\ StaysCovered
  BY <1>8, AnswerInv
<1>9. ASSUME NEW a \in CoverAnimes,
             \/ CutOff(a) \/ PrefetchStarts(a) \/ PrefetchImage(a) \/ PrefetchSidecar(a)
             \/ ImageChanges(a) \/ CoverEdited(a) \/ AnimeLeavesOrReturns(a)
      PROVE  CoverInv' /\ StaysCovered
  BY <1>9, CutOffInv, PrefetchInv, WorldInv
<1>10. CASE UNCHANGED coverVars
  <2>1. UNCHANGED <<store, sweepStep, found, inbox, prefetch, world>>
    BY <1>10 DEF coverVars
  <2>2. CoverShape'
    BY <2>1 DEF CoverInv, CoverShape, store, world
  <2> QED BY <1>10, <2>1, <2>2, TaskRests DEF CoverInv
<1> QED BY <1>1, <1>2, <1>3, <1>4, <1>5, <1>6, <1>7, <1>8, <1>9, <1>10 DEF CoverNext

\* For any animes, images, queue of tasks and number of passes, and with the process dying
\* between any two file operations: a cover that is there for the cards stays, unless its
\* anime left the list or its source changed when the pass read them.
THEOREM CoversStay == CoverSpec => CoverStays
<1>1. CoverInv /\ [CoverNext]_coverVars => [StaysCovered]_coverVars
  BY CoverStep
<1>2. [][StaysCovered]_coverVars => CoverStays
  BY PTL DEF CoverStays, StaysCovered
<1> QED BY <1>1, <1>2, CoverInitInv, CoverStep, PTL DEF CoverSpec

\* The types that CoverShape leaves out.  A manifest is written to go on with a task.
WritingSteps == {"clear", "fill", "drop", "move"}
SweepSteps == {"idle", "adopt", "discard", "config", "ask", "delete", "publish"} \cup WritingSteps
CoverFilesTyped == coverFiles \subseteq CoverAnimes \X (1 .. MaxVersion)
PrefetchTyped == prefetch.anime \in CoverAnimes \cup {"none"}
QueueTyped ==
  /\ tasks \in Seq({"hydrate", "sweep", "forced"}) /\ Len(tasks) <= MaxTask
  /\ sweepStep \in SweepSteps
  /\ (sweepStep # "idle" => tasks # <<>>)
  /\ (sweepStep \in WritingSteps => found.then # "none")
CountsTyped ==
  /\ shown \in [CoverAnimes -> Versions]
  /\ passes \in 0 .. MaxPass /\ kills \in 0 .. MaxKill /\ changes \in 0 .. MaxChange

CoverTyped == CoverInv /\ CoverFilesTyped /\ PrefetchTyped /\ QueueTyped /\ CountsTyped

\* The map of a manifest names versions.
LEMMA UriMapTyped == ASSUME NEW e \in Entries PROVE UriMap(e) \in [CoverAnimes -> Versions]
<1>1. \A a \in CoverAnimes : e[a].file \in Versions
  BY DEF Entries
<1> QED BY <1>1 DEF UriMap

\* The first task leaves a queue of tasks.
LEMMA FinishTyped ==
  ASSUME QueueTyped, Finish, sweepStep # "idle"
  PROVE  QueueTyped'
<1>1. tasks \in Seq({"hydrate", "sweep", "forced"}) /\ tasks # <<>> /\ Len(tasks) <= MaxTask
  BY DEF QueueTyped
<1>2. tasks' \in Seq({"hydrate", "sweep", "forced"}) /\ Len(tasks') <= MaxTask
  <2>1. Tail(tasks) \in Seq({"hydrate", "sweep", "forced"}) /\ Len(Tail(tasks)) = Len(tasks) - 1
        /\ Len(tasks) \in Nat
    BY <1>1
  <2>2. Len(tasks) - 1 <= MaxTask
    BY <1>1, <2>1, CoverAssumption
  <2> QED BY <2>1, <2>2 DEF Finish
<1>3. sweepStep' = "idle"
  BY DEF Finish
<1> QED BY <1>2, <1>3 DEF QueueTyped, SweepSteps, WritingSteps

\* A hydration that ends.
LEMMA EndHydrationTyped ==
  ASSUME QueueTyped, EndHydration, sweepStep # "idle"
  PROVE  QueueTyped'
<1>1. CASE Head(tasks) = "hydrate"
  BY <1>1, FinishTyped DEF EndHydration
<1>2. CASE Head(tasks) # "hydrate"
  BY <1>2 DEF EndHydration, QueueTyped, SweepSteps, WritingSteps
<1> QED BY <1>1, <1>2

\* A task that waits is one more in the queue.
LEMMA EnqueueTyped ==
  ASSUME QueueTyped, NEW t \in {"hydrate", "sweep", "forced"}, Enqueue(t), UNCHANGED <<sweepStep, found>>
  PROVE  QueueTyped'
<1>1. tasks \in Seq({"hydrate", "sweep", "forced"}) /\ Len(tasks) < MaxTask
  BY DEF Enqueue, QueueTyped
<1>2. /\ tasks' \in Seq({"hydrate", "sweep", "forced"}) /\ tasks' # <<>>
      /\ Len(tasks') = Len(tasks) + 1 /\ Len(tasks) \in Nat
  BY <1>1 DEF Enqueue
<1>3. Len(tasks') <= MaxTask
  BY <1>1, <1>2, CoverAssumption
<1> QED BY <1>2, <1>3 DEF QueueTyped, SweepSteps, WritingSteps

\* The task goes to another step with the same queue.
LEMMA StepTyped ==
  ASSUME QueueTyped, UNCHANGED tasks, sweepStep' \in SweepSteps, tasks # <<>> \/ sweepStep' = "idle",
         sweepStep' \in WritingSteps => found'.then # "none"
  PROVE  QueueTyped'
  BY DEF QueueTyped

\* The parts that a step of the queue leaves alone.
LEMMA OtherPartsKept ==
  ASSUME CoverFilesTyped, PrefetchTyped, CountsTyped
  PROVE  /\ coverFiles' \subseteq coverFiles => CoverFilesTyped'
         /\ prefetch' \in {prefetch, NoPrefetch} => PrefetchTyped'
         /\ UNCHANGED <<shown, passes, kills, changes>> => CountsTyped'
  BY DEF CoverFilesTyped, PrefetchTyped, CountsTyped, NoPrefetch

\* What is asked for.
LEMMA RequestsTyped ==
  ASSUME CoverTyped, RequestHydrate \/ \E t \in {"sweep", "forced"} : RequestSweep(t)
  PROVE  CoverFilesTyped' /\ PrefetchTyped' /\ QueueTyped' /\ CountsTyped'
<1> USE DEF CoverTyped
<1>1. CASE RequestHydrate
  BY <1>1, EnqueueTyped, OtherPartsKept DEF RequestHydrate, store, world
<1>2. ASSUME NEW t \in {"sweep", "forced"}, RequestSweep(t)
      PROVE  CoverFilesTyped' /\ PrefetchTyped' /\ QueueTyped' /\ CountsTyped'
  <2>1. /\ passes < MaxPass /\ passes' = passes + 1
        /\ (UNCHANGED tasks \/ Enqueue(t))
        /\ UNCHANGED <<coverFiles, prefetch, sweepStep, found, shown, kills, changes>>
    BY <1>2 DEF RequestSweep, store, world
  <2>2. QueueTyped'
    <3>1. CASE UNCHANGED tasks
      BY <2>1, <3>1 DEF QueueTyped
    <3> QED BY <2>1, <3>1, EnqueueTyped
  <2>3. CountsTyped'
    BY <2>1, CoverAssumption DEF CountsTyped
  <2> QED BY <2>1, <2>2, <2>3, OtherPartsKept
<1> QED BY <1>1, <1>2

\* Taking and ending a task, and the steps of a write.
LEMMA TasksTyped ==
  ASSUME CoverTyped,
         \/ TakeTask \/ Discard \/ WriteFails \/ Publish
         \/ ClearSpare \/ FillSpare \/ DropManifest \/ MoveSpare
  PROVE  CoverFilesTyped' /\ PrefetchTyped' /\ QueueTyped' /\ CountsTyped'
<1> USE DEF CoverTyped
<1>0. /\ CoverFilesTyped /\ PrefetchTyped /\ QueueTyped /\ CountsTyped
      /\ found \in Finds /\ (sweepStep # "idle" => tasks # <<>>)
  BY DEF CoverInv, CoverShape, QueueTyped
<1>1. CASE TakeTask
  <2>1. QueueTyped'
    BY <1>0, <1>1, StepTyped DEF TakeTask, SweepSteps, WritingSteps
  <2> QED BY <1>0, <1>1, <2>1, OtherPartsKept DEF TakeTask, store, world
<1>2. ASSUME shown' = UriMap(found.entries), Discard \/ Publish
      PROVE  CountsTyped' /\ UNCHANGED <<coverFiles, prefetch>>
  <2>1. found.entries \in Entries
    BY <1>0 DEF Finds
  <2>2. shown' \in [CoverAnimes -> Versions]
    BY <1>2, <2>1, UriMapTyped
  <2> QED BY <1>0, <1>2, <2>2 DEF CountsTyped, Discard, Publish, store, world
<1>3. CASE Discard
  BY <1>0, <1>2, <1>3, EndHydrationTyped, OtherPartsKept DEF Discard
<1>4. CASE Publish
  BY <1>0, <1>2, <1>4, FinishTyped, OtherPartsKept DEF Publish
<1>5. CASE WriteFails
  <2>1. QueueTyped'
    BY <1>0, <1>5, FinishTyped, EndHydrationTyped DEF WriteFails
  <2> QED BY <1>0, <1>5, <2>1, OtherPartsKept DEF WriteFails, store, world
<1>6. CASE ClearSpare \/ FillSpare \/ DropManifest
  <2>1. sweepStep \in WritingSteps /\ sweepStep' \in WritingSteps /\ UNCHANGED diskAndSteps
    BY <1>6 DEF ClearSpare, FillSpare, DropManifest, WritingSteps
  <2>2. QueueTyped'
    BY <1>0, <2>1, StepTyped DEF QueueTyped, diskAndSteps, SweepSteps, WritingSteps
  <2> QED BY <1>0, <2>1, <2>2, OtherPartsKept DEF diskAndSteps, world
<1>7. CASE MoveSpare
  <2>1. sweepStep \in WritingSteps /\ sweepStep' = found.then /\ UNCHANGED diskAndSteps
    BY <1>7 DEF MoveSpare, WritingSteps
  <2>2. found.then \in {"discard", "delete", "publish"}
    BY <1>0, <2>1 DEF QueueTyped, Finds
  <2>3. QueueTyped'
    BY <1>0, <2>1, <2>2, StepTyped DEF QueueTyped, diskAndSteps, SweepSteps, WritingSteps
  <2> QED BY <1>0, <2>1, <2>3, OtherPartsKept DEF diskAndSteps, world
<1> QED BY <1>1, <1>3, <1>4, <1>5, <1>6, <1>7

\* The adoption of the inbox, the targets, the end of the asking and the orphans.
LEMMA PassTasksTyped ==
  ASSUME CoverTyped, AdoptInbox \/ SelectTargets \/ Settle \/ DeleteOrphans
  PROVE  CoverFilesTyped' /\ PrefetchTyped' /\ QueueTyped' /\ CountsTyped'
<1> USE DEF CoverTyped
<1>0. /\ CoverFilesTyped /\ PrefetchTyped /\ QueueTyped /\ CountsTyped
      /\ found \in Finds /\ (sweepStep # "idle" => tasks # <<>>)
      /\ inbox \in [CoverAnimes -> PairRecords]
  BY DEF CoverInv, CoverShape, QueueTyped
<1>1. CASE AdoptInbox
  <2>1. ASSUME NEW a \in Adopted PROVE a \in CoverAnimes /\ inbox[a].image \in 1 .. MaxVersion
    BY <1>0, CoverAssumption DEF Adopted, PairRecords, Versions
  <2>2. CoverFilesTyped'
    BY <1>0, <1>1, <2>1 DEF AdoptInbox, CoverFilesTyped
  <2>3. sweepStep = "adopt" /\ sweepStep' \in {"discard", "clear"} /\ UNCHANGED tasks
    BY <1>1 DEF AdoptInbox
  <2>4. found'.then = "discard"
    BY <1>0, <1>1 DEF AdoptInbox, Finds
  <2>5. QueueTyped'
    BY <1>0, <2>3, <2>4, StepTyped DEF SweepSteps, WritingSteps
  <2> QED BY <1>0, <1>1, <2>2, <2>5, OtherPartsKept DEF AdoptInbox, world
<1>2. CASE SelectTargets
  <2>1. Finish \/ (sweepStep' = "ask" /\ UNCHANGED tasks)
    BY <1>2 DEF SelectTargets
  <2>2. sweepStep = "config"
    BY <1>2 DEF SelectTargets
  <2>3. QueueTyped'
    BY <1>0, <2>1, <2>2, FinishTyped, StepTyped DEF SweepSteps, WritingSteps
  <2> QED BY <1>0, <1>2, <2>3, OtherPartsKept DEF SelectTargets, store, world
<1>3. CASE Settle
  <2>1. sweepStep = "ask"
    BY <1>3 DEF Settle
  <2>2. CASE ~found.answered
    <3>1. shown' = UriMap(found.entries) /\ Finish
      BY <1>3, <2>2 DEF Settle
    <3>2. shown' \in [CoverAnimes -> Versions]
      BY <1>0, <3>1, UriMapTyped DEF Finds
    <3>3. CountsTyped'
      BY <1>0, <1>3, <3>2 DEF Settle, CountsTyped, world
    <3> QED BY <1>0, <1>3, <2>1, <3>1, <3>3, FinishTyped, OtherPartsKept DEF Settle, store
  <2>3. CASE found.answered
    <3>1. sweepStep' = "clear" /\ UNCHANGED <<tasks, shown>>
      BY <1>3, <2>3 DEF Settle
    <3>2. found'.then \in {"publish", "delete"}
      BY <1>0, <1>3, <2>3 DEF Settle, Finds
    <3>3. QueueTyped'
      BY <1>0, <2>1, <3>1, <3>2, StepTyped DEF SweepSteps, WritingSteps
    <3> QED BY <1>0, <1>3, <3>1, <3>3, OtherPartsKept DEF Settle, store, world
  <2> QED BY <1>0, <2>2, <2>3 DEF Finds
<1>4. CASE DeleteOrphans
  <2>1. QueueTyped'
    BY <1>0, <1>4, StepTyped DEF DeleteOrphans, SweepSteps, WritingSteps
  <2>2. coverFiles' \subseteq coverFiles
    BY <1>4 DEF DeleteOrphans
  <2> QED BY <1>0, <1>4, <2>1, <2>2, OtherPartsKept DEF DeleteOrphans, world
<1> QED BY <1>1, <1>2, <1>3, <1>4

\* An answer, and a pass that is cut off.
LEMMA AnswersTyped ==
  ASSUME CoverTyped, NEW a \in CoverAnimes,
         \/ \E k \in {"image", "not_modified", "absent", "unknown", "transient"} : Answer(a, k)
         \/ CutOff(a)
  PROVE  CoverFilesTyped' /\ PrefetchTyped' /\ QueueTyped' /\ CountsTyped'
<1> USE DEF CoverTyped
<1>0. /\ CoverFilesTyped /\ PrefetchTyped /\ QueueTyped /\ CountsTyped
      /\ served \in [CoverAnimes -> Versions]
  BY DEF CoverInv, CoverShape
<1>1. sweepStep = "ask" /\ UNCHANGED <<tasks, sweepStep, prefetch, shown, world, passes, kills>>
  BY DEF Answer, CutOff
<1>2. QueueTyped'
  BY <1>0, <1>1, StepTyped DEF QueueTyped, SweepSteps, WritingSteps
<1>3. CoverFilesTyped'
  <2>1. ASSUME NEW k \in {"image", "not_modified", "absent", "unknown", "transient"}, Answer(a, k)
        PROVE  CoverFilesTyped'
    <3>1. CASE k = "image"
      <4>1. coverFiles' = coverFiles \cup {<<a, served[a]>>} /\ served[a] # 0
        BY <2>1, <3>1 DEF Answer
      <4>2. served[a] \in 1 .. MaxVersion
        BY <1>0, <4>1, CoverAssumption DEF Versions
      <4> QED BY <1>0, <4>1, <4>2 DEF CoverFilesTyped
    <3>2. CASE k # "image"
      BY <1>0, <2>1, <3>2 DEF Answer, CoverFilesTyped
    <3> QED BY <3>1, <3>2
  <2>2. CASE CutOff(a)
    BY <1>0, <2>2 DEF CutOff, store, CoverFilesTyped
  <2> QED BY <2>1, <2>2
<1> QED BY <1>0, <1>1, <1>2, <1>3, OtherPartsKept DEF world

\* The native prefetch, and what happens from outside.
LEMMA OutsideTasksTyped ==
  ASSUME CoverTyped,
         \/ PrefetchEnds \/ AppDies \/ FileVanishes
         \/ \E a \in CoverAnimes :
              \/ PrefetchStarts(a) \/ PrefetchImage(a) \/ PrefetchSidecar(a)
              \/ ImageChanges(a) \/ CoverEdited(a) \/ AnimeLeavesOrReturns(a)
  PROVE  CoverFilesTyped' /\ PrefetchTyped' /\ QueueTyped' /\ CountsTyped'
<1> USE DEF CoverTyped
<1>0. CoverFilesTyped /\ PrefetchTyped /\ QueueTyped /\ CountsTyped
  OBVIOUS
<1>1. ASSUME UNCHANGED <<tasks, sweepStep, found>> PROVE QueueTyped'
  BY <1>0, <1>1 DEF QueueTyped
<1>2. CASE PrefetchEnds
  BY <1>0, <1>1, <1>2, OtherPartsKept DEF PrefetchEnds, store, world
<1>3. CASE AppDies
  <2>1. QueueTyped'
    <3>1. tasks' = <<>> /\ sweepStep' = "idle"
      BY <1>3 DEF AppDies
    <3>2. tasks' \in Seq({"hydrate", "sweep", "forced"}) /\ Len(tasks') = 0 /\ 0 <= MaxTask
      BY <3>1, CoverAssumption
    <3> QED BY <3>1, <3>2 DEF QueueTyped, SweepSteps, WritingSteps
  <2>2. CountsTyped'
    BY <1>0, <1>3, VersionFacts, CoverAssumption DEF AppDies, CountsTyped, world
  <2> QED BY <1>0, <1>3, <2>1, <2>2, OtherPartsKept DEF AppDies, store
<1>4. CASE FileVanishes
  <2>1. CountsTyped'
    BY <1>0, <1>4, CoverAssumption DEF FileVanishes, CountsTyped, world
  <2>2. coverFiles' \subseteq coverFiles
    BY <1>4 DEF FileVanishes
  <2> QED BY <1>0, <1>1, <1>4, <2>1, <2>2, OtherPartsKept DEF FileVanishes
<1>5. ASSUME NEW a \in CoverAnimes, PrefetchStarts(a) \/ PrefetchImage(a) \/ PrefetchSidecar(a)
      PROVE  CoverFilesTyped' /\ PrefetchTyped' /\ QueueTyped' /\ CountsTyped'
  <2>1. UNCHANGED <<coverFiles, tasks, sweepStep, found, shown, passes, kills, changes>>
    BY <1>5 DEF PrefetchStarts, PrefetchImage, PrefetchSidecar, store, world
  <2>2. PrefetchTyped'
    BY <1>0, <1>5 DEF PrefetchStarts, PrefetchImage, PrefetchSidecar, PrefetchTyped, NoPrefetch
  <2> QED BY <1>0, <1>1, <2>1, <2>2, OtherPartsKept
<1>6. ASSUME NEW a \in CoverAnimes, ImageChanges(a) \/ CoverEdited(a) \/ AnimeLeavesOrReturns(a)
      PROVE  CoverFilesTyped' /\ PrefetchTyped' /\ QueueTyped' /\ CountsTyped'
  <2>1. /\ UNCHANGED <<coverFiles, prefetch, tasks, sweepStep, found, shown, passes, kills>>
        /\ changes < MaxChange /\ changes' = changes + 1
    BY <1>6 DEF ImageChanges, CoverEdited, AnimeLeavesOrReturns, WorldChanges, store
  <2>2. CountsTyped'
    BY <1>0, <2>1, CoverAssumption DEF CountsTyped
  <2> QED BY <1>0, <1>1, <2>1, <2>2, OtherPartsKept
<1> QED BY <1>2, <1>3, <1>4, <1>5, <1>6

\* Every step keeps the types of the covers.
LEMMA CoverTypeStep == CoverTyped /\ [CoverNext]_coverVars => CoverTyped'
<1> SUFFICES ASSUME CoverTyped, [CoverNext]_coverVars PROVE CoverTyped'
  OBVIOUS
<1>1. CoverInv'
  BY CoverStep DEF CoverTyped
<1>2. CoverFilesTyped' /\ PrefetchTyped' /\ QueueTyped' /\ CountsTyped'
  <2>1. CASE UNCHANGED coverVars
    BY <2>1 DEF coverVars, store, world, CoverTyped, CoverFilesTyped, PrefetchTyped, QueueTyped, CountsTyped
  <2>2. ASSUME NEW a \in CoverAnimes,
               \/ \E k \in {"image", "not_modified", "absent", "unknown", "transient"} : Answer(a, k)
               \/ CutOff(a) \/ PrefetchStarts(a) \/ PrefetchImage(a) \/ PrefetchSidecar(a)
               \/ ImageChanges(a) \/ CoverEdited(a) \/ AnimeLeavesOrReturns(a)
        PROVE  CoverFilesTyped' /\ PrefetchTyped' /\ QueueTyped' /\ CountsTyped'
    BY <2>2, AnswersTyped, OutsideTasksTyped
  <2>3. CASE CoverNext
    BY <2>2, <2>3, RequestsTyped, TasksTyped, PassTasksTyped, OutsideTasksTyped DEF CoverNext
  <2> QED BY <2>1, <2>3
<1> QED BY <1>1, <1>2 DEF CoverTyped

\* The covers' state is well typed: a task that runs is in the queue, and what the disk and the
\* cards name are versions the bridge served.
THEOREM CoverTypes == CoverSpec => []CoverTypeOK
<1>1. CoverInit => CoverTyped
  <2> SUFFICES ASSUME CoverInit PROVE CoverTyped
    OBVIOUS
  <2>1. CoverInv
    BY CoverInitInv
  <2>2. CoverFilesTyped /\ PrefetchTyped /\ CountsTyped
    BY VersionFacts, CoverAssumption
    DEF CoverInit, CoverFilesTyped, PrefetchTyped, CountsTyped, NoPrefetch
  <2>3. tasks \in Seq({"hydrate", "sweep", "forced"}) /\ Len(tasks) = 0 /\ 0 <= MaxTask
    BY CoverAssumption DEF CoverInit
  <2>4. QueueTyped
    BY <2>3 DEF CoverInit, QueueTyped, SweepSteps, WritingSteps
  <2> QED BY <2>1, <2>2, <2>4 DEF CoverTyped
<1>2. CoverTyped => CoverTypeOK
  <2> SUFFICES ASSUME CoverTyped PROVE CoverTypeOK
    OBVIOUS
  <2>1. /\ CoverShape /\ CoverFilesTyped /\ PrefetchTyped /\ QueueTyped /\ CountsTyped
    BY DEF CoverTyped, CoverInv
  <2>2. /\ found.entries \in Entries /\ found.targets \subseteq CoverAnimes
        /\ found.wanted \subseteq CoverAnimes /\ found.handled \subseteq CoverAnimes
        /\ found.then \in {"none", "discard", "delete", "publish"}
        /\ found.answered \in BOOLEAN /\ found.cut \in BOOLEAN
    BY <2>1 DEF CoverShape, Finds
  <2>3. sweepStep \in {"idle", "adopt", "clear", "fill", "drop", "move", "discard",
                       "config", "ask", "delete", "publish"}
    BY <2>1 DEF QueueTyped, SweepSteps, WritingSteps
  <2> QED BY <2>1, <2>2, <2>3
          DEF CoverTypeOK, CoverShape, CoverFilesTyped, PrefetchTyped, QueueTyped, CountsTyped, PairRecords
<1> QED BY <1>1, <1>2, CoverTypeStep, PTL DEF CoverSpec

(***************************************************************************)
(* The row of the sync status: it and its queue keep their type, an earlier *)
(* projection never writes over a later one, and the row that is left holds *)
(* a projection of the runtime as it is, for any number of projections,     *)
(* releases and attempts.                                                   *)
(***************************************************************************)
DoorEntries == [row : StatusRows, of : Writers]

\* No projection is ahead of the counter, and the ones that wait at the door are in the
\* order they were asked in, none of them before the one that wrote last.
InOrder ==
  /\ \A p \in asked : p.sequence <= sequence
  /\ projected.of.sequence <= sequence
  /\ \A i \in 1 .. Len(statusDoor) : statusDoor[i].of # NoProjection =>
       /\ statusDoor[i].of.sequence <= sequence
       /\ projected.of.sequence <= statusDoor[i].of.sequence
       /\ \A j \in 1 .. i : statusDoor[j].of # NoProjection =>
            statusDoor[j].of.sequence <= statusDoor[i].of.sequence

\* The newest projection is still to be answered or to be written, or it wrote last, or a
\* write was lost.
NewestIsSomewhere ==
  sequence > 0 =>
    \/ \E p \in asked : p.sequence = sequence
    \/ \E i \in 1 .. Len(statusDoor) : statusDoor[i].of.sequence = sequence
    \/ /\ \A i \in 1 .. Len(statusDoor) : statusDoor[i].of = NoProjection
       /\ projected.of.sequence = sequence \/ projected.lost

Quiet == ~registering /\ ~settling /\ releasing = 0

\* While the hook has nothing under way, the newest projection is of the runtime as it is,
\* wherever it has come.
NewestIsCurrent ==
  Quiet =>
    /\ \A p \in asked : p.sequence = sequence => p.on = runtimeOn
    /\ \A i \in 1 .. Len(statusDoor) :
         statusDoor[i].of # NoProjection /\ statusDoor[i].of.sequence = sequence
           => statusDoor[i].of.on = runtimeOn
    /\ projected.of # NoProjection /\ projected.of.sequence = sequence
         => projected.of.on = runtimeOn

\* A release that is under way while the runtime is on is one the registration waits for.
ReleaseBeforeRegistration == runtimeOn /\ releasing > 0 => registering

StatusInv ==
  /\ StatusTypeOK /\ InOrder /\ NewestIsSomewhere /\ NewestIsCurrent /\ ReleaseBeforeRegistration

-----------------------------------------------------------------------------
(* The door, and the few ways a step touches it.                            *)

\* A row queued at the door goes to the end.
LEMMA DoorAppended ==
  ASSUME NEW q \in Seq(DoorEntries), NEW e \in DoorEntries
  PROVE  /\ Append(q, e) \in Seq(DoorEntries) /\ Len(q) \in Nat /\ Len(Append(q, e)) = Len(q) + 1
         /\ \A i \in 1 .. Len(q) : Append(q, e)[i] = q[i]
         /\ Append(q, e)[Len(q) + 1] = e
<1>1. Append(q, e) \in Seq(DoorEntries) /\ Len(q) \in Nat /\ Len(Append(q, e)) = Len(q) + 1
  BY AppendProperties, LenProperties
<1> QED
  BY <1>1, AppendProperties

\* The door lets its first row go.
LEMMA DoorShifted ==
  ASSUME NEW q \in Seq(DoorEntries), q # <<>>
  PROVE  /\ Tail(q) \in Seq(DoorEntries) /\ Head(q) \in DoorEntries /\ Head(q) = q[1]
         /\ Len(q) \in Nat /\ Len(q) > 0 /\ Len(Tail(q)) = Len(q) - 1
         /\ \A i \in 1 .. Len(Tail(q)) : Tail(q)[i] = q[i + 1]
BY HeadTailProperties, EmptySeq, LenProperties

\* What waits at the door, the asked projections and the last writer are of their types.
LEMMA WritersTyped ==
  ASSUME StatusTypeOK
  PROVE  /\ sequence \in Nat
         /\ \A p \in asked : p \in Projections
         /\ \A i \in 1 .. Len(statusDoor) : statusDoor[i] \in DoorEntries
         /\ projected.of \in Writers
         /\ \A w \in Writers : w.sequence \in Nat /\ (w # NoProjection => w \in Projections)
         /\ \A w \in Projections : w \in Writers /\ w.sequence \in Nat /\ w.sequence > 0
         /\ NoProjection.sequence = 0
<1>1. \A w \in Projections : w \in Writers /\ w.sequence \in Nat /\ w.sequence > 0
  BY DEF Writers, Projections
<1>2. NoProjection.sequence = 0
  BY DEF NoProjection
<1>3. \A w \in Writers : w.sequence \in Nat /\ (w # NoProjection => w \in Projections)
  BY <1>1, <1>2 DEF Writers
<1>4. \A i \in 1 .. Len(statusDoor) : statusDoor[i] \in DoorEntries
  BY ElementOfSeq DEF StatusTypeOK, DoorEntries
<1>5. sequence \in Nat /\ asked \subseteq Projections /\ projected.of \in Writers
  BY StatusAssumption DEF StatusTypeOK
<1> QED
  BY <1>1, <1>2, <1>3, <1>4, <1>5

\* A projection is asked for.
Projecting ==
  /\ \E closure \in BOOLEAN : Project(closure)
  /\ UNCHANGED <<statusRow, statusDoor, projected, instant>>

\* The hook or the native engine moves, and no projection does.
Elsewhere == UNCHANGED <<sequence, asked, statusDoor, projected>>

\* A projection is answered.
Answering == \E p \in asked : ProjectionAnswered(p)

\* An attempt is queued.
Recording == RecordAttempt \/ RecordSuccess

\* Every step is of one of these six kinds.
LEMMA StepKinds ==
  ASSUME [StatusNext]_statusVars
  PROVE  Projecting \/ Elsewhere \/ Answering \/ Recording \/ DoorCommits \/ DoorFails
<1>1. CASE Enable \/ ReleaseEnds \/ SettleFires \/ Resumes
  BY <1>1 DEF Enable, ReleaseEnds, SettleFires, Resumes, Projecting
<1>2. CASE Disable \/ RegistrationEnds
  BY <1>2 DEF Disable, RegistrationEnds, Elsewhere
<1>3. CASE \E closed \in BOOLEAN : NativeRecords(closed)
  BY <1>3 DEF NativeRecords, Elsewhere
<1>4. CASE UNCHANGED statusVars
  BY <1>4 DEF statusVars, Elsewhere
<1> QED
  BY <1>1, <1>2, <1>3, <1>4 DEF StatusNext, Answering, Recording

\* A projection that is answered is dropped, or it is the newest and queues at the end.
LEMMA AnsweringFacts ==
  ASSUME StatusTypeOK, NEW p \in asked, ProjectionAnswered(p)
  PROVE  /\ asked' = asked \ {p} /\ UNCHANGED <<sequence, projected, runtimeHook>>
         /\ \/ p.sequence # sequence /\ statusDoor' = statusDoor
            \/ /\ p.sequence = sequence
               /\ \E e \in DoorEntries : e.of = p /\ statusDoor' = Append(statusDoor, e)
<1>1. asked' = asked \ {p} /\ UNCHANGED <<sequence, projected, runtimeHook>>
  BY DEF ProjectionAnswered, Answered
<1>2. CASE p.sequence # sequence
  BY <1>1, <1>2 DEF ProjectionAnswered, Answered
<1>3. CASE p.sequence = sequence
  <2>1. PICK answer \in Answers(p) : Queue(PatchedStatus(p, answer), p)
    BY <1>3 DEF ProjectionAnswered, Answered
  <2>2. answer \in Registrations
    BY DEF Answers, MergedVerdict, Registrations
  <2>3. PatchedStatus(p, answer) \in StatusRows
    BY <2>2 DEF PatchedStatus, StatusTypeOK, StatusRows, Registrations
  <2>4. p \in Writers
    BY DEF StatusTypeOK, Writers
  <2>5. [row |-> PatchedStatus(p, answer), of |-> p] \in DoorEntries
    BY <2>3, <2>4 DEF DoorEntries
  <2> QED
    BY <1>1, <1>3, <2>1, <2>5 DEF Queue
<1> QED
  BY <1>2, <1>3

\* An attempt queues at the end and carries no projection.
LEMMA RecordingFacts ==
  ASSUME StatusTypeOK, Recording
  PROVE  /\ UNCHANGED <<sequence, asked, projected, runtimeHook>>
         /\ \E e \in DoorEntries : e.of = NoProjection /\ statusDoor' = Append(statusDoor, e)
         /\ instant' \in 0 .. MaxInstant
<1>1. instant + 1 \in 0 .. MaxInstant /\ instant' = instant + 1
  BY StatusAssumption DEF Recording, RecordAttempt, RecordSuccess, StatusTypeOK
<1>2. NoProjection \in Writers
  BY DEF Writers
<1>3. PICK patched \in StatusRows : Queue(patched, NoProjection)
  <2>1. [statusRow EXCEPT !.attemptAt = instant + 1] \in StatusRows
    BY <1>1 DEF StatusTypeOK, StatusRows
  <2>2. [statusRow EXCEPT !.attemptAt = instant + 1, !.successAt = instant + 1] \in StatusRows
    BY <1>1 DEF StatusTypeOK, StatusRows
  <2> QED
    BY <2>1, <2>2 DEF Recording, RecordAttempt, RecordSuccess
<1>4. [row |-> patched, of |-> NoProjection] \in DoorEntries
  BY <1>2 DEF DoorEntries
<1> QED
  BY <1>1, <1>3, <1>4 DEF Queue, Recording, RecordAttempt, RecordSuccess, runtimeHook

-----------------------------------------------------------------------------
(* The types.                                                               *)

\* A projection asked for is of its type.
LEMMA ProjectTyped ==
  ASSUME StatusTypeOK, NEW closure \in BOOLEAN, runtimeOn' \in BOOLEAN, Project(closure)
  PROVE  sequence' \in 0 .. MaxProjection /\ asked' \subseteq Projections
<1>1. sequence + 1 \in 0 .. MaxProjection /\ sequence + 1 \in 1 .. MaxProjection
  BY StatusAssumption DEF StatusTypeOK, Project
<1> QED
  BY <1>1 DEF StatusTypeOK, Project, Projections

\* Every step keeps the types.
LEMMA StatusTypeStep == StatusTypeOK /\ [StatusNext]_statusVars => StatusTypeOK'
<1> SUFFICES ASSUME StatusTypeOK, [StatusNext]_statusVars
             PROVE  StatusTypeOK'
  OBVIOUS
<1>1. CASE Enable
  BY <1>1, ProjectTyped DEF Enable, StatusTypeOK
<1>2. CASE Disable
  <2>1. releasing' \in 0 .. MaxRelease
    BY <1>2, StatusAssumption DEF Disable, StatusTypeOK
  <2> QED
    BY <1>2, <2>1 DEF Disable, StatusTypeOK
<1>3. CASE ReleaseEnds
  <2>1. releasing' \in 0 .. MaxRelease
    BY <1>3, StatusAssumption DEF ReleaseEnds, StatusTypeOK
  <2> QED
    BY <1>3, <2>1, ProjectTyped DEF ReleaseEnds, StatusTypeOK
<1>4. CASE RegistrationEnds
  BY <1>4 DEF RegistrationEnds, StatusTypeOK
<1>5. CASE SettleFires
  BY <1>5, ProjectTyped DEF SettleFires, StatusTypeOK
<1>6. CASE Resumes
  BY <1>6, ProjectTyped DEF Resumes, runtimeHook, StatusTypeOK
<1>7. ASSUME NEW p \in asked, ProjectionAnswered(p)
      PROVE  StatusTypeOK'
  <2>1. statusDoor \in Seq(DoorEntries)
    BY DEF StatusTypeOK, DoorEntries
  <2>2. \/ statusDoor' = statusDoor
        \/ \E e \in DoorEntries : statusDoor' = Append(statusDoor, e)
    BY <1>7, AnsweringFacts
  <2>3. statusDoor' \in Seq(DoorEntries)
    BY <2>1, <2>2, DoorAppended
  <2> QED
    BY <1>7, <2>3 DEF ProjectionAnswered, Answered, runtimeHook, StatusTypeOK, DoorEntries
<1>8. CASE Recording
  <2>1. statusDoor' \in Seq(DoorEntries)
    BY <1>8, RecordingFacts, DoorAppended, ZenonT(40) DEF StatusTypeOK, DoorEntries
  <2>2. UNCHANGED statusRow
    BY <1>8 DEF Recording, RecordAttempt, RecordSuccess
  <2> QED
    BY <1>8, <2>1, <2>2, RecordingFacts DEF runtimeHook, StatusTypeOK, DoorEntries
<1>9. CASE DoorCommits
  <2>1. Tail(statusDoor) \in Seq(DoorEntries) /\ Head(statusDoor) \in DoorEntries
    BY <1>9, DoorShifted DEF DoorCommits, StatusTypeOK, DoorEntries
  <2>2. Head(statusDoor).row \in StatusRows /\ Head(statusDoor).of \in Writers
    BY <2>1 DEF DoorEntries
  <2>3. projected' \in [of : Writers, lost : BOOLEAN]
    BY <1>9, <2>2 DEF DoorCommits, StatusTypeOK
  <2> QED
    BY <1>9, <2>1, <2>2, <2>3 DEF DoorCommits, runtimeHook, StatusTypeOK, DoorEntries
<1>10. CASE DoorFails
  <2>1. Tail(statusDoor) \in Seq(DoorEntries)
    BY <1>10, DoorShifted DEF DoorFails, StatusTypeOK, DoorEntries
  <2>2. (projected.lost \/ Head(statusDoor).of # NoProjection) \in BOOLEAN
    BY Zenon
  <2>3. projected' \in [of : Writers, lost : BOOLEAN]
    BY <1>10, <2>2 DEF DoorFails, StatusTypeOK
  <2> QED
    BY <1>10, <2>1, <2>3 DEF DoorFails, runtimeHook, StatusTypeOK, DoorEntries
<1>11. ASSUME NEW closed \in BOOLEAN, NativeRecords(closed)
       PROVE  StatusTypeOK'
  <2>1. instant + 1 \in 0 .. MaxInstant
    BY <1>11, StatusAssumption DEF NativeRecords, StatusTypeOK
  <2>2. statusRow' \in StatusRows
    BY <1>11, <2>1 DEF NativeRecords, StatusTypeOK, StatusRows
  <2> QED
    BY <1>11, <2>1, <2>2 DEF NativeRecords, runtimeHook, StatusTypeOK
<1>12. CASE UNCHANGED statusVars
  BY <1>12 DEF statusVars, runtimeHook, StatusTypeOK
<1> QED
  BY <1>1, <1>2, <1>3, <1>4, <1>5, <1>6, <1>7, <1>8, <1>9, <1>10, <1>11, <1>12
     DEF StatusNext, Recording

-----------------------------------------------------------------------------
(* The order of the projections.                                            *)

\* What a step of the door does to what waits there, and to the projection that wrote last.
LEMMA DoorMoves ==
  ASSUME StatusTypeOK, DoorCommits \/ DoorFails
  PROVE  /\ UNCHANGED <<sequence, asked, runtimeHook>>
         /\ Len(statusDoor) \in Nat /\ Len(statusDoor) > 0
         /\ Len(statusDoor') = Len(statusDoor) - 1
         /\ \A i \in 1 .. Len(statusDoor') : statusDoor'[i] = statusDoor[i + 1]
         /\ statusDoor[1].of = NoProjection => projected' = projected
         /\ statusDoor[1].of # NoProjection =>
              \/ projected'.of = statusDoor[1].of /\ ~projected'.lost
              \/ projected'.of = projected.of /\ projected'.lost
<1>1. statusDoor \in Seq(DoorEntries) /\ statusDoor # <<>> /\ statusDoor' = Tail(statusDoor)
  BY DEF StatusTypeOK, DoorEntries, DoorCommits, DoorFails
<1>2. /\ Len(statusDoor) \in Nat /\ Len(statusDoor) > 0 /\ Head(statusDoor) = statusDoor[1]
      /\ Len(statusDoor') = Len(statusDoor) - 1
      /\ \A i \in 1 .. Len(statusDoor') : statusDoor'[i] = statusDoor[i + 1]
  BY <1>1, DoorShifted
<1>3. projected = [of |-> projected.of, lost |-> projected.lost] /\ projected.lost \in BOOLEAN
  BY DEF StatusTypeOK
<1>4. CASE DoorCommits
  BY <1>2, <1>4 DEF DoorCommits
<1>5. CASE DoorFails
  <2>1. CASE statusDoor[1].of = NoProjection
    <3>1. projected' = [projected EXCEPT !.lost = projected.lost]
      BY <1>2, <1>5, <2>1, <1>3 DEF DoorFails
    <3>2. projected' = projected
      BY <1>3, <3>1
    <3> QED
      BY <1>2, <1>5, <2>1, <3>2 DEF DoorFails
  <2>2. CASE statusDoor[1].of # NoProjection
    <3>1. projected' = [projected EXCEPT !.lost = TRUE]
      BY <1>2, <1>5, <2>2 DEF DoorFails
    <3> QED
      BY <1>2, <1>3, <1>5, <2>2, <3>1 DEF DoorFails
  <2> QED
    BY <2>1, <2>2
<1> QED
  BY <1>4, <1>5

\* Every step keeps the order, and no step sets the last projection back.
LEMMA OrderStep ==
  StatusTypeOK /\ InOrder /\ [StatusNext]_statusVars
    => InOrder' /\ projected'.of.sequence >= projected.of.sequence
<1> SUFFICES ASSUME StatusTypeOK, InOrder, [StatusNext]_statusVars
             PROVE  InOrder' /\ projected'.of.sequence >= projected.of.sequence
  OBVIOUS
<1>0. statusDoor \in Seq(DoorEntries) /\ projected.of.sequence \in Nat
  BY WritersTyped DEF StatusTypeOK, DoorEntries
<1>1. CASE Projecting
  <2>1. /\ sequence' = sequence + 1 /\ UNCHANGED <<statusDoor, projected>>
        /\ \A p \in asked' : p \in asked \/ p.sequence = sequence + 1
    BY <1>1 DEF Projecting, Project
  <2>2. \A i \in 1 .. Len(statusDoor) : statusDoor[i].of \in Writers
    BY WritersTyped DEF DoorEntries
  <2> QED
    BY <1>0, <2>1, <2>2, WritersTyped DEF InOrder
<1>2. CASE Elsewhere
  BY <1>0, <1>2 DEF Elsewhere, InOrder
<1>3. CASE Answering
  <2>1. PICK p \in asked : ProjectionAnswered(p)
    BY <1>3 DEF Answering
  <2>2. asked' = asked \ {p} /\ sequence' = sequence /\ projected' = projected
    BY <2>1, AnsweringFacts
  <2>3. CASE statusDoor' = statusDoor
    BY <1>0, <2>2, <2>3 DEF InOrder
  <2>4. CASE p.sequence = sequence /\ \E e \in DoorEntries : e.of = p /\ statusDoor' = Append(statusDoor, e)
    <3>1. PICK e \in DoorEntries : e.of = p /\ statusDoor' = Append(statusDoor, e)
      BY <2>4
    <3>2. /\ Len(statusDoor) \in Nat /\ Len(statusDoor') = Len(statusDoor) + 1
          /\ \A i \in 1 .. Len(statusDoor) : statusDoor'[i] = statusDoor[i]
          /\ statusDoor'[Len(statusDoor) + 1].of = p
      BY <1>0, <3>1, DoorAppended
    <3>3. sequence \in Nat /\ projected.of.sequence <= sequence
      BY WritersTyped DEF InOrder
    <3>4. ASSUME NEW i \in 1 .. Len(statusDoor'), statusDoor'[i].of # NoProjection
          PROVE  /\ statusDoor'[i].of.sequence <= sequence
                 /\ projected.of.sequence <= statusDoor'[i].of.sequence
                 /\ \A j \in 1 .. i : statusDoor'[j].of # NoProjection =>
                      statusDoor'[j].of.sequence <= statusDoor'[i].of.sequence
      <4>1. CASE i \in 1 .. Len(statusDoor)
        BY <3>2, <3>4, <4>1 DEF InOrder
      <4>2. CASE i = Len(statusDoor) + 1
        BY <2>4, <3>2, <3>3, <4>2 DEF InOrder
      <4> QED
        BY <3>2, <4>1, <4>2
    <3> QED
      BY <1>0, <2>2, <3>3, <3>4 DEF InOrder
  <2> QED
    BY <2>1, <2>3, <2>4, AnsweringFacts
<1>4. CASE Recording
  <2>1. PICK e \in DoorEntries : e.of = NoProjection /\ statusDoor' = Append(statusDoor, e)
    BY <1>4, RecordingFacts
  <2>2. UNCHANGED <<sequence, asked, projected>>
    BY <1>4, RecordingFacts
  <2>3. /\ Len(statusDoor) \in Nat /\ Len(statusDoor') = Len(statusDoor) + 1
        /\ \A i \in 1 .. Len(statusDoor) : statusDoor'[i] = statusDoor[i]
        /\ statusDoor'[Len(statusDoor) + 1].of = NoProjection
    BY <1>0, <2>1, DoorAppended
  <2> QED
    BY <1>0, <2>2, <2>3 DEF InOrder
<1>5. CASE DoorCommits \/ DoorFails
  <2>1. /\ sequence' = sequence /\ asked' = asked
        /\ Len(statusDoor) \in Nat /\ Len(statusDoor) > 0 /\ Len(statusDoor') = Len(statusDoor) - 1
        /\ \A i \in 1 .. Len(statusDoor') : statusDoor'[i] = statusDoor[i + 1]
        /\ \/ projected'.of = projected.of
           \/ projected'.of = statusDoor[1].of /\ statusDoor[1].of # NoProjection
    BY <1>5, DoorMoves
  <2>2. /\ projected'.of.sequence >= projected.of.sequence
        /\ projected'.of.sequence <= sequence
    BY <1>0, <2>1 DEF InOrder
  <2>3. ASSUME NEW i \in 1 .. Len(statusDoor'), statusDoor'[i].of # NoProjection
        PROVE  /\ statusDoor'[i].of.sequence <= sequence
               /\ projected'.of.sequence <= statusDoor'[i].of.sequence
               /\ \A j \in 1 .. i : statusDoor'[j].of # NoProjection =>
                    statusDoor'[j].of.sequence <= statusDoor'[i].of.sequence
    <3>1. i + 1 \in 1 .. Len(statusDoor) /\ 1 \in 1 .. i + 1
      BY <2>1
    <3>2. \A j \in 1 .. i : j \in 1 .. Len(statusDoor') /\ j + 1 \in 1 .. i + 1
      BY <2>1
    <3> QED
      BY <2>1, <2>3, <3>1, <3>2 DEF InOrder
  <2> QED
    BY <2>1, <2>2, <2>3 DEF InOrder
<1> QED
  BY <1>1, <1>2, <1>3, <1>4, <1>5, StepKinds

-----------------------------------------------------------------------------
(* The newest projection.                                                   *)

\* Every step leaves the newest projection somewhere.
LEMMA NewestStep ==
  StatusTypeOK /\ InOrder /\ NewestIsSomewhere /\ [StatusNext]_statusVars => NewestIsSomewhere'
<1> SUFFICES ASSUME StatusTypeOK, InOrder, NewestIsSomewhere, [StatusNext]_statusVars
             PROVE  NewestIsSomewhere'
  OBVIOUS
<1>0. statusDoor \in Seq(DoorEntries) /\ sequence \in Nat
  BY WritersTyped DEF StatusTypeOK, DoorEntries
<1>1. CASE Projecting
  <2>1. PICK closure \in BOOLEAN : Project(closure)
    BY <1>1 DEF Projecting
  <2> DEFINE newest == [sequence |-> sequence + 1, on |-> closure, listed |-> runtimeOn']
  <2>2. newest \in asked' /\ newest.sequence = sequence + 1 /\ sequence' = sequence + 1
    BY <2>1 DEF Project
  <2> QED
    BY <2>2 DEF NewestIsSomewhere
<1>2. CASE Elsewhere
  BY <1>2 DEF Elsewhere, NewestIsSomewhere
<1>3. CASE Answering
  <2>1. PICK p \in asked : ProjectionAnswered(p)
    BY <1>3 DEF Answering
  <2>2. asked' = asked \ {p} /\ sequence' = sequence /\ projected' = projected
    BY <2>1, AnsweringFacts
  <2>3. CASE p.sequence # sequence /\ statusDoor' = statusDoor
    BY <2>2, <2>3 DEF NewestIsSomewhere
  <2>4. CASE p.sequence = sequence /\ \E e \in DoorEntries : e.of = p /\ statusDoor' = Append(statusDoor, e)
    <3>1. PICK e \in DoorEntries : e.of = p /\ statusDoor' = Append(statusDoor, e)
      BY <2>4
    <3>2. /\ Len(statusDoor) \in Nat /\ Len(statusDoor') = Len(statusDoor) + 1
          /\ statusDoor'[Len(statusDoor) + 1].of = p
      BY <1>0, <3>1, DoorAppended
    <3>3. \E i \in 1 .. Len(statusDoor') : statusDoor'[i].of.sequence = sequence'
      BY <2>2, <2>4, <3>2
    <3> QED
      BY <3>3 DEF NewestIsSomewhere
  <2> QED
    BY <2>1, <2>3, <2>4, AnsweringFacts
<1>4. CASE Recording
  <2>1. PICK e \in DoorEntries : e.of = NoProjection /\ statusDoor' = Append(statusDoor, e)
    BY <1>4, RecordingFacts
  <2>2. UNCHANGED <<sequence, asked, projected>>
    BY <1>4, RecordingFacts
  <2>3. /\ Len(statusDoor) \in Nat /\ Len(statusDoor') = Len(statusDoor) + 1
        /\ \A i \in 1 .. Len(statusDoor) : statusDoor'[i] = statusDoor[i]
        /\ statusDoor'[Len(statusDoor) + 1].of = NoProjection
    BY <1>0, <2>1, DoorAppended
  <2> QED
    BY <2>2, <2>3 DEF NewestIsSomewhere
<1>5. CASE DoorCommits \/ DoorFails
  <2>1. /\ sequence' = sequence /\ asked' = asked
        /\ Len(statusDoor) \in Nat /\ Len(statusDoor) > 0 /\ Len(statusDoor') = Len(statusDoor) - 1
        /\ \A i \in 1 .. Len(statusDoor') : statusDoor'[i] = statusDoor[i + 1]
        /\ statusDoor[1].of = NoProjection => projected' = projected
        /\ statusDoor[1].of # NoProjection =>
             \/ projected'.of = statusDoor[1].of /\ ~projected'.lost
             \/ projected'.of = projected.of /\ projected'.lost
    BY <1>5, DoorMoves
  <2>2. CASE \E p \in asked : p.sequence = sequence
    BY <2>1, <2>2 DEF NewestIsSomewhere
  <2>3. CASE \E i \in 1 .. Len(statusDoor) : i # 1 /\ statusDoor[i].of.sequence = sequence
    <3>1. PICK i \in 1 .. Len(statusDoor) : i # 1 /\ statusDoor[i].of.sequence = sequence
      BY <2>3
    <3>2. i - 1 \in 1 .. Len(statusDoor') /\ statusDoor'[i - 1].of.sequence = sequence'
      BY <2>1, <3>1
    <3> QED
      BY <3>2 DEF NewestIsSomewhere
  <2>4. CASE statusDoor[1].of.sequence = sequence /\ sequence > 0
    <3>1. statusDoor[1].of # NoProjection
      BY <2>4, WritersTyped
    <3>2. CASE \E i \in 1 .. Len(statusDoor') : statusDoor'[i].of # NoProjection
      <4>1. PICK i \in 1 .. Len(statusDoor') : statusDoor'[i].of # NoProjection
        BY <3>2
      <4>2. i + 1 \in 1 .. Len(statusDoor) /\ 1 \in 1 .. i + 1 /\ statusDoor[i + 1] \in DoorEntries
        BY <2>1, WritersTyped
      <4>3. statusDoor[i + 1].of.sequence \in Nat
        BY <4>2, WritersTyped DEF DoorEntries
      <4>4. /\ statusDoor[1].of.sequence <= statusDoor[i + 1].of.sequence
            /\ statusDoor[i + 1].of.sequence <= sequence
        BY <2>1, <3>1, <4>1, <4>2 DEF InOrder
      <4>5. statusDoor'[i].of.sequence = sequence'
        BY <1>0, <2>1, <2>4, <4>3, <4>4
      <4> QED
        BY <4>5 DEF NewestIsSomewhere
    <3>3. CASE \A i \in 1 .. Len(statusDoor') : statusDoor'[i].of = NoProjection
      BY <2>1, <2>4, <3>1, <3>3 DEF NewestIsSomewhere
    <3> QED
      BY <3>2, <3>3
  <2>5. CASE /\ \A i \in 1 .. Len(statusDoor) : statusDoor[i].of = NoProjection
             /\ projected.of.sequence = sequence \/ projected.lost
    <3>1. \A i \in 1 .. Len(statusDoor') : i + 1 \in 1 .. Len(statusDoor)
      BY <2>1
    <3>2. 1 \in 1 .. Len(statusDoor)
      BY <2>1
    <3> QED
      BY <2>1, <2>5, <3>1, <3>2 DEF NewestIsSomewhere
  <2>6. CASE ~(sequence > 0)
    BY <2>1, <2>6 DEF NewestIsSomewhere
  <2> QED
    BY <2>2, <2>3, <2>4, <2>5, <2>6 DEF NewestIsSomewhere
<1> QED
  BY <1>1, <1>2, <1>3, <1>4, <1>5, StepKinds

\* A registration goes on waiting for the releases before it.
LEMMA ReleaseStep ==
  StatusTypeOK /\ ReleaseBeforeRegistration /\ [StatusNext]_statusVars => ReleaseBeforeRegistration'
<1> SUFFICES ASSUME StatusTypeOK, ReleaseBeforeRegistration, [StatusNext]_statusVars
             PROVE  ReleaseBeforeRegistration'
  OBVIOUS
<1>1. CASE Enable
  BY <1>1 DEF Enable, ReleaseBeforeRegistration
<1>2. CASE Disable
  BY <1>2 DEF Disable, ReleaseBeforeRegistration
<1>3. CASE ReleaseEnds
  BY <1>3 DEF ReleaseEnds, ReleaseBeforeRegistration, StatusTypeOK
<1>4. CASE RegistrationEnds
  BY <1>4 DEF RegistrationEnds, ReleaseBeforeRegistration
<1>5. CASE UNCHANGED <<runtimeOn, registering, releasing>>
  BY <1>5 DEF ReleaseBeforeRegistration
<1>6. CASE SettleFires \/ Resumes \/ Recording \/ DoorCommits \/ DoorFails
           \/ (\E p \in asked : ProjectionAnswered(p)) \/ (\E closed \in BOOLEAN : NativeRecords(closed))
           \/ UNCHANGED statusVars
  BY <1>5, <1>6 DEF SettleFires, Resumes, Recording, RecordAttempt, RecordSuccess, DoorCommits,
     DoorFails, ProjectionAnswered, NativeRecords, statusVars, runtimeHook
<1> QED
  BY <1>1, <1>2, <1>3, <1>4, <1>6 DEF StatusNext, Recording

\* A projection asked for with the runtime as it is becomes the newest, and is current.
LEMMA ProjectIsCurrent ==
  ASSUME StatusTypeOK, InOrder, NEW closure \in BOOLEAN, Project(closure),
         UNCHANGED <<statusDoor, projected>>, Quiet' => closure = runtimeOn'
  PROVE  NewestIsCurrent'
<1>1. sequence \in Nat /\ sequence' = sequence + 1
  BY WritersTyped DEF Project
<1>2. \A p \in asked : p.sequence \in Nat /\ p.sequence <= sequence
  BY WritersTyped DEF InOrder
<1>3. \A p \in asked' : p.sequence = sequence' => p.on = closure
  BY <1>1, <1>2 DEF Project
<1>4. \A i \in 1 .. Len(statusDoor) : statusDoor[i].of # NoProjection =>
        statusDoor[i].of.sequence # sequence'
  <2> SUFFICES ASSUME NEW i \in 1 .. Len(statusDoor), statusDoor[i].of # NoProjection
               PROVE  statusDoor[i].of.sequence # sequence'
    OBVIOUS
  <2>1. statusDoor[i].of.sequence \in Nat
    BY WritersTyped DEF DoorEntries
  <2> QED
    BY <1>1, <2>1 DEF InOrder
<1>5. projected.of.sequence # sequence'
  <2>1. projected.of.sequence \in Nat
    BY WritersTyped
  <2> QED
    BY <1>1, <2>1 DEF InOrder
<1> QED
  BY <1>3, <1>4, <1>5 DEF NewestIsCurrent

\* A step of no projection keeps the newest current as long as the hook stays as it is.
LEMMA CurrentStays ==
  ASSUME StatusTypeOK, NewestIsCurrent, UNCHANGED runtimeHook,
         Elsewhere \/ Answering \/ Recording \/ DoorCommits \/ DoorFails
  PROVE  NewestIsCurrent'
<1>0. statusDoor \in Seq(DoorEntries) /\ (Quiet' <=> Quiet) /\ runtimeOn' = runtimeOn
  BY DEF StatusTypeOK, DoorEntries, Quiet, runtimeHook
<1>1. CASE Elsewhere
  BY <1>0, <1>1 DEF Elsewhere, NewestIsCurrent
<1>2. CASE Answering
  <2>1. PICK p \in asked : ProjectionAnswered(p)
    BY <1>2 DEF Answering
  <2>2. asked' = asked \ {p} /\ sequence' = sequence /\ projected' = projected
    BY <2>1, AnsweringFacts
  <2>3. CASE statusDoor' = statusDoor
    BY <1>0, <2>2, <2>3 DEF NewestIsCurrent
  <2>4. CASE \E e \in DoorEntries : e.of = p /\ statusDoor' = Append(statusDoor, e)
    <3>1. PICK e \in DoorEntries : e.of = p /\ statusDoor' = Append(statusDoor, e)
      BY <2>4
    <3>2. /\ Len(statusDoor) \in Nat /\ Len(statusDoor') = Len(statusDoor) + 1
          /\ \A i \in 1 .. Len(statusDoor) : statusDoor'[i] = statusDoor[i]
          /\ statusDoor'[Len(statusDoor) + 1].of = p
      BY <1>0, <3>1, DoorAppended
    <3> QED
      BY <1>0, <2>2, <3>2 DEF NewestIsCurrent
  <2> QED
    BY <2>1, <2>3, <2>4, AnsweringFacts
<1>3. CASE Recording
  <2>1. PICK e \in DoorEntries : e.of = NoProjection /\ statusDoor' = Append(statusDoor, e)
    BY <1>3, RecordingFacts
  <2>2. UNCHANGED <<sequence, asked, projected>>
    BY <1>3, RecordingFacts
  <2>3. /\ Len(statusDoor) \in Nat /\ Len(statusDoor') = Len(statusDoor) + 1
        /\ \A i \in 1 .. Len(statusDoor) : statusDoor'[i] = statusDoor[i]
        /\ statusDoor'[Len(statusDoor) + 1].of = NoProjection
    BY <1>0, <2>1, DoorAppended
  <2> QED
    BY <1>0, <2>2, <2>3 DEF NewestIsCurrent
<1>4. CASE DoorCommits \/ DoorFails
  <2>1. /\ sequence' = sequence /\ asked' = asked
        /\ Len(statusDoor) \in Nat /\ Len(statusDoor) > 0 /\ Len(statusDoor') = Len(statusDoor) - 1
        /\ \A i \in 1 .. Len(statusDoor') : statusDoor'[i] = statusDoor[i + 1]
        /\ \/ projected'.of = projected.of
           \/ projected'.of = statusDoor[1].of /\ statusDoor[1].of # NoProjection
    BY <1>4, DoorMoves
  <2>2. /\ \A i \in 1 .. Len(statusDoor') : i + 1 \in 1 .. Len(statusDoor)
        /\ 1 \in 1 .. Len(statusDoor)
    BY <2>1
  <2> QED
    BY <1>0, <2>1, <2>2 DEF NewestIsCurrent
<1> QED
  BY <1>1, <1>2, <1>3, <1>4

\* Every step keeps the newest projection current.
LEMMA CurrentStep ==
  StatusInv /\ [StatusNext]_statusVars => NewestIsCurrent'
<1> SUFFICES ASSUME StatusInv, [StatusNext]_statusVars
             PROVE  NewestIsCurrent'
  OBVIOUS
<1> USE DEF StatusInv
<1>1. CASE Enable
  BY <1>1, ProjectIsCurrent DEF Enable
<1>2. CASE Disable
  <2>1. ~Quiet'
    BY <1>2 DEF Disable, Quiet, StatusTypeOK
  <2> QED
    BY <2>1 DEF NewestIsCurrent
<1>3. CASE ReleaseEnds
  <2>1. Quiet' => ~runtimeOn'
    BY <1>3 DEF ReleaseEnds, Quiet, ReleaseBeforeRegistration, StatusTypeOK
  <2>2. Quiet' => FALSE = runtimeOn'
    BY <1>3, <2>1 DEF ReleaseEnds, StatusTypeOK
  <2> QED
    BY <1>3, <2>2, ProjectIsCurrent DEF ReleaseEnds
<1>4. CASE RegistrationEnds
  BY <1>4 DEF RegistrationEnds, Quiet, NewestIsCurrent
<1>5. CASE SettleFires
  <2>1. TRUE = runtimeOn'
    BY <1>5 DEF SettleFires, StatusTypeOK
  <2> QED
    BY <1>5, <2>1, ProjectIsCurrent DEF SettleFires
<1>6. CASE Resumes
  <2>1. TRUE = runtimeOn'
    BY <1>6 DEF Resumes, StatusTypeOK, runtimeHook
  <2> QED
    BY <1>6, <2>1, ProjectIsCurrent DEF Resumes
<1>7. CASE Answering
  BY <1>7, CurrentStays, AnsweringFacts DEF Answering
<1>8. CASE Recording
  BY <1>8, CurrentStays, RecordingFacts
<1>9. CASE DoorCommits \/ DoorFails
  BY <1>9, CurrentStays, DoorMoves
<1>10. CASE (\E closed \in BOOLEAN : NativeRecords(closed)) \/ UNCHANGED statusVars
  <2>1. UNCHANGED runtimeHook /\ Elsewhere
    BY <1>10 DEF NativeRecords, statusVars, Elsewhere
  <2> QED
    BY <2>1, CurrentStays
<1> QED
  BY <1>1, <1>2, <1>3, <1>4, <1>5, <1>6, <1>7, <1>8, <1>9, <1>10 DEF StatusNext, Answering, Recording

-----------------------------------------------------------------------------
(* The theorems.                                                            *)

\* The invariant holds when the app starts.
LEMMA StatusStart == StatusInit => StatusInv
<1> SUFFICES ASSUME StatusInit
             PROVE  StatusInv
  OBVIOUS
<1>1. StatusTypeOK
  <2>1. /\ releasing \in 0 .. MaxRelease /\ 0 \in 0 .. MaxProjection /\ 0 \in 0 .. MaxInstant
        /\ <<>> \in Seq([row : StatusRows, of : Writers])
    BY StatusAssumption DEF StatusInit
  <2>2. statusRow \in StatusRows
    BY <2>1 DEF StatusInit, StatusRows, Registrations
  <2>3. projected \in [of : Writers, lost : BOOLEAN]
    BY DEF StatusInit, Writers
  <2> QED
    BY <2>1, <2>2, <2>3 DEF StatusInit, StatusTypeOK
<1>2. Len(statusDoor) = 0 /\ 1 .. 0 = {}
  BY DEF StatusInit
<1>3. InOrder
  BY <1>2 DEF StatusInit, InOrder, NoProjection
<1>4. NewestIsSomewhere /\ NewestIsCurrent /\ ReleaseBeforeRegistration
  BY <1>2 DEF StatusInit, NewestIsSomewhere, NewestIsCurrent, ReleaseBeforeRegistration
<1> QED
  BY <1>1, <1>3, <1>4 DEF StatusInv

\* Every step keeps the invariant.
LEMMA StatusStep == StatusInv /\ [StatusNext]_statusVars => StatusInv'
BY StatusTypeStep, OrderStep, NewestStep, CurrentStep, ReleaseStep DEF StatusInv

\* The inductive invariant of the runtime status.
LEMMA StatusInductive == StatusSpec => []StatusInv
BY StatusStart, StatusStep, PTL DEF StatusSpec

\* The row, its queue at the door and what the hook has under way keep their types.
THEOREM StatusTyped == StatusSpec => []StatusTypeOK
<1>1. StatusInv => StatusTypeOK
  BY DEF StatusInv
<1> QED
  BY <1>1, StatusInductive, PTL

\* A projection that asked earlier never writes over one that asked later.
THEOREM StatusOrdered == StatusSpec => ProjectionsInOrder
<1>1. StatusInv /\ [StatusNext]_statusVars => [projected'.of.sequence >= projected.of.sequence]_statusVars
  BY OrderStep DEF StatusInv
<1> QED
  BY <1>1, StatusInductive, PTL DEF StatusSpec, ProjectionsInOrder

\* Once nothing is pending, the row holds a projection of the runtime as it is.
THEOREM StatusCurrent == StatusSpec => []RowOfThisRuntime
<1>1. StatusInv => RowOfThisRuntime
  <2> SUFFICES ASSUME StatusInv, Quiet, asked = {}, statusDoor = <<>>,
                      projected.of # NoProjection, ~projected.lost
               PROVE  projected.of.on = runtimeOn
    BY DEF RowOfThisRuntime, Quiet
  <2>1. projected.of.sequence > 0 /\ projected.of.sequence <= sequence /\ sequence \in Nat
    BY WritersTyped DEF StatusInv, InOrder
  <2>2. projected.of.sequence \in Nat
    BY WritersTyped DEF StatusInv
  <2>3. sequence > 0 /\ Len(statusDoor) = 0 /\ 1 .. 0 = {}
    BY <2>1, <2>2
  <2>4. projected.of.sequence = sequence
    BY <2>3 DEF StatusInv, NewestIsSomewhere
  <2> QED
    BY <2>4 DEF StatusInv, NewestIsCurrent
<1> QED
  BY <1>1, StatusInductive, PTL

(***************************************************************************)
(* A chapter button, and the row its card shows.                           *)
(***************************************************************************)

\* The rows a gesture or another writer can leave, with no bound on what is counted, and the
\* intents over them.
AnyRows == [seen : Nat, estado : {0, 1}]
Intents == [id : Presses, base : AnyRows, projected : AnyRows]

\* The n-th value of the accepted intents from a row on; in a chain each starts where the one
\* before it ended.
ValueAfter(from, intents, n) == IF n = 0 THEN from ELSE intents[n].projected
Chained(from, intents) ==
  \A n \in 1 .. Len(intents) : intents[n].base = ValueAfter(from, intents, n - 1)

\* The types, with no bound on the rows nor on the lengths.
Writes == {"none", "queued", "open", "committed", "absent", "failed"}
Acts == [gesture : Gestures \cup {"none"}, write : Writes, caller : {"none", "waiting", "told"}]
ChapterShape ==
  /\ row \in AnyRows \cup {Missing} /\ durable \in AnyRows \cup {Missing}
  /\ listRead \in AnyRows \cup {Missing}
  /\ open \subseteq Presses /\ door \in Seq(Presses)
  /\ action \in [Presses -> Acts]
  /\ entries \in Seq(Intents)
  /\ remotes \in Nat /\ disturbed \in BOOLEAN

Committed(p) == action[p].write = "committed"
InDoor(p) == \E i \in 1 .. Len(door) : door[i] = p

\* Writes settle in the order of the gestures: the door holds later gestures behind earlier
\* ones, the open transaction is of an earlier gesture than any in the door, and nothing
\* commits before an earlier write is over.
WritesInOrder ==
  /\ \A p \in Presses : /\ action[p].write = "queued" <=> InDoor(p)
                        /\ action[p].write = "open" <=> p \in open
                        /\ action[p].caller = "waiting" => Waiting(p)
                        /\ Waiting(p) \/ Committed(p) => action[p].gesture \in Gestures
  /\ \A i, j \in 1 .. Len(door) : i < j => door[i] < door[j]
  /\ \A p \in open : /\ \A i \in 1 .. Len(door) : p < door[i]
                     /\ \A q \in open : q = p
  /\ \A p, q \in Presses : /\ p < q /\ action[q] # Unpressed => action[p] # Unpressed
                           /\ Committed(p) /\ Waiting(q) => p < q

\* An intent stands while its write may still land with its caller waiting, or has landed.
Stands(a) == a.write = "committed" \/ (a.write \in {"queued", "open"} /\ a.caller = "waiting")

\* The intents are of rising gestures that stand, each patched by its own gesture, and they
\* form a chain from the row the list rendered.
EntriesInOrder ==
  /\ \A i, j \in 1 .. Len(entries) : i < j => entries[i].id < entries[j].id
  /\ \A i \in 1 .. Len(entries) :
       LET e == entries[i] IN
       /\ Stands(action[e.id])
       /\ e.projected = Patched(e.base, action[e.id].gesture)
  /\ durable # Missing => Chained(durable, entries)
  /\ durable = Missing => listRead = Missing
  /\ listRead = Missing => row = Missing

\* A write that will land with its caller waiting, as will those before it; one that shows no
\* intent; the place of a gesture among the intents.
Live(p) == Waiting(p) /\ \A q \in 1 .. p : Waiting(q) => action[q].caller = "waiting"
Unshown(p) == \A i \in 1 .. Len(entries) : entries[i].id # p
Splits(p, j) == \A i \in 1 .. Len(entries) : IF i <= j THEN entries[i].id < p ELSE p < entries[i].id

\* A gesture that shows nothing changes nothing of the value at its place in the chain.
NoOps ==
  \A p \in Presses : Live(p) /\ Unshown(p) =>
    \A j \in 0 .. Len(entries) : Splits(p, j) =>
      Patched(ValueAfter(durable, entries, j), action[p].gesture) = ValueAfter(durable, entries, j)

\* The row is where the chain is after k intents; or another writer moved it while nothing was
\* shown, and the gestures that still wait leave it where it is.
Landed(k) == row = ValueAfter(durable, entries, k) /\ NoOps
Gap ==
  /\ remotes > 0 /\ entries = <<>>
  /\ \A p \in Presses : Live(p) => Patched(row, action[p].gesture) = row

\* The first k intents are those whose writes are over.  The row follows them, and what the
\* list has read of it is an earlier value of the same chain.
CommittedUpTo(k) == \A i \in 1 .. Len(entries) : IF i <= k THEN Committed(entries[i].id) ELSE Waiting(entries[i].id)
RowFollows ==
  ~disturbed /\ row # Missing =>
    \E k \in 0 .. Len(entries) :
      /\ CommittedUpTo(k)
      /\ Landed(k) \/ Gap
      /\ remotes = 0 => Landed(k) /\ \E i \in 0 .. k : listRead = ValueAfter(durable, entries, i)

ChapterInv == ChapterShape /\ WritesInOrder /\ EntriesInOrder /\ RowFollows

\* A set that has 0, and each number up to m whose predecessor it has, has them all.
LEMMA CountsUp ==
  ASSUME NEW m \in Nat, NEW H, 0 \in H, \A n \in 1 .. m : n - 1 \in H => n \in H
  PROVE  0 .. m \subseteq H
<1> DEFINE T == (0 .. m) \ H
<1> SUFFICES ASSUME T # {} PROVE FALSE
  OBVIOUS
<1>1. T \subseteq Nat
  OBVIOUS
<1> HIDE DEF T
<1>2. PICK x \in T : \A y \in T : x <= y
  BY <1>1, LeastNatural
<1> USE DEF T
<1>3. x \in 1 .. m /\ x \notin H
  OBVIOUS
<1>4. x - 1 \in 0 .. m /\ ~(x <= x - 1)
  BY <1>3
<1>5. x - 1 \in H
  BY <1>2, <1>4
<1> QED BY <1>3, <1>5

\* Where the chain has the value r, if anywhere.
LEMMA FirstMet ==
  ASSUME NEW from, NEW s \in Seq(Intents), NEW r
  PROVE  \E m \in 0 .. Len(s) :
           /\ \A i \in 0 .. Len(s) : i < m => ValueAfter(from, s, i) # r
           /\ m = Len(s) \/ ValueAfter(from, s, m) = r
<1> DEFINE T == {i \in 0 .. Len(s) : i = Len(s) \/ ValueAfter(from, s, i) = r}
<1>1. Len(s) \in Nat
  OBVIOUS
<1>2. T \subseteq Nat /\ T # {}
  BY <1>1
<1>3. PICK m \in T : \A y \in T : m <= y
  BY <1>2, LeastNatural
<1>4. ASSUME NEW i \in 0 .. Len(s), i < m PROVE ValueAfter(from, s, i) # r
  BY <1>1, <1>3, <1>4
<1> QED BY <1>3, <1>4

\* Over a row that is a value of the chain the fold keeps the intents after its first
\* occurrence and ends at the chain's end; over any other row it keeps none and ends there.
LEMMA FoldOfChain ==
  ASSUME NEW from, NEW s \in Seq(Intents), Chained(from, s), NEW r,
         NEW m \in 0 .. Len(s),
         \A i \in 0 .. Len(s) : i < m => ValueAfter(from, s, i) # r,
         m = Len(s) \/ ValueAfter(from, s, m) = r
  PROVE  /\ Fold(s, r).value = IF m = Len(s) THEN r ELSE ValueAfter(from, s, Len(s))
         /\ Fold(s, r).kept = SubSeq(s, m + 1, Len(s))
<1> DEFINE n == Len(s)
           Start == [value |-> r, kept |-> <<>>]
           Goes(j) == [value |-> ValueAfter(from, s, j), kept |-> SubSeq(s, m + 1, j)]
           AfterFirst(j) == IF j <= m THEN Start ELSE Goes(j)
           h == [j \in 0 .. Len(s) |-> AfterFirst(j)]
           Step(x, j) == IF Applies(x, s[j])
                         THEN [value |-> s[j].projected, kept |-> Append(x.kept, s[j])]
                         ELSE x
           Rec(k) == [j \in 0 .. Len(s) |->
                        IF j = 0 THEN [value |-> r, kept |-> <<>>]
                        ELSE IF Applies(k[j - 1], s[j])
                             THEN [value |-> s[j].projected, kept |-> Append(k[j - 1].kept, s[j])]
                             ELSE k[j - 1]]
<1>1. n \in Nat /\ m \in Nat /\ m <= n
  OBVIOUS
<1>2. Fold(s, r) = (CHOOSE k : k = Rec(k))[Len(s)]
  BY DEF Fold
<1>3. \A k : Rec(k) = [j \in 0 .. n |-> IF j = 0 THEN Start ELSE Step(k[j - 1], j)]
  OBVIOUS
<1>4. ASSUME NEW j \in 1 .. n, j <= m PROVE Step(Start, j) = Start
  <2>1. s[j].base = ValueAfter(from, s, j - 1) /\ j - 1 \in 0 .. n /\ j - 1 < m
    BY <1>1, <1>4 DEF Chained
  <2>2. ~Applies(Start, s[j])
    BY <2>1 DEF Applies
  <2> QED BY <2>2
<1>5. ASSUME NEW j \in 1 .. n, m < j, NEW x,
             x.value = ValueAfter(from, s, j - 1), x.kept = SubSeq(s, m + 1, j - 1)
      PROVE  Step(x, j) = Goes(j)
  <2>1. Applies(x, s[j])
    BY <1>5 DEF Chained, Applies
  <2>2. ValueAfter(from, s, j) = s[j].projected
    BY DEF ValueAfter
  <2>3. Append(SubSeq(s, m + 1, j - 1), s[j]) = SubSeq(s, m + 1, j)
    BY <1>1, <1>5, SubSeqRecursiveSecond
  <2> QED BY <1>5, <2>1, <2>2, <2>3
<1>6. ASSUME NEW j \in 1 .. n, m < j PROVE Step(AfterFirst(j - 1), j) = Goes(j)
  <2>1. CASE j - 1 <= m
    <3>1. m = j - 1 /\ ValueAfter(from, s, j - 1) = r
      BY <1>1, <1>6, <2>1
    <3>2. SubSeq(s, m + 1, j - 1) = <<>>
      BY <1>1, <3>1
    <3>3. AfterFirst(j - 1) = Start
      BY <2>1
    <3>4. Start.value = r /\ Start.kept = <<>>
      OBVIOUS
    <3> HIDE DEF Start, Goes, Step, AfterFirst
    <3> QED BY <1>5, <1>6, <3>1, <3>2, <3>3, <3>4
  <2>2. CASE ~(j - 1 <= m)
    <3>1. AfterFirst(j - 1) = Goes(j - 1)
      BY <2>2
    <3>2. Goes(j - 1).value = ValueAfter(from, s, j - 1) /\ Goes(j - 1).kept = SubSeq(s, m + 1, j - 1)
      OBVIOUS
    <3> HIDE DEF Start, Goes, Step, AfterFirst
    <3> QED BY <1>5, <1>6, <3>1, <3>2
  <2> QED BY <2>1, <2>2
<1>7. \A j \in 1 .. n : Step(AfterFirst(j - 1), j) = AfterFirst(j)
  <2> SUFFICES ASSUME NEW j \in 1 .. n PROVE Step(AfterFirst(j - 1), j) = AfterFirst(j)
    OBVIOUS
  <2>1. CASE j <= m
    <3>1. AfterFirst(j - 1) = Start /\ AfterFirst(j) = Start
      BY <1>1, <2>1
    <3> HIDE DEF Start, Step, AfterFirst
    <3> QED BY <1>4, <2>1, <3>1
  <2>2. CASE ~(j <= m)
    <3>1. AfterFirst(j) = Goes(j) /\ m < j
      BY <1>1, <2>2
    <3> HIDE DEF Goes, Step, AfterFirst
    <3> QED BY <1>6, <3>1
  <2> QED BY <2>1, <2>2
<1>8. AfterFirst(0) = Start
  BY <1>1
<1>9. h = Rec(h)
  <2> HIDE DEF Start, Step, AfterFirst, Goes, Rec
  <2>1. \A j \in 0 .. n : AfterFirst(j) = IF j = 0 THEN Start ELSE Step(h[j - 1], j)
    <3> SUFFICES ASSUME NEW j \in 0 .. n PROVE AfterFirst(j) = IF j = 0 THEN Start ELSE Step(h[j - 1], j)
      OBVIOUS
    <3>1. CASE j = 0
      BY <1>8, <3>1
    <3>2. CASE j # 0
      <4>1. j \in 1 .. n /\ j - 1 \in 0 .. n
        BY <1>1, <3>2
      <4>2. h[j - 1] = AfterFirst(j - 1)
        BY <4>1
      <4> QED BY <1>7, <3>2, <4>1, <4>2
    <3> QED BY <3>1, <3>2
  <2> QED BY <1>3, <2>1
<1> DEFINE g == CHOOSE k : k = Rec(k)
<1>10. g = Rec(g)
  <2> HIDE DEF Rec, h
  <2> QED BY <1>9
<1>11. g[0] = Start /\ \A j \in 1 .. n : g[j] = Step(g[j - 1], j)
  <2> HIDE DEF Start, Step, Rec, g
  <2>1. g = [j \in 0 .. n |-> IF j = 0 THEN Start ELSE Step(g[j - 1], j)]
    BY <1>3, <1>10
  <2>2. \A j \in 0 .. n : g[j] = IF j = 0 THEN Start ELSE Step(g[j - 1], j)
    BY <2>1
  <2> QED BY <1>1, <2>2
<1>12. g[n] = AfterFirst(n)
  <2> HIDE DEF Start, Step, AfterFirst, g
  <2> DEFINE H == {j \in Nat : g[j] = AfterFirst(j)}
  <2>1. 0 \in H
    BY <1>8, <1>11
  <2>2. \A j \in 1 .. n : j - 1 \in H => j \in H
    BY <1>1, <1>7, <1>11
  <2> HIDE DEF H
  <2>3. 0 .. n \subseteq H
    BY <1>1, <2>1, <2>2, CountsUp
  <2>4. n \in H
    BY <1>1, <2>3
  <2> QED BY <2>4 DEF H
<1>13. Fold(s, r) = AfterFirst(n)
  <2> HIDE DEF AfterFirst, Rec
  <2> QED BY <1>2, <1>12
<1>14. CASE m = n
  <2>1. Fold(s, r) = Start
    BY <1>1, <1>13, <1>14
  <2>2. SubSeq(s, m + 1, n) = <<>>
    BY <1>1, <1>14
  <2>3. Start.value = r /\ Start.kept = <<>>
    OBVIOUS
  <2> HIDE DEF Start
  <2> QED BY <2>1, <2>2, <2>3, <1>14
<1>15. CASE m # n
  <2>1. Fold(s, r) = Goes(n)
    BY <1>1, <1>13, <1>15
  <2>2. Goes(n).value = ValueAfter(from, s, n) /\ Goes(n).kept = SubSeq(s, m + 1, n)
    OBVIOUS
  <2> HIDE DEF Goes
  <2> QED BY <2>1, <2>2, <1>15
<1> QED BY <1>14, <1>15

\* The larger of 0 and an integer.
LEMMA MaxWithZero == ASSUME NEW x \in Int PROVE Max({0, x}) \in Nat
<1> DEFINE y == IF x >= 0 THEN x ELSE 0
<1>1. y \in {0, x} /\ \A z \in {0, x} : y >= z
  OBVIOUS
<1>2. Max({0, x}) \in {0, x} /\ \A z \in {0, x} : Max({0, x}) >= z
  BY <1>1 DEF Max
<1> QED BY <1>2

\* A patch keeps the row in range.
LEMMA PatchedTyped ==
  ASSUME NEW r \in AnyRows, NEW g \in Gestures
  PROVE  Patched(r, g) \in AnyRows
<1>1. g \in AllGestures
  BY ChapterAssumption
<1>2. r.seen \in Nat /\ r.estado \in {0, 1} /\ TotalChapters \in Nat
  BY ChapterAssumption DEF AnyRows
<1>3. Max({0, r.seen - 2}) \in Nat /\ Max({0, r.seen - 1}) \in Nat
  BY <1>2, MaxWithZero
<1>4. CASE g = "plus"
  BY <1>2, <1>4 DEF Patched, AnyRows
<1>5. CASE g = "plusHalf"
  BY <1>2, <1>5 DEF Patched, AnyRows
<1>6. CASE g = "minus"
  <2>1. Patched(r, g) = [seen |-> Max({0, r.seen - 2}), estado |-> IF Reopens(r) THEN 0 ELSE r.estado]
    BY <1>6 DEF Patched
  <2> QED BY <1>2, <1>3, <2>1 DEF AnyRows
<1>7. CASE g = "minusHalf"
  <2>1. Patched(r, g) = [seen |-> Max({0, r.seen - 1}), estado |-> IF Reopens(r) THEN 0 ELSE r.estado]
    BY <1>7 DEF Patched
  <2> QED BY <1>2, <1>3, <2>1 DEF AnyRows
<1>8. CASE g = "finish"
  BY <1>2, <1>8 DEF Patched, AnyRows
<1>9. CASE g = "reopen"
  BY <1>2, <1>9 DEF Patched, AnyRows
<1> QED BY <1>1, <1>4, <1>5, <1>6, <1>7, <1>8, <1>9 DEF AllGestures

\* Every value of a chain is a row.
LEMMA ValueTyped ==
  ASSUME NEW from \in AnyRows, NEW s \in Seq(Intents), NEW i \in 0 .. Len(s)
  PROVE  ValueAfter(from, s, i) \in AnyRows
<1>1. i # 0 => s[i] \in Intents
  OBVIOUS
<1> QED BY <1>1 DEF ValueAfter, Intents

\* A beginning of the accepted intents.
LEMMA PrefixFacts ==
  ASSUME NEW s \in Seq(Intents), NEW l \in 0 .. Len(s)
  PROVE  /\ SubSeq(s, 1, l) \in Seq(Intents) /\ Len(SubSeq(s, 1, l)) = l
         /\ \A i \in 1 .. l : SubSeq(s, 1, l)[i] = s[i]
         /\ \A from : \A i \in 0 .. l : ValueAfter(from, SubSeq(s, 1, l), i) = ValueAfter(from, s, i)
<1>1. Len(s) \in Nat /\ l \in Nat /\ l <= Len(s)
  OBVIOUS
<1>2. SubSeq(s, 1, l) \in Seq(Intents) /\ Len(SubSeq(s, 1, l)) = l
  BY <1>1
<1>3. \A i \in 1 .. l : SubSeq(s, 1, l)[i] = s[i]
  BY <1>1
<1>4. ASSUME NEW from, NEW i \in 0 .. l PROVE ValueAfter(from, SubSeq(s, 1, l), i) = ValueAfter(from, s, i)
  BY <1>1, <1>3 DEF ValueAfter
<1> QED BY <1>2, <1>3, <1>4

\* An ending of the accepted intents.
LEMMA SuffixFacts ==
  ASSUME NEW s \in Seq(Intents), NEW m \in 0 .. Len(s) - 1
  PROVE  /\ SubSeq(s, m + 1, Len(s)) \in Seq(Intents)
         /\ Len(SubSeq(s, m + 1, Len(s))) = Len(s) - m
         /\ \A i \in 1 .. Len(s) - m : SubSeq(s, m + 1, Len(s))[i] = s[m + i]
<1>1. Len(s) \in Nat /\ m \in Nat /\ m < Len(s)
  OBVIOUS
<1>2. SubSeq(s, m + 1, Len(s)) \in Seq(Intents) /\ Len(SubSeq(s, m + 1, Len(s))) = Len(s) - m
  BY <1>1
<1>3. ASSUME NEW i \in 1 .. Len(s) - m PROVE SubSeq(s, m + 1, Len(s))[i] = s[m + i]
  BY <1>1, <1>3
<1> QED BY <1>2, <1>3

\* A failed gesture takes its intent and those after it.
LEMMA DroppedIsPrefix ==
  ASSUME entries \in Seq(Intents), NEW p
  PROVE  \E l \in 0 .. Len(entries) :
           /\ Dropped(p) = SubSeq(entries, 1, l)
           /\ l < Len(entries) => entries[l + 1].id = p
           /\ \A i \in 1 .. l : entries[i].id # p
<1> DEFINE at == {i \in DOMAIN entries : entries[i].id = p}
<1>1. Len(entries) \in Nat /\ DOMAIN entries = 1 .. Len(entries)
  OBVIOUS
<1>2. CASE at = {}
  <2>1. Dropped(p) = entries
    BY <1>2 DEF Dropped
  <2>2. SubSeq(entries, 1, Len(entries)) = entries
    OBVIOUS
  <2>3. \A i \in 1 .. Len(entries) : entries[i].id # p
    BY <1>1, <1>2
  <2> HIDE DEF at
  <2>4. Len(entries) \in 0 .. Len(entries) /\ ~(Len(entries) < Len(entries))
    BY <1>1
  <2> QED BY <2>1, <2>2, <2>3, <2>4
<1>3. CASE at # {}
  <2>1. at \subseteq Nat
    BY <1>1
  <2>2. \E x \in at : \A y \in at : x <= y
    BY <1>3, <2>1, LeastNatural
  <2>3. Min(at) \in at /\ \A y \in at : Min(at) <= y
    BY <2>2 DEF Min
  <2> DEFINE l == Min(at) - 1
  <2>4. Dropped(p) = SubSeq(entries, 1, l)
    BY <1>3 DEF Dropped
  <2>5. l \in 0 .. Len(entries) /\ entries[l + 1].id = p
    BY <1>1, <2>1, <2>3
  <2>6. ASSUME NEW i \in 1 .. l PROVE entries[i].id # p
    <3>1. i \in 1 .. Len(entries) /\ ~(Min(at) <= i)
      BY <1>1, <2>1, <2>3
    <3>2. i \notin at
      BY <2>3, <3>1
    <3> QED BY <1>1, <3>1, <3>2
  <2> QED BY <2>4, <2>5, <2>6
<1> QED BY <1>2, <1>3

\* The write of p settles, and its caller is told.
LEMMA SettleEdit ==
  ASSUME action \in [Presses -> Acts], NEW p \in Presses, NEW w \in Writes,
         action' = [action EXCEPT ![p].write = w, ![p].caller = "told"]
  PROVE  /\ action' \in [Presses -> Acts]
         /\ \A q \in Presses \ {p} : action'[q] = action[q]
         /\ action'[p].write = w /\ action'[p].caller = "told"
         /\ action'[p].gesture = action[p].gesture
<1>1. action[p] \in Acts
  OBVIOUS
<1>2. [action[p] EXCEPT !.write = w, !.caller = "told"] \in Acts
  BY <1>1 DEF Acts
<1>3. action' = [action EXCEPT ![p] = [action[p] EXCEPT !.write = w, !.caller = "told"]]
  OBVIOUS
<1> DEFINE x == [action[p] EXCEPT !.write = w, !.caller = "told"]
<1>4. x.write = w /\ x.caller = "told" /\ x.gesture = action[p].gesture
  BY <1>1 DEF Acts
<1> HIDE DEF x
<1>5. action'[p] = x /\ \A q \in Presses \ {p} : action'[q] = action[q]
  BY <1>3 DEF x
<1> QED BY <1>2, <1>3, <1>4, <1>5 DEF x

\* The caller of p is told.
LEMMA CallerEdit ==
  ASSUME action \in [Presses -> Acts], NEW p \in Presses,
         action' = [action EXCEPT ![p].caller = "told"]
  PROVE  /\ action' \in [Presses -> Acts]
         /\ \A q \in Presses \ {p} : action'[q] = action[q]
         /\ action'[p].write = action[p].write /\ action'[p].caller = "told"
         /\ action'[p].gesture = action[p].gesture
<1>1. action[p] \in Acts
  OBVIOUS
<1> DEFINE x == [action[p] EXCEPT !.caller = "told"]
<1>2. x \in Acts /\ x.write = action[p].write /\ x.caller = "told" /\ x.gesture = action[p].gesture
  BY <1>1 DEF Acts
<1>3. action' = [action EXCEPT ![p] = x]
  OBVIOUS
<1> HIDE DEF x
<1>4. action'[p] = x /\ \A q \in Presses \ {p} : action'[q] = action[q]
  BY <1>3
<1> QED BY <1>2, <1>3, <1>4

\* The transaction of p is open.
LEMMA OpenEdit ==
  ASSUME action \in [Presses -> Acts], NEW p \in Presses,
         action' = [action EXCEPT ![p].write = "open"]
  PROVE  /\ action' \in [Presses -> Acts]
         /\ \A q \in Presses \ {p} : action'[q] = action[q]
         /\ action'[p].write = "open" /\ action'[p].caller = action[p].caller
         /\ action'[p].gesture = action[p].gesture
<1>1. action[p] \in Acts
  OBVIOUS
<1> DEFINE x == [action[p] EXCEPT !.write = "open"]
<1>2. x \in Acts /\ x.write = "open" /\ x.caller = action[p].caller /\ x.gesture = action[p].gesture
  BY <1>1 DEF Acts, Writes
<1>3. action' = [action EXCEPT ![p] = x]
  OBVIOUS
<1> HIDE DEF x
<1>4. action'[p] = x /\ \A q \in Presses \ {p} : action'[q] = action[q]
  BY <1>3
<1> QED BY <1>2, <1>3, <1>4

\* The action of p begins.
LEMMA PressEdit ==
  ASSUME action \in [Presses -> Acts], NEW p \in Presses, NEW g \in Gestures,
         action' = [action EXCEPT ![p] = [gesture |-> g, write |-> "queued", caller |-> "waiting"]]
  PROVE  /\ action' \in [Presses -> Acts]
         /\ \A q \in Presses \ {p} : action'[q] = action[q]
         /\ action'[p].write = "queued" /\ action'[p].caller = "waiting" /\ action'[p].gesture = g
         /\ action'[p] # Unpressed
<1> DEFINE x == [gesture |-> g, write |-> "queued", caller |-> "waiting"]
<1>2. x \in Acts /\ x.write = "queued" /\ x.caller = "waiting" /\ x.gesture = g /\ x # Unpressed
  BY DEF Acts, Writes, Unpressed
<1>3. action' = [action EXCEPT ![p] = x]
  OBVIOUS
<1> HIDE DEF x
<1>4. action'[p] = x /\ \A q \in Presses \ {p} : action'[q] = action[q]
  BY <1>3
<1> QED BY <1>2, <1>3, <1>4

\* What every action keeps of an unpressed one.
LEMMA UnpressedFacts ==
  ASSUME NEW p, action[p] = Unpressed
  PROVE  ~Waiting(p) /\ ~Committed(p) /\ action[p].caller # "waiting" /\ action[p].write = "none"
BY DEF Unpressed, Waiting, Committed

\* The head leaves the door.
LEMMA DoorTail ==
  ASSUME door \in Seq(Presses), door # <<>>
  PROVE  /\ Head(door) \in Presses /\ Head(door) = door[1]
         /\ Tail(door) \in Seq(Presses) /\ Len(Tail(door)) = Len(door) - 1 /\ Len(door) \in Nat \ {0}
         /\ \A i \in 1 .. Len(door) - 1 : Tail(door)[i] = door[i + 1]
<1>1. Len(door) \in Nat /\ Len(door) # 0
  OBVIOUS
<1>2. Head(door) = door[1] /\ door[1] \in Presses
  BY <1>1
<1>3. Tail(door) \in Seq(Presses) /\ Len(Tail(door)) = Len(door) - 1
  BY <1>1
<1>4. \A i \in 1 .. Len(door) - 1 : Tail(door)[i] = door[i + 1]
  BY <1>1
<1> QED BY <1>1, <1>2, <1>3, <1>4

\* When the head leaves, the others stay and are later than it.
LEMMA HeadLeaves ==
  ASSUME ChapterShape, WritesInOrder, NEW p, door # <<>>, Head(door) = p, door' = Tail(door)
  PROVE  /\ p \in Presses /\ action[p].write = "queued"
         /\ \A q \in Presses : InDoor(q)' <=> InDoor(q) /\ q # p
         /\ \A i \in 1 .. Len(door') : p < door'[i]
         /\ \A i, j \in 1 .. Len(door') : i < j => door'[i] < door'[j]
         /\ door' \in Seq(Presses) /\ Len(door') \in Nat
<1>1. /\ p \in Presses /\ p = door[1]
      /\ door' \in Seq(Presses) /\ Len(door') = Len(door) - 1 /\ Len(door) \in Nat \ {0}
      /\ \A i \in 1 .. Len(door) - 1 : door'[i] = door[i + 1]
  BY DoorTail DEF ChapterShape
<1>2. \A i, j \in 1 .. Len(door) : i < j => door[i] < door[j]
  BY DEF WritesInOrder
<1>3. InDoor(p) /\ action[p].write = "queued"
  BY <1>1 DEF WritesInOrder, InDoor
<1>4. \A i \in 1 .. Len(door') : p < door'[i]
  <2> SUFFICES ASSUME NEW i \in 1 .. Len(door') PROVE p < door'[i]
    OBVIOUS
  <2>1. 1 \in 1 .. Len(door) /\ i + 1 \in 1 .. Len(door) /\ 1 < i + 1 /\ door'[i] = door[i + 1]
    BY <1>1
  <2> QED BY <1>1, <1>2, <2>1
<1>5. \A i, j \in 1 .. Len(door') : i < j => door'[i] < door'[j]
  <2> SUFFICES ASSUME NEW i \in 1 .. Len(door'), NEW j \in 1 .. Len(door'), i < j
               PROVE  door'[i] < door'[j]
    OBVIOUS
  <2>1. /\ i + 1 \in 1 .. Len(door) /\ j + 1 \in 1 .. Len(door) /\ i + 1 < j + 1
        /\ door'[i] = door[i + 1] /\ door'[j] = door[j + 1]
    BY <1>1
  <2> QED BY <1>2, <2>1
<1>6. ASSUME NEW q \in Presses PROVE InDoor(q)' <=> InDoor(q) /\ q # p
  <2>1. ASSUME InDoor(q)' PROVE InDoor(q) /\ q # p
    <3>1. PICK i \in 1 .. Len(door') : door'[i] = q
      BY <2>1 DEF InDoor
    <3>2. i + 1 \in 1 .. Len(door) /\ door[i + 1] = q
      BY <1>1, <3>1
    <3>3. p < q /\ p \in Int
      BY <1>1, <1>4, <3>1 DEF Presses
    <3>4. q # p
      BY <3>3
    <3> QED BY <3>2, <3>4 DEF InDoor
  <2>2. ASSUME InDoor(q), q # p PROVE InDoor(q)'
    <3>1. PICK i \in 1 .. Len(door) : door[i] = q
      BY <2>2 DEF InDoor
    <3>2. i # 1
      BY <1>1, <2>2, <3>1
    <3>3. i - 1 \in 1 .. Len(door') /\ door'[i - 1] = q
      BY <1>1, <3>1, <3>2
    <3> QED BY <3>3 DEF InDoor
  <2> QED BY <2>1, <2>2
<1> QED BY <1>1, <1>3, <1>4, <1>5, <1>6

\* A write that settles, from the door or from its transaction, leaves the others in order.
LEMMA SettleOrder ==
  ASSUME ChapterShape, WritesInOrder, NEW p \in Presses, NEW w \in {"committed", "absent", "failed"},
         action' = [action EXCEPT ![p].write = w, ![p].caller = "told"],
         \/ /\ door # <<>> /\ Head(door) = p /\ door' = Tail(door) /\ open' = open /\ open = {}
            /\ w # "committed"
         \/ p \in open /\ open' = open \ {p} /\ door' = door
  PROVE  WritesInOrder'
<1>0. Presses \subseteq Int
  BY DEF Presses
<1>1. w \in Writes /\ w \notin {"queued", "open", "none"}
  BY DEF Writes
<1>2. /\ \A q \in Presses \ {p} : action'[q] = action[q]
      /\ action'[p].write = w /\ action'[p].caller = "told"
      /\ action'[p].gesture = action[p].gesture
  BY <1>1, SettleEdit DEF ChapterShape
<1>3. Waiting(p) /\ action[p] # Unpressed /\ action[p].gesture \in Gestures
  <2>1. CASE p \in open
    <3>1. action[p].write = "open"
      BY <2>1 DEF WritesInOrder
    <3> QED BY <3>1 DEF Waiting, Unpressed, WritesInOrder
  <2>2. CASE p \notin open
    <3>1. action[p].write = "queued"
      BY <2>2, HeadLeaves
    <3> QED BY <3>1 DEF Waiting, Unpressed, WritesInOrder
  <2> QED BY <2>1, <2>2
<1>4. action'[p] # Unpressed
  <2>1. action'[p].caller = "told"
    BY <1>2
  <2>2. Unpressed.caller = "none"
    BY DEF Unpressed
  <2>3. action'[p].caller # Unpressed.caller
    BY <2>1, <2>2
  <2> QED BY <2>3, Zenon
<1>5. ASSUME NEW q \in Presses, Waiting(q)', NEW o \in Presses, Committed(o)' PROVE o < q
  <2>1. q # p /\ Waiting(q)
    BY <1>1, <1>2, <1>5 DEF Waiting
  <2>2. CASE o # p
    BY <1>2, <1>5, <2>1, <2>2 DEF Committed, WritesInOrder
  <2>3. CASE o = p
    <3>1. w = "committed" /\ p \in open
      BY <1>2, <1>5, <2>3 DEF Committed
    <3>2. q \notin open
      BY <2>1, <3>1 DEF WritesInOrder
    <3>3. InDoor(q)
      BY <2>1, <3>2 DEF Waiting, WritesInOrder
    <3> QED BY <2>3, <3>1, <3>3 DEF InDoor, WritesInOrder
  <2> QED BY <2>2, <2>3
<1>6. CASE p \in open /\ open' = open \ {p} /\ door' = door
  <2>1. open' = {}
    BY <1>6 DEF WritesInOrder
  <2>2. ~InDoor(p)
    BY <1>0, <1>6 DEF WritesInOrder, InDoor
  <2>3. \A q \in Presses : InDoor(q)' <=> InDoor(q)
    BY <1>6 DEF InDoor
  <2>4. ASSUME NEW q \in Presses
        PROVE  /\ action'[q].write = "queued" <=> InDoor(q)'
               /\ action'[q].write = "open" <=> q \in open'
               /\ action'[q].caller = "waiting" => Waiting(q)'
               /\ Waiting(q)' \/ Committed(q)' => action'[q].gesture \in Gestures
    <3>1. CASE q = p
      BY <1>1, <1>2, <1>3, <2>1, <2>2, <2>3, <3>1 DEF Waiting, Committed
    <3>2. CASE q # p
      <4>1. action'[q] = action[q] /\ (q \in open' <=> q \in open)
        BY <1>2, <1>6, <3>2
      <4> QED BY <2>3, <4>1 DEF Waiting, Committed, WritesInOrder
    <3> QED BY <3>1, <3>2
  <2>5. \A i, j \in 1 .. Len(door') : i < j => door'[i] < door'[j]
    BY <1>6 DEF WritesInOrder
  <2>6. \A q, o \in Presses : q < o /\ action'[o] # Unpressed => action'[q] # Unpressed
    BY <1>2, <1>3, <1>4 DEF WritesInOrder
  <2> QED BY <1>5, <2>1, <2>4, <2>5, <2>6 DEF WritesInOrder
<1>7. CASE door # <<>> /\ Head(door) = p /\ door' = Tail(door) /\ open' = open /\ open = {}
  <2>1. /\ action[p].write = "queued"
        /\ \A q \in Presses : InDoor(q)' <=> InDoor(q) /\ q # p
        /\ \A i, j \in 1 .. Len(door') : i < j => door'[i] < door'[j]
    BY <1>7, HeadLeaves
  <2>4. ASSUME NEW q \in Presses
        PROVE  /\ action'[q].write = "queued" <=> InDoor(q)'
               /\ action'[q].write = "open" <=> q \in open'
               /\ action'[q].caller = "waiting" => Waiting(q)'
               /\ Waiting(q)' \/ Committed(q)' => action'[q].gesture \in Gestures
    <3>1. CASE q = p
      BY <1>1, <1>2, <1>3, <1>7, <2>1, <3>1 DEF Waiting, Committed
    <3>2. CASE q # p
      <4>1. action'[q] = action[q] /\ open' = open
        BY <1>2, <1>7, <3>2
      <4> QED BY <2>1, <3>2, <4>1 DEF Waiting, Committed, WritesInOrder
    <3> QED BY <3>1, <3>2
  <2>6. \A q, o \in Presses : q < o /\ action'[o] # Unpressed => action'[q] # Unpressed
    BY <1>2, <1>3, <1>4 DEF WritesInOrder
  <2> QED BY <1>5, <1>7, <2>1, <2>4, <2>6 DEF WritesInOrder
<1> QED BY <1>6, <1>7

\* So does a transaction that opens.
LEMMA BeginOrder ==
  ASSUME ChapterShape, WritesInOrder, NEW p \in Presses, BeginTransaction(p)
  PROVE  WritesInOrder'
<1>0. Presses \subseteq Int
  BY DEF Presses
<1>1. /\ door # <<>> /\ Head(door) = p /\ open = {} /\ open' = {p} /\ door' = Tail(door)
      /\ action' = [action EXCEPT ![p].write = "open"]
  BY DEF BeginTransaction
<1>2. /\ \A q \in Presses \ {p} : action'[q] = action[q]
      /\ action'[p].write = "open" /\ action'[p].caller = action[p].caller
      /\ action'[p].gesture = action[p].gesture
  BY <1>1, OpenEdit DEF ChapterShape
<1>3. /\ action[p].write = "queued"
      /\ \A q \in Presses : InDoor(q)' <=> InDoor(q) /\ q # p
      /\ \A i \in 1 .. Len(door') : p < door'[i]
      /\ \A i, j \in 1 .. Len(door') : i < j => door'[i] < door'[j]
  BY <1>1, HeadLeaves
<1>4. action'[p] # Unpressed /\ action[p] # Unpressed /\ action[p].gesture \in Gestures
  BY <1>2, <1>3 DEF Unpressed, WritesInOrder, Waiting
<1>5. ASSUME NEW q \in Presses
      PROVE  /\ action'[q].write = "queued" <=> InDoor(q)'
             /\ action'[q].write = "open" <=> q \in open'
             /\ action'[q].caller = "waiting" => Waiting(q)'
             /\ Waiting(q)' \/ Committed(q)' => action'[q].gesture \in Gestures
             /\ Waiting(q)' <=> Waiting(q)
             /\ Committed(q)' <=> Committed(q)
  <2>1. CASE q = p
    BY <1>1, <1>2, <1>3, <1>4, <2>1 DEF Waiting, Committed
  <2>2. CASE q # p
    <3>1. action'[q] = action[q] /\ q \notin open /\ q \notin open'
      BY <1>1, <1>2, <2>2
    <3> QED BY <1>3, <2>2, <3>1 DEF Waiting, Committed, WritesInOrder
  <2> QED BY <2>1, <2>2
<1>6. \A q, o \in Presses : /\ q < o /\ action'[o] # Unpressed => action'[q] # Unpressed
                            /\ Committed(q)' /\ Waiting(o)' => q < o
  <2> SUFFICES ASSUME NEW q \in Presses, NEW o \in Presses
               PROVE  /\ q < o /\ action'[o] # Unpressed => action'[q] # Unpressed
                      /\ Committed(q)' /\ Waiting(o)' => q < o
    OBVIOUS
  <2>1. Committed(q)' /\ Waiting(o)' => q < o
    BY <1>5 DEF WritesInOrder
  <2>2. q < o /\ action'[o] # Unpressed => action'[q] # Unpressed
    BY <1>2, <1>4 DEF WritesInOrder
  <2> QED BY <2>1, <2>2
<1> QED BY <1>1, <1>3, <1>5, <1>6 DEF WritesInOrder

\* So does a deadline, and a gesture that is skipped.
LEMMA ToldOrder ==
  ASSUME ChapterShape, WritesInOrder, NEW p \in Presses,
         action' = [action EXCEPT ![p].caller = "told"], door' = door, open' = open,
         action[p] = Unpressed => \A q \in 1 .. p - 1 : action[q] # Unpressed
  PROVE  WritesInOrder'
<1>0. Presses \subseteq Int /\ \A q \in Presses : q < p => q \in 1 .. p - 1
  BY DEF Presses
<1>1. /\ \A q \in Presses \ {p} : action'[q] = action[q]
      /\ action'[p].write = action[p].write /\ action'[p].caller = "told"
      /\ action'[p].gesture = action[p].gesture
  BY CallerEdit DEF ChapterShape
<1>2. action'[p] # Unpressed
  BY <1>1 DEF Unpressed
<1>3. ASSUME NEW q \in Presses
      PROVE  /\ action'[q].write = action[q].write /\ action'[q].gesture = action[q].gesture
             /\ action'[q].caller = "waiting" => action[q].caller = "waiting"
             /\ Waiting(q)' <=> Waiting(q)
             /\ Committed(q)' <=> Committed(q)
             /\ InDoor(q)' <=> InDoor(q)
  BY <1>1 DEF Waiting, Committed, InDoor
<1>4. \A q \in Presses :
        /\ action'[q].write = "queued" <=> InDoor(q)'
        /\ action'[q].write = "open" <=> q \in open'
        /\ action'[q].caller = "waiting" => Waiting(q)'
        /\ Waiting(q)' \/ Committed(q)' => action'[q].gesture \in Gestures
  BY <1>3 DEF WritesInOrder
<1>5. \A q, o \in Presses : q < o /\ action'[o] # Unpressed => action'[q] # Unpressed
  <2> SUFFICES ASSUME NEW q \in Presses, NEW o \in Presses, q < o, action'[o] # Unpressed
               PROVE  action'[q] # Unpressed
    OBVIOUS
  <2>1. CASE q = p
    BY <1>2, <2>1
  <2>2. CASE o = p
    <3>1. q # p /\ action[q] # Unpressed
      BY <1>0, <2>2 DEF WritesInOrder
    <3> QED BY <1>1, <3>1
  <2>3. CASE q # p /\ o # p
    BY <1>1, <2>3 DEF WritesInOrder
  <2> QED BY <2>1, <2>2, <2>3
<1>6. \A q, o \in Presses : Committed(q)' /\ Waiting(o)' => q < o
  BY <1>3 DEF WritesInOrder
<1>7. /\ \A i, j \in 1 .. Len(door') : i < j => door'[i] < door'[j]
      /\ \A q \in open' : /\ \A i \in 1 .. Len(door') : q < door'[i]
                          /\ \A o \in open' : o = q
  BY DEF WritesInOrder
<1> QED BY <1>4, <1>5, <1>6, <1>7 DEF WritesInOrder

\* The presses before an unpressed one that may be next are those that were pressed.
LEMMA NextIsLast ==
  ASSUME WritesInOrder, NEW p \in Presses, action[p] = Unpressed
  PROVE  \A q \in Presses : action[q] # Unpressed => q < p
<1> SUFFICES ASSUME NEW q \in Presses, action[q] # Unpressed PROVE q < p
  OBVIOUS
<1>1. ~(p < q) /\ q # p
  BY DEF WritesInOrder
<1> QED BY <1>1 DEF Presses

\* And so does a gesture that is queued.
LEMMA PressOrder ==
  ASSUME ChapterShape, WritesInOrder, NEW p \in Presses, NEW g \in Gestures,
         action[p] = Unpressed, \A q \in 1 .. p - 1 : action[q] # Unpressed,
         action' = [action EXCEPT ![p] = [gesture |-> g, write |-> "queued", caller |-> "waiting"]],
         door' = Append(door, p), open' = open
  PROVE  WritesInOrder'
<1>0. Presses \subseteq Int /\ \A q \in Presses : q < p => q \in 1 .. p - 1
  BY DEF Presses
<1>1. /\ \A q \in Presses \ {p} : action'[q] = action[q]
      /\ action'[p].write = "queued" /\ action'[p].caller = "waiting" /\ action'[p].gesture = g
      /\ action'[p] # Unpressed
  BY PressEdit DEF ChapterShape
<1>2. ~Waiting(p) /\ ~Committed(p) /\ action[p].write = "none"
  BY UnpressedFacts
<1>3. /\ Len(door) \in Nat /\ Len(door') = Len(door) + 1 /\ door'[Len(door) + 1] = p
      /\ \A i \in 1 .. Len(door) : door'[i] = door[i] /\ door[i] \in Presses
  BY DEF ChapterShape
<1>4. \A i \in 1 .. Len(door) : door[i] < p
  <2> SUFFICES ASSUME NEW i \in 1 .. Len(door) PROVE door[i] < p
    OBVIOUS
  <2>1. door[i] \in Presses /\ InDoor(door[i])
    BY <1>3 DEF InDoor
  <2>2. action[door[i]].write = "queued"
    BY <2>1 DEF WritesInOrder
  <2>3. action[door[i]] # Unpressed
    BY <2>2 DEF Unpressed
  <2> QED BY <2>1, <2>3, NextIsLast
<1>5. \A q \in Presses : InDoor(q)' <=> (InDoor(q) \/ q = p)
  <2> SUFFICES ASSUME NEW q \in Presses PROVE InDoor(q)' <=> (InDoor(q) \/ q = p)
    OBVIOUS
  <2>1. ASSUME InDoor(q)' PROVE InDoor(q) \/ q = p
    <3>1. PICK i \in 1 .. Len(door') : door'[i] = q
      BY <2>1 DEF InDoor
    <3>2. i = Len(door) + 1 \/ i \in 1 .. Len(door)
      BY <1>3
    <3> QED BY <1>3, <3>1, <3>2 DEF InDoor
  <2>2. ASSUME InDoor(q) PROVE InDoor(q)'
    <3>1. PICK i \in 1 .. Len(door) : door[i] = q
      BY <2>2 DEF InDoor
    <3>2. i \in 1 .. Len(door') /\ door'[i] = q
      BY <1>3, <3>1
    <3> QED BY <3>2 DEF InDoor
  <2>3. InDoor(p)'
    <3>1. Len(door) + 1 \in 1 .. Len(door')
      BY <1>3
    <3> QED BY <1>3, <3>1 DEF InDoor
  <2> QED BY <2>1, <2>2, <2>3
<1>6. p \notin open
  BY <1>2 DEF WritesInOrder
<1>7. ASSUME NEW q \in Presses
      PROVE  /\ action'[q].write = "queued" <=> InDoor(q)'
             /\ action'[q].write = "open" <=> q \in open'
             /\ action'[q].caller = "waiting" => Waiting(q)'
             /\ Waiting(q)' \/ Committed(q)' => action'[q].gesture \in Gestures
  <2>1. CASE q = p
    BY <1>1, <1>5, <1>6, <2>1 DEF Waiting
  <2>2. CASE q # p
    <3>1. action'[q] = action[q]
      BY <1>1, <2>2
    <3> QED BY <1>5, <2>2, <3>1 DEF Waiting, Committed, WritesInOrder
  <2> QED BY <2>1, <2>2
<1>8. \A i, j \in 1 .. Len(door') : i < j => door'[i] < door'[j]
  <2> SUFFICES ASSUME NEW i \in 1 .. Len(door'), NEW j \in 1 .. Len(door'), i < j
               PROVE  door'[i] < door'[j]
    OBVIOUS
  <2>1. i \in 1 .. Len(door) /\ (j \in 1 .. Len(door) \/ j = Len(door) + 1)
    BY <1>3
  <2>2. CASE j \in 1 .. Len(door)
    BY <1>3, <2>1, <2>2 DEF WritesInOrder
  <2>3. CASE j = Len(door) + 1
    BY <1>3, <1>4, <2>1, <2>3
  <2> QED BY <2>1, <2>2, <2>3
<1>9. \A q \in open' : (\A i \in 1 .. Len(door') : q < door'[i]) /\ (\A o \in open' : o = q)
  <2> SUFFICES ASSUME NEW q \in open
               PROVE  (\A i \in 1 .. Len(door') : q < door'[i]) /\ (\A o \in open : o = q)
    OBVIOUS
  <2>1. q \in Presses /\ action[q].write = "open" /\ action[q] # Unpressed
    BY DEF ChapterShape, WritesInOrder, Unpressed
  <2>2. q < p
    BY <2>1, NextIsLast
  <2>3. ASSUME NEW i \in 1 .. Len(door') PROVE q < door'[i]
    <3>1. CASE i \in 1 .. Len(door)
      BY <1>3, <3>1 DEF WritesInOrder
    <3>2. CASE i = Len(door) + 1
      BY <1>3, <2>2, <3>2
    <3> QED BY <1>3, <3>1, <3>2
  <2> QED BY <2>3 DEF WritesInOrder
<1>10. \A q, o \in Presses : q < o /\ action'[o] # Unpressed => action'[q] # Unpressed
  <2> SUFFICES ASSUME NEW q \in Presses, NEW o \in Presses, q < o, action'[o] # Unpressed
               PROVE  action'[q] # Unpressed
    OBVIOUS
  <2>1. CASE q = p
    BY <1>1, <2>1
  <2>2. CASE o = p
    <3>1. q # p /\ action[q] # Unpressed
      BY <1>0, <2>2
    <3> QED BY <1>1, <3>1
  <2>3. CASE q # p /\ o # p
    BY <1>1, <2>3 DEF WritesInOrder
  <2> QED BY <2>1, <2>2, <2>3
<1>11. \A q, o \in Presses : Committed(q)' /\ Waiting(o)' => q < o
  <2> SUFFICES ASSUME NEW q \in Presses, NEW o \in Presses, Committed(q)', Waiting(o)' PROVE q < o
    OBVIOUS
  <2>1. q # p /\ Committed(q)
    BY <1>1 DEF Committed
  <2>2. CASE o = p
    <3>1. action[q] # Unpressed
      BY <2>1, UnpressedFacts
    <3> QED BY <2>2, <3>1, NextIsLast
  <2>3. CASE o # p
    BY <1>1, <2>1, <2>3 DEF Waiting, WritesInOrder
  <2> QED BY <2>2, <2>3
<1> QED BY <1>7, <1>8, <1>9, <1>10, <1>11 DEF WritesInOrder

(***************************************************************************)
(* The accepted intents.                                                   *)
(***************************************************************************)

\* The intents' parts, each on its own.
LEMMA EntryFacts ==
  ASSUME ChapterShape, EntriesInOrder, NEW i \in 1 .. Len(entries)
  PROVE  /\ entries[i] \in Intents /\ entries[i].id \in Presses /\ Len(entries) \in Nat
         /\ Stands(action[entries[i].id])
         /\ Committed(entries[i].id) \/ (Waiting(entries[i].id) /\ action[entries[i].id].caller = "waiting")
         /\ entries[i].projected = Patched(entries[i].base, action[entries[i].id].gesture)
         /\ \A j \in 1 .. Len(entries) : i < j => entries[i].id < entries[j].id
<1>1. entries[i] \in Intents /\ Len(entries) \in Nat
  BY DEF ChapterShape
<1>2. entries[i].id \in Presses
  BY <1>1 DEF Intents
<1> QED BY <1>1, <1>2 DEF EntriesInOrder, Stands, Committed, Waiting

\* A write that waits is not over.
LEMMA WaitingIsNotOver == \A p : Waiting(p) => ~Committed(p)
BY DEF Waiting, Committed

\* What fails or is given up takes its intent, if it has one, and those after it.
LEMMA FailedPrefix ==
  ASSUME ChapterShape, EntriesInOrder, NEW p \in Presses, Waiting(p),
         entries' = IF action[p].caller = "waiting" THEN Dropped(p) ELSE entries
  PROVE  \E l \in 0 .. Len(entries) :
           /\ entries' = SubSeq(entries, 1, l)
           /\ l < Len(entries) => entries[l + 1].id = p
           /\ \A i \in 1 .. l : entries[i].id # p
<1>1. CASE action[p].caller = "waiting"
  <2>1. entries' = Dropped(p) /\ entries \in Seq(Intents)
    BY <1>1 DEF ChapterShape
  <2> QED BY <2>1, DroppedIsPrefix
<1>2. CASE action[p].caller # "waiting"
  <2>1. \A i \in 1 .. Len(entries) : entries[i].id # p
    BY <1>2, EntryFacts, WaitingIsNotOver
  <2>2. Len(entries) \in Nat /\ entries \in Seq(Intents)
    BY DEF ChapterShape
  <2>3. entries' = SubSeq(entries, 1, Len(entries))
    BY <1>2, <2>2
  <2>4. Len(entries) \in 0 .. Len(entries) /\ ~(Len(entries) < Len(entries))
    BY <2>2
  <2> QED BY <2>1, <2>3, <2>4
<1> QED BY <1>1, <1>2

\* The same of the intents after a step that leaves a beginning of them.
LEMMA PrefixLeft ==
  ASSUME ChapterShape, NEW l \in 0 .. Len(entries), entries' = SubSeq(entries, 1, l)
  PROVE  /\ Len(entries) \in Nat /\ l \in Nat /\ l <= Len(entries)
         /\ entries' \in Seq(Intents) /\ Len(entries') = l
         /\ \A i \in 1 .. l : entries'[i] = entries[i]
         /\ \A from : \A i \in 0 .. l : ValueAfter(from, entries', i) = ValueAfter(from, entries, i)
<1>1. entries \in Seq(Intents) /\ Len(entries) \in Nat
  BY DEF ChapterShape
<1> DEFINE b == SubSeq(entries, 1, l)
<1>2. /\ b \in Seq(Intents) /\ Len(b) = l
      /\ \A i \in 1 .. l : b[i] = entries[i]
      /\ \A from : \A i \in 0 .. l : ValueAfter(from, b, i) = ValueAfter(from, entries, i)
  BY <1>1, PrefixFacts
<1>3. entries' = b
  OBVIOUS
<1>4. l \in Nat /\ l <= Len(entries)
  BY <1>1
<1> HIDE DEF b
<1>5. entries' \in Seq(Intents) /\ Len(entries') = l
  BY <1>2, <1>3, Zenon
<1>6. \A i \in 1 .. l : entries'[i] = entries[i]
  BY <1>2, <1>3, Zenon
<1>7. \A from : \A i \in 0 .. l : ValueAfter(from, entries', i) = ValueAfter(from, entries, i)
  BY <1>2, <1>3, Zenon
<1> QED BY <1>1, <1>4, <1>5, <1>6, <1>7

\* A beginning of the intents is in order, as long as their writes stand.
LEMMA PrefixInOrder ==
  ASSUME ChapterShape, EntriesInOrder, NEW l \in 0 .. Len(entries),
         entries' = SubSeq(entries, 1, l), durable' = durable, listRead' = listRead,
         row = Missing => row' = Missing,
         \A i \in 1 .. l :
           /\ action'[entries[i].id].gesture = action[entries[i].id].gesture
           /\ Stands(action'[entries[i].id])
  PROVE  EntriesInOrder'
<1>1. /\ Len(entries) \in Nat /\ l \in Nat /\ l <= Len(entries)
      /\ entries' \in Seq(Intents) /\ Len(entries') = l
      /\ \A i \in 1 .. l : entries'[i] = entries[i]
      /\ \A from : \A i \in 0 .. l : ValueAfter(from, entries', i) = ValueAfter(from, entries, i)
  BY PrefixLeft
<1>2. \A i, j \in 1 .. Len(entries') : i < j => entries'[i].id < entries'[j].id
  <2> SUFFICES ASSUME NEW i \in 1 .. l, NEW j \in 1 .. l, i < j PROVE entries'[i].id < entries'[j].id
    BY <1>1
  <2>1. entries'[i] = entries[i] /\ entries'[j] = entries[j]
    BY <1>1
  <2>2. i \in 1 .. Len(entries) /\ j \in 1 .. Len(entries)
    BY <1>1
  <2>3. entries[i].id < entries[j].id
    BY <2>2 DEF EntriesInOrder
  <2> QED BY <2>1, <2>3
<1>3. ASSUME NEW i \in 1 .. Len(entries')
      PROVE  /\ Stands(action'[entries'[i].id])
             /\ entries'[i].projected = Patched(entries'[i].base, action'[entries'[i].id].gesture)
  <2>1. i \in 1 .. l /\ i \in 1 .. Len(entries) /\ entries'[i] = entries[i]
    BY <1>1
  <2>2. entries[i].projected = Patched(entries[i].base, action[entries[i].id].gesture)
    BY <2>1 DEF EntriesInOrder
  <2>3. action'[entries[i].id].gesture = action[entries[i].id].gesture /\ Stands(action'[entries[i].id])
    BY <2>1
  <2> QED BY <2>1, <2>2, <2>3
<1>4. ASSUME durable' # Missing PROVE Chained(durable', entries')
  <2>1. \A n \in 1 .. Len(entries) : entries[n].base = ValueAfter(durable, entries, n - 1)
    BY <1>4 DEF EntriesInOrder, Chained
  <2>2. ASSUME NEW n \in 1 .. Len(entries') PROVE entries'[n].base = ValueAfter(durable', entries', n - 1)
    <3>1. n \in 1 .. Len(entries) /\ n - 1 \in 0 .. l /\ entries'[n] = entries[n]
      BY <1>1
    <3> QED BY <1>1, <2>1, <3>1
  <2> QED BY <2>2 DEF Chained
<1>5. (durable' = Missing => listRead' = Missing) /\ (listRead' = Missing => row' = Missing)
  BY DEF EntriesInOrder
<1> QED BY <1>2, <1>3, <1>4, <1>5 DEF EntriesInOrder

\* As many writes are over as intents, and nothing waits: the row is at the end of the chain.
LEMMA LastWriteFails ==
  ASSUME ChapterShape, WritesInOrder, EntriesInOrder, RowFollows,
         NEW p \in Presses, Waiting(p), \A q \in Presses : Waiting(q) => q = p,
         \A q \in Presses : q # p => action'[q] = action[q], ~Waiting(p)',
         NEW l \in 0 .. Len(entries), entries' = SubSeq(entries, 1, l),
         l < Len(entries) => entries[l + 1].id = p, \A i \in 1 .. l : entries[i].id # p,
         row' = row, durable' = durable, listRead' = listRead, remotes' = remotes,
         ~disturbed, row # Missing
  PROVE  RowFollows'
<1>1. /\ Len(entries) \in Nat /\ l \in Nat /\ l <= Len(entries)
      /\ Len(entries') = l
      /\ \A i \in 1 .. l : entries'[i] = entries[i]
      /\ \A from : \A i \in 0 .. l : ValueAfter(from, entries', i) = ValueAfter(from, entries, i)
  BY PrefixLeft
<1>2. PICK k \in 0 .. Len(entries) :
        /\ CommittedUpTo(k)
        /\ Landed(k) \/ Gap
        /\ remotes = 0 => Landed(k) /\ \E i \in 0 .. k : listRead = ValueAfter(durable, entries, i)
  BY DEF RowFollows
<1>3. ASSUME NEW i \in 1 .. l PROVE action[entries[i].id].write = "committed" /\ i <= k
  <2>1. i \in 1 .. Len(entries) /\ entries[i].id # p /\ entries[i].id \in Presses
    BY <1>1, EntryFacts
  <2>2. action[entries[i].id].write = "committed"
    BY <2>1, EntryFacts DEF Committed
  <2>3. i <= k
    BY <1>2, <2>1, <2>2 DEF CommittedUpTo, Waiting
  <2> QED BY <2>2, <2>3
<1>4. l = k
  <2>1. l <= k
    <3>1. CASE l = 0
      BY <1>2, <3>1
    <3>2. CASE l # 0
      <4>1. l \in 1 .. l
        BY <1>1, <3>2
      <4> QED BY <1>3, <4>1
    <3> QED BY <3>1, <3>2
  <2>2. ASSUME l < k PROVE FALSE
    <3>1. l < Len(entries) /\ l + 1 \in 1 .. Len(entries) /\ l + 1 <= k
      BY <1>1, <1>2, <2>2
    <3>2. Committed(p)
      BY <1>2, <3>1 DEF CommittedUpTo
    <3> QED BY <3>2, WaitingIsNotOver
  <2> QED BY <1>1, <1>2, <2>1, <2>2
<1>5. \A q \in Presses : ~Waiting(q)'
  BY DEF Waiting
<1>6. \A q \in Presses : ~Live(q)'
  BY <1>5 DEF Live
<1>7. CommittedUpTo(l)'
  <2> SUFFICES ASSUME NEW i \in 1 .. l PROVE action'[entries'[i].id].write = "committed"
    BY <1>1 DEF CommittedUpTo, Committed
  <2>1. i \in 1 .. Len(entries) /\ entries'[i] = entries[i] /\ entries[i].id # p /\ entries[i].id \in Presses
    BY <1>1, EntryFacts
  <2>2. action'[entries'[i].id] = action[entries[i].id]
    BY <2>1
  <2> QED BY <1>3, <2>2 DEF Committed
<1>8. Landed(l) => Landed(l)'
  <2>1. ValueAfter(durable', entries', l) = ValueAfter(durable, entries, l)
    BY <1>1
  <2>2. NoOps'
    BY <1>6 DEF NoOps
  <2> QED BY <2>1, <2>2 DEF Landed
<1>9. Gap => Gap'
  <2> SUFFICES ASSUME Gap PROVE Gap'
    OBVIOUS
  <2>1. entries = <<>> /\ remotes > 0
    BY DEF Gap
  <2>2. entries' = <<>>
    BY <1>1, <2>1
  <2> QED BY <1>6, <2>1, <2>2 DEF Gap
<1>10. (\E i \in 0 .. k : listRead = ValueAfter(durable, entries, i)) =>
         \E i \in 0 .. l : listRead' = ValueAfter(durable', entries', i)
  BY <1>1, <1>4
<1>11. l \in 0 .. Len(entries')
  BY <1>1
<1> QED BY <1>2, <1>4, <1>7, <1>8, <1>9, <1>10, <1>11 DEF RowFollows

\* A deadline passes: the intents that are left are those of earlier gestures, and what is
\* committed is among them.
LEMMA DeadlineFollows ==
  ASSUME ChapterShape, WritesInOrder, EntriesInOrder, RowFollows,
         NEW p \in Presses, action[p].caller = "waiting",
         action' = [action EXCEPT ![p].caller = "told"],
         NEW l \in 0 .. Len(entries), entries' = SubSeq(entries, 1, l),
         l < Len(entries) => entries[l + 1].id = p, \A i \in 1 .. l : entries[i].id # p,
         row' = row, durable' = durable, listRead' = listRead, remotes' = remotes,
         ~disturbed, row # Missing
  PROVE  RowFollows'
<1>1. /\ Len(entries) \in Nat /\ l \in Nat /\ l <= Len(entries)
      /\ Len(entries') = l
      /\ \A i \in 1 .. l : entries'[i] = entries[i]
      /\ \A from : \A i \in 0 .. l : ValueAfter(from, entries', i) = ValueAfter(from, entries, i)
  BY PrefixLeft
<1>2. PICK k \in 0 .. Len(entries) :
        /\ CommittedUpTo(k)
        /\ Landed(k) \/ Gap
        /\ remotes = 0 => Landed(k) /\ \E i \in 0 .. k : listRead = ValueAfter(durable, entries, i)
  BY DEF RowFollows
<1>3. /\ \A q \in Presses \ {p} : action'[q] = action[q]
      /\ action'[p].write = action[p].write /\ action'[p].caller = "told"
      /\ action'[p].gesture = action[p].gesture
  BY CallerEdit DEF ChapterShape
<1>4. Waiting(p) /\ Waiting(p)'
  BY <1>3 DEF Waiting, WritesInOrder
<1>5. ASSUME NEW q \in Presses
      PROVE  /\ action'[q].write = action[q].write /\ action'[q].gesture = action[q].gesture
             /\ Live(q)' => Live(q) /\ q < p
  <2>1. action'[q].write = action[q].write /\ action'[q].gesture = action[q].gesture
    BY <1>3
  <2>2. ASSUME Live(q)' PROVE Live(q) /\ q < p
    <3>1. Waiting(q)' /\ \A o \in 1 .. q : Waiting(o)' => action'[o].caller = "waiting"
      BY <2>2 DEF Live
    <3>2. p \notin 1 .. q
      <4>1. action'[p].caller # "waiting"
        BY <1>3
      <4> QED BY <1>4, <3>1, <4>1
    <3>3. q < p /\ q # p
      <4>1. p \in Int /\ q \in Int /\ 1 <= p
        BY ChapterAssumption DEF Presses
      <4> QED BY <3>2, <4>1
    <3>4. \A o \in 1 .. q : o \in Presses /\ o # p
      BY <3>3, ChapterAssumption DEF Presses
    <3>5. \A o \in 1 .. q : action'[o] = action[o]
      BY <1>3, <3>4
    <3>6. \A o \in 1 .. q : Waiting(o) => action[o].caller = "waiting"
      BY <3>1, <3>5 DEF Waiting
    <3>7. Waiting(q)
      BY <2>1, <3>1 DEF Waiting
    <3> QED BY <3>3, <3>6, <3>7 DEF Live
  <2> QED BY <2>1, <2>2
<1>6. k <= l
  <2> SUFFICES ASSUME l < k PROVE FALSE
    BY <1>1, <1>2
  <2>1. l < Len(entries) /\ l + 1 \in 1 .. Len(entries) /\ l + 1 <= k
    BY <1>1, <1>2
  <2>2. Committed(p)
    BY <1>2, <2>1 DEF CommittedUpTo
  <2> QED BY <1>4, <2>2, WaitingIsNotOver
<1>7. CommittedUpTo(k)'
  <2> SUFFICES ASSUME NEW i \in 1 .. l
               PROVE  IF i <= k THEN action'[entries'[i].id].write = "committed"
                                ELSE action'[entries'[i].id].write \in {"queued", "open"}
    BY <1>1 DEF CommittedUpTo, Committed, Waiting
  <2>1. i \in 1 .. Len(entries) /\ entries'[i] = entries[i] /\ entries[i].id \in Presses
    BY <1>1, EntryFacts
  <2>2. IF i <= k THEN action[entries[i].id].write = "committed"
                  ELSE action[entries[i].id].write \in {"queued", "open"}
    BY <1>2, <2>1 DEF CommittedUpTo, Committed, Waiting
  <2>3. action'[entries'[i].id].write = action[entries[i].id].write
    BY <1>5, <2>1
  <2> QED BY <2>2, <2>3
<1>8. ASSUME NEW q \in Presses, Live(q)', Unshown(q)', NEW j \in 0 .. l, Splits(q, j)'
      PROVE  Unshown(q) /\ Splits(q, j)
  <2>1. ASSUME NEW i \in 1 .. Len(entries)
        PROVE  entries[i].id # q /\ IF i <= j THEN entries[i].id < q ELSE q < entries[i].id
    <3>0. entries[i].id \in Presses /\ q \in Int /\ p \in Int
      BY EntryFacts DEF Presses
    <3>1. CASE i <= l
      <4>1. i \in 1 .. Len(entries') /\ entries'[i] = entries[i]
        BY <1>1, <2>1, <3>1
      <4> QED BY <1>8, <4>1 DEF Unshown, Splits
    <3>2. CASE ~(i <= l)
      <4>1. l < Len(entries) /\ l + 1 \in 1 .. Len(entries) /\ entries[l + 1].id = p /\ ~(i <= j)
        BY <1>1, <1>8, <2>1, <3>2
      <4>2. i = l + 1 \/ p < entries[i].id
        <5>1. i = l + 1 \/ l + 1 < i
          BY <1>1, <2>1, <3>2
        <5> QED BY <4>1, <5>1, EntryFacts
      <4>3. q < p
        BY <1>5, <1>8
      <4>4. q < entries[i].id /\ entries[i].id \in Int
        BY <3>0, <4>1, <4>2, <4>3 DEF Presses
      <4> QED BY <3>0, <4>1, <4>4
    <3> QED BY <3>1, <3>2
  <2> QED BY <2>1 DEF Unshown, Splits
<1>9. NoOps => NoOps'
  <2> SUFFICES ASSUME NoOps, NEW q \in Presses, Live(q)', Unshown(q)',
                      NEW j \in 0 .. l, Splits(q, j)'
               PROVE  Patched(ValueAfter(durable', entries', j), action'[q].gesture) = ValueAfter(durable', entries', j)
    BY <1>1 DEF NoOps
  <2>1. Live(q) /\ Unshown(q) /\ Splits(q, j) /\ j \in 0 .. Len(entries)
    BY <1>1, <1>5, <1>8
  <2>2. Patched(ValueAfter(durable, entries, j), action[q].gesture) = ValueAfter(durable, entries, j)
    BY <2>1 DEF NoOps
  <2>3. ValueAfter(durable', entries', j) = ValueAfter(durable, entries, j) /\ action'[q].gesture = action[q].gesture
    BY <1>1, <1>5
  <2> QED BY <2>2, <2>3
<1>10. Landed(k) => Landed(k)'
  <2>1. ValueAfter(durable', entries', k) = ValueAfter(durable, entries, k)
    BY <1>1, <1>2, <1>6
  <2> QED BY <1>9, <2>1 DEF Landed
<1>11. Gap => Gap'
  <2> SUFFICES ASSUME Gap PROVE Gap'
    OBVIOUS
  <2>1. entries = <<>> /\ remotes > 0 /\ \A q \in Presses : Live(q) => Patched(row, action[q].gesture) = row
    BY DEF Gap
  <2>2. entries' = <<>>
    BY <1>1, <2>1
  <2>3. \A q \in Presses : Live(q)' => Patched(row', action'[q].gesture) = row'
    BY <1>5, <2>1
  <2> QED BY <2>1, <2>2, <2>3 DEF Gap
<1>12. (\E i \in 0 .. k : listRead = ValueAfter(durable, entries, i)) =>
         \E i \in 0 .. k : listRead' = ValueAfter(durable', entries', i)
  BY <1>1, <1>2, <1>6
<1>13. k \in 0 .. Len(entries')
  BY <1>1, <1>2, <1>6
<1> QED BY <1>2, <1>7, <1>10, <1>11, <1>12, <1>13 DEF RowFollows

\* A transaction that opens changes nothing of this.
LEMMA BeginFollows ==
  ASSUME ChapterShape, WritesInOrder, EntriesInOrder, RowFollows, NEW p \in Presses, BeginTransaction(p)
  PROVE  EntriesInOrder' /\ RowFollows'
<1>1. /\ door # <<>> /\ Head(door) = p
      /\ action' = [action EXCEPT ![p].write = "open"]
      /\ UNCHANGED <<row, entries, durable, listRead, remotes, disturbed>>
  BY DEF BeginTransaction
<1>2. /\ \A q \in Presses \ {p} : action'[q] = action[q]
      /\ action'[p].write = "open" /\ action'[p].caller = action[p].caller
      /\ action'[p].gesture = action[p].gesture
  BY <1>1, OpenEdit DEF ChapterShape
<1>3. action[p].write = "queued"
  <2>1. 1 \in 1 .. Len(door) /\ door[1] = p
    BY <1>1, DoorTail DEF ChapterShape
  <2> QED BY <2>1 DEF WritesInOrder, InDoor
<1>4. ASSUME NEW q \in Presses
      PROVE  /\ action'[q].gesture = action[q].gesture /\ action'[q].caller = action[q].caller
             /\ action'[q].write \in {"queued", "open"} <=> action[q].write \in {"queued", "open"}
             /\ action'[q].write = "committed" <=> action[q].write = "committed"
  <2>1. CASE q = p
    BY <1>2, <1>3, <2>1
  <2>2. CASE q # p
    BY <1>2, <2>2
  <2> QED BY <2>1, <2>2
<1>5. EntriesInOrder'
  <2>2. PICK l \in 0 .. Len(entries) : l = Len(entries) /\ entries' = SubSeq(entries, 1, l)
    <3>1. Len(entries) \in Nat /\ entries \in Seq(Intents)
      BY DEF ChapterShape
    <3> QED BY <1>1, <3>1
  <2>1. \A i \in 1 .. l :
           /\ action'[entries[i].id].gesture = action[entries[i].id].gesture
           /\ Stands(action'[entries[i].id])
    BY <1>4, <2>2, EntryFacts DEF Stands
  <2>3. durable' = durable /\ listRead' = listRead /\ (row = Missing => row' = Missing)
    BY <1>1
  <2> QED BY <2>1, <2>2, <2>3, PrefixInOrder
<1>6. \A q \in Presses : Live(q)' <=> Live(q)
  <2> SUFFICES ASSUME NEW q \in Presses PROVE Live(q)' <=> Live(q)
    OBVIOUS
  <2>1. \A o \in 1 .. q : o \in Presses
    BY ChapterAssumption DEF Presses
  <2>2. \A o \in Presses : Waiting(o)' <=> Waiting(o)
    BY <1>4 DEF Waiting
  <2> QED BY <1>4, <2>1, <2>2 DEF Live
<1>7. ASSUME NEW k \in 0 .. Len(entries), CommittedUpTo(k) PROVE CommittedUpTo(k)'
  <2> SUFFICES ASSUME NEW i \in 1 .. Len(entries)
               PROVE  IF i <= k THEN action'[entries[i].id].write = "committed"
                                ELSE action'[entries[i].id].write \in {"queued", "open"}
    BY <1>1 DEF CommittedUpTo, Committed, Waiting
  <2>1. entries[i].id \in Presses
    BY EntryFacts
  <2>2. IF i <= k THEN action[entries[i].id].write = "committed"
                  ELSE action[entries[i].id].write \in {"queued", "open"}
    BY <1>7 DEF CommittedUpTo, Committed, Waiting
  <2> QED BY <1>4, <2>1, <2>2
<1>8. NoOps => NoOps'
  BY <1>1, <1>4, <1>6 DEF NoOps, Unshown, Splits
<1>9. Gap => Gap'
  BY <1>1, <1>4, <1>6 DEF Gap
<1>10. \A k \in 0 .. Len(entries) : Landed(k) => Landed(k)'
  BY <1>1, <1>8 DEF Landed
<1>11. RowFollows'
  BY <1>1, <1>7, <1>9, <1>10 DEF RowFollows
<1> QED BY <1>5, <1>11

\* The intent after the committed ones is the one whose write commits next; a gesture that
\* shows nothing leaves the row where it is.
LEMMA CommitFollows ==
  ASSUME ChapterShape, WritesInOrder, EntriesInOrder, RowFollows, NEW p \in Presses,
         Commit(p), ~disturbed, action[p].caller = "waiting"
  PROVE  RowFollows'
<1>1. /\ p \in open /\ row # Missing /\ row' = Patched(row, action[p].gesture)
      /\ action' = [action EXCEPT ![p].write = "committed", ![p].caller = "told"]
      /\ entries' = entries /\ UNCHANGED <<door, durable, listRead, remotes>>
  BY DEF Commit, Settles
<1>2. /\ \A q \in Presses \ {p} : action'[q] = action[q]
      /\ action'[p].write = "committed" /\ action'[p].caller = "told"
      /\ action'[p].gesture = action[p].gesture
  BY <1>1, SettleEdit DEF ChapterShape, Writes
<1>3. action[p].write = "open" /\ Waiting(p)
  BY <1>1 DEF WritesInOrder, Waiting
<1>4. \A q \in Presses : Waiting(q) /\ q # p => p < q
  <2> SUFFICES ASSUME NEW q \in Presses, Waiting(q), q # p PROVE p < q
    OBVIOUS
  <2>1. q \notin open
    BY <1>1 DEF WritesInOrder
  <2>2. InDoor(q)
    BY <2>1 DEF Waiting, WritesInOrder
  <2> QED BY <1>1, <2>2 DEF InDoor, WritesInOrder
<1>5. Live(p)
  <2> SUFFICES ASSUME NEW q \in 1 .. p, Waiting(q) PROVE action[q].caller = "waiting"
    BY <1>3 DEF Live
  <2>1. q \in Presses /\ ~(p < q)
    BY ChapterAssumption DEF Presses
  <2> QED BY <1>4, <2>1
<1>6. ASSUME NEW q \in Presses
      PROVE  /\ action'[q].gesture = action[q].gesture
             /\ Live(q)' => Live(q)
             /\ q # p => (action'[q].write = action[q].write)
  <2>1. action'[q].gesture = action[q].gesture /\ (q # p => (action'[q].write = action[q].write))
    BY <1>2
  <2>2. ASSUME Live(q)' PROVE Live(q)
    <3>1. Waiting(q)' /\ \A o \in 1 .. q : Waiting(o)' => action'[o].caller = "waiting"
      BY <2>2 DEF Live
    <3>2. q # p
      BY <1>2, <3>1 DEF Waiting
    <3>3. Waiting(q)
      BY <2>1, <3>1, <3>2 DEF Waiting
    <3>4. ASSUME NEW o \in 1 .. q, Waiting(o) PROVE action[o].caller = "waiting"
      <4>1. o \in Presses
        BY ChapterAssumption DEF Presses
      <4>2. CASE o = p
        BY <4>2
      <4>3. CASE o # p
        <5>1. action'[o] = action[o]
          BY <1>2, <4>1, <4>3
        <5>2. Waiting(o)'
          BY <3>4, <5>1 DEF Waiting
        <5> QED BY <3>1, <5>1, <5>2
      <4> QED BY <4>2, <4>3
    <3> QED BY <3>3, <3>4 DEF Live
  <2> QED BY <2>1, <2>2
<1>7. NoOps => NoOps'
  BY <1>1, <1>6 DEF NoOps, Unshown, Splits
<1>8. PICK k \in 0 .. Len(entries) :
        /\ CommittedUpTo(k)
        /\ Landed(k) \/ Gap
        /\ remotes = 0 => Landed(k) /\ \E i \in 0 .. k : listRead = ValueAfter(durable, entries, i)
  BY <1>1 DEF RowFollows
<1>9. Len(entries) \in Nat
  BY DEF ChapterShape
<1>10. CASE \E i \in 1 .. Len(entries) : entries[i].id = p
  <2>1. PICK i \in 1 .. Len(entries) : entries[i].id = p
    BY <1>10
  <2>2. ~(i <= k)
    BY <1>3, <1>8, <2>1 DEF CommittedUpTo, Committed
  <2>3. i = k + 1
    <3> SUFFICES ASSUME k + 1 < i PROVE FALSE
      BY <1>8, <1>9, <2>1, <2>2
    <3>1. k + 1 \in 1 .. Len(entries) /\ ~(k + 1 <= k)
      BY <1>8, <1>9, <2>1
    <3>2. Waiting(entries[k + 1].id)
      BY <1>8, <3>1 DEF CommittedUpTo
    <3>3. entries[k + 1].id \in Presses /\ entries[k + 1].id < p
      BY <2>1, <3>1, EntryFacts
    <3>4. entries[k + 1].id # p
      BY <3>3 DEF Presses
    <3>5. p < entries[k + 1].id
      BY <1>4, <3>2, <3>3, <3>4
    <3> QED BY <3>3, <3>5 DEF Presses
  <2>4. Landed(k)
    <3>1. entries # <<>>
      BY <2>1
    <3> QED BY <1>8, <3>1 DEF Gap
  <2>5. row' = ValueAfter(durable', entries', k + 1)
    <3>1. entries[k + 1].projected = Patched(entries[k + 1].base, action[p].gesture)
      BY <2>1, <2>3, EntryFacts
    <3>2. durable # Missing
      BY <1>1 DEF EntriesInOrder
    <3>3. entries[k + 1].base = ValueAfter(durable, entries, k)
      <4>1. k + 1 \in 1 .. Len(entries) /\ (k + 1) - 1 = k
        BY <1>8, <2>1, <2>3
      <4>2. entries[k + 1].base = ValueAfter(durable, entries, (k + 1) - 1)
        BY <3>2, <4>1 DEF EntriesInOrder, Chained
      <4> QED BY <4>1, <4>2
    <3>4. row = ValueAfter(durable, entries, k)
      BY <2>4 DEF Landed
    <3>5. ValueAfter(durable, entries, k + 1) = entries[k + 1].projected
      BY <1>8 DEF ValueAfter
    <3> QED BY <1>1, <3>1, <3>3, <3>4, <3>5
  <2>6. Landed(k + 1)'
    BY <1>7, <2>4, <2>5 DEF Landed
  <2>7. CommittedUpTo(k + 1)'
    <3> SUFFICES ASSUME NEW j \in 1 .. Len(entries)
                 PROVE  IF j <= k + 1 THEN action'[entries[j].id].write = "committed"
                                      ELSE action'[entries[j].id].write \in {"queued", "open"}
      BY <1>1 DEF CommittedUpTo, Committed, Waiting
    <3>1. entries[j].id \in Presses
      BY EntryFacts
    <3>2. CASE j = i
      BY <1>2, <2>1, <2>3, <3>2
    <3>3. CASE j # i
      <4>1. j < i \/ i < j
        BY <2>1, <3>3
      <4>2. entries[j].id < p \/ p < entries[j].id
        BY <2>1, <4>1, EntryFacts
      <4>3. entries[j].id # p
        BY <3>1, <4>2 DEF Presses
      <4>4. action'[entries[j].id].write = action[entries[j].id].write
        BY <1>6, <3>1, <4>3
      <4>5. IF j <= k THEN action[entries[j].id].write = "committed"
                      ELSE action[entries[j].id].write \in {"queued", "open"}
        BY <1>8 DEF CommittedUpTo, Committed, Waiting
      <4>6. j <= k + 1 <=> j <= k
        BY <1>8, <2>3, <3>3
      <4> QED BY <4>4, <4>5, <4>6
    <3> QED BY <3>2, <3>3
  <2>8. k + 1 \in 0 .. Len(entries') /\ 0 .. k \subseteq 0 .. k + 1
    BY <1>1, <1>8, <1>9, <2>1, <2>3
  <2>9. remotes' = 0 => \E j \in 0 .. k + 1 : listRead' = ValueAfter(durable', entries', j)
    <3> SUFFICES ASSUME remotes = 0 PROVE \E j \in 0 .. k + 1 : listRead = ValueAfter(durable, entries, j)
      BY <1>1
    <3> QED BY <1>8, <2>8
  <2> QED BY <2>6, <2>7, <2>8, <2>9 DEF RowFollows
<1>11. CASE ~ \E i \in 1 .. Len(entries) : entries[i].id = p
  <2>1. Unshown(p)
    BY <1>11 DEF Unshown
  <2>2. Splits(p, k)
    <3> SUFFICES ASSUME NEW i \in 1 .. Len(entries)
                 PROVE  IF i <= k THEN entries[i].id < p ELSE p < entries[i].id
      BY DEF Splits
    <3>1. entries[i].id \in Presses /\ entries[i].id # p
      BY <1>11, EntryFacts
    <3>2. CASE i <= k
      <4>1. Committed(entries[i].id)
        BY <1>8, <3>2 DEF CommittedUpTo
      <4> QED BY <1>3, <3>1, <3>2, <4>1 DEF WritesInOrder
    <3>3. CASE ~(i <= k)
      <4>1. Waiting(entries[i].id)
        BY <1>8, <3>3 DEF CommittedUpTo
      <4> QED BY <1>4, <3>1, <3>3, <4>1
    <3> QED BY <3>2, <3>3
  <2>3. row' = row
    <3>1. CASE Landed(k)
      <4>1. Patched(ValueAfter(durable, entries, k), action[p].gesture) = ValueAfter(durable, entries, k)
        BY <1>5, <1>8, <2>1, <2>2, <3>1 DEF Landed, NoOps
      <4> QED BY <1>1, <3>1, <4>1 DEF Landed
    <3>2. CASE Gap
      BY <1>1, <1>5, <3>2 DEF Gap
    <3> QED BY <1>8, <3>1, <3>2
  <2>4. CommittedUpTo(k)'
    <3> SUFFICES ASSUME NEW j \in 1 .. Len(entries)
                 PROVE  IF j <= k THEN action'[entries[j].id].write = "committed"
                                  ELSE action'[entries[j].id].write \in {"queued", "open"}
      BY <1>1 DEF CommittedUpTo, Committed, Waiting
    <3>1. entries[j].id \in Presses /\ entries[j].id # p
      BY <1>11, EntryFacts
    <3>2. action'[entries[j].id].write = action[entries[j].id].write
      BY <1>6, <3>1
    <3>3. IF j <= k THEN action[entries[j].id].write = "committed"
                    ELSE action[entries[j].id].write \in {"queued", "open"}
      BY <1>8 DEF CommittedUpTo, Committed, Waiting
    <3> QED BY <3>2, <3>3
  <2>5. Landed(k) => Landed(k)'
    BY <1>1, <1>7, <2>3 DEF Landed
  <2>6. Gap => Gap'
    BY <1>1, <1>6, <2>3 DEF Gap
  <2> QED BY <1>1, <1>8, <2>4, <2>5, <2>6 DEF RowFollows
<1> QED BY <1>10, <1>11

\* A remote write over nothing that waits.
LEMMA RemoteFollows ==
  ASSUME ChapterShape, WritesInOrder, EntriesInOrder, RemoteWrites
  PROVE  EntriesInOrder' /\ RowFollows'
<1>1. /\ row # Missing /\ open = {} /\ remotes' = remotes + 1
      /\ disturbed' = (disturbed \/ entries # <<>> \/ door # <<>>)
      /\ UNCHANGED <<door, open, action, entries, durable, listRead>>
  BY DEF RemoteWrites
<1>2. EntriesInOrder'
  <2>1. listRead' = Missing => row' = Missing
    BY <1>1 DEF EntriesInOrder
  <2> QED BY <1>1, <2>1 DEF EntriesInOrder
<1>3. ASSUME ~disturbed' PROVE RowFollows'
  <2>1. entries' = <<>> /\ door = <<>>
    BY <1>1, <1>3
  <2>2. \A q \in Presses : ~Waiting(q)
    BY <1>1, <2>1 DEF Waiting, WritesInOrder, InDoor
  <2>3. \A q \in Presses : ~Live(q)'
    BY <1>1, <2>2 DEF Live, Waiting
  <2>4. remotes' > 0 /\ remotes' # 0
    BY <1>1 DEF ChapterShape
  <2>5. Gap'
    BY <2>1, <2>3, <2>4 DEF Gap
  <2>6. CommittedUpTo(0)' /\ 0 \in 0 .. Len(entries')
    BY <2>1 DEF CommittedUpTo
  <2> QED BY <2>4, <2>5, <2>6 DEF RowFollows
<1>4. ASSUME disturbed' PROVE RowFollows'
  BY <1>4 DEF RowFollows
<1> QED BY <1>2, <1>3, <1>4

\* Over the row the list rendered, the card shows the end of the chain.
LEMMA ShownIsLast ==
  ASSUME entries \in Seq(Intents), NEW from, Chained(from, entries)
  PROVE  Shown(from) = ValueAfter(from, entries, Len(entries))
<1>1. Len(entries) \in Nat /\ 0 \in 0 .. Len(entries)
  OBVIOUS
<1>2. ValueAfter(from, entries, 0) = from
  BY DEF ValueAfter
<1>3. \A i \in 0 .. Len(entries) : i < 0 => ValueAfter(from, entries, i) # from
  BY <1>1
<1>4. Fold(entries, from).value = IF 0 = Len(entries) THEN from ELSE ValueAfter(from, entries, Len(entries))
  BY <1>1, <1>2, <1>3, FoldOfChain
<1> QED BY <1>2, <1>4 DEF Shown

\* A gesture is shown at the end of the chain.
LEMMA PressEntries ==
  ASSUME ChapterShape, WritesInOrder, EntriesInOrder, NEW p \in Presses, NEW g \in Gestures,
         action[p] = Unpressed,
         action' = [action EXCEPT ![p] = [gesture |-> g, write |-> "queued", caller |-> "waiting"]],
         entries' = AcceptedIntent(p, g), UNCHANGED <<row, durable, listRead, remotes>>
  PROVE  /\ entries' \in Seq(Intents)
         /\ EntriesInOrder'
         /\ durable # Missing =>
              \/ /\ entries' = entries
                 /\ Patched(ValueAfter(durable, entries, Len(entries)), g) = ValueAfter(durable, entries, Len(entries))
              \/ /\ Len(entries') = Len(entries) + 1 /\ entries'[Len(entries) + 1].id = p
                 /\ \A i \in 1 .. Len(entries) : entries'[i] = entries[i]
<1> DEFINE n == Len(entries)
           base == Shown(durable)
           after == Patched(base, g)
           e == [id |-> p, base |-> base, projected |-> after]
<1>1. n \in Nat /\ entries \in Seq(Intents)
  BY DEF ChapterShape
<1>2. /\ \A q \in Presses \ {p} : action'[q] = action[q]
      /\ action'[p].write = "queued" /\ action'[p].caller = "waiting" /\ action'[p].gesture = g
  BY PressEdit DEF ChapterShape
<1>3. ~Waiting(p) /\ ~Committed(p)
  BY UnpressedFacts
<1>4. \A i \in 1 .. n : entries[i].id < p /\ action'[entries[i].id] = action[entries[i].id]
  <2> SUFFICES ASSUME NEW i \in 1 .. n PROVE entries[i].id < p /\ action'[entries[i].id] = action[entries[i].id]
    OBVIOUS
  <2>1. entries[i].id \in Presses /\ (Waiting(entries[i].id) \/ Committed(entries[i].id))
    BY EntryFacts
  <2>2. action[entries[i].id] # Unpressed
    BY <2>1, UnpressedFacts
  <2>3. entries[i].id < p
    BY <2>1, <2>2, NextIsLast
  <2>4. entries[i].id # p
    BY <1>3, <2>1
  <2> QED BY <1>2, <2>1, <2>3, <2>4
<1>5. ASSUME entries' = entries PROVE EntriesInOrder'
  <2>1. PICK l \in 0 .. Len(entries) : l = Len(entries) /\ entries' = SubSeq(entries, 1, l)
    BY <1>1, <1>5
  <2>2. \A i \in 1 .. l :
           /\ action'[entries[i].id].gesture = action[entries[i].id].gesture
           /\ Stands(action'[entries[i].id])
    BY <1>4, <2>1, EntryFacts
  <2>3. durable' = durable /\ listRead' = listRead /\ (row = Missing => row' = Missing)
    OBVIOUS
  <2> QED BY <2>1, <2>2, <2>3, PrefixInOrder
<1>6. CASE durable # Missing /\ entries' = Append(entries, e)
  <2> HIDE DEF base, after
  <2>1. durable \in AnyRows /\ Chained(durable, entries)
    BY <1>6 DEF ChapterShape, EntriesInOrder
  <2>2. base = ValueAfter(durable, entries, n)
    BY <1>1, <2>1, ShownIsLast DEF base
  <2>3. base \in AnyRows
    BY <1>1, <2>1, <2>2, ValueTyped
  <2>4. after \in AnyRows
    BY <2>3, PatchedTyped DEF after
  <2>5. e \in Intents /\ e.id = p /\ e.base = base /\ e.projected = Patched(base, g)
    BY <2>3, <2>4 DEF Intents, after
  <2> HIDE DEF e
  <2>6. /\ entries' \in Seq(Intents) /\ Len(entries') = n + 1 /\ entries'[n + 1] = e
        /\ \A i \in 1 .. n : entries'[i] = entries[i]
    BY <1>1, <1>6, <2>5
  <2>7. \A i, j \in 1 .. Len(entries') : i < j => entries'[i].id < entries'[j].id
    <3> SUFFICES ASSUME NEW i \in 1 .. n + 1, NEW j \in 1 .. n + 1, i < j
                 PROVE  entries'[i].id < entries'[j].id
      BY <2>6
    <3>1. i \in 1 .. n /\ (j \in 1 .. n \/ j = n + 1)
      BY <1>1
    <3>2. CASE j \in 1 .. n
      BY <2>6, <3>1, <3>2 DEF EntriesInOrder
    <3>3. CASE j = n + 1
      BY <1>4, <2>5, <2>6, <3>1, <3>3
    <3> QED BY <3>1, <3>2, <3>3
  <2>8. ASSUME NEW i \in 1 .. Len(entries')
        PROVE  /\ Stands(action'[entries'[i].id])
               /\ entries'[i].projected = Patched(entries'[i].base, action'[entries'[i].id].gesture)
    <3>1. CASE i \in 1 .. n
      <4>1. Stands(action[entries[i].id]) /\ entries[i].projected = Patched(entries[i].base, action[entries[i].id].gesture)
        BY <3>1, EntryFacts
      <4>2. entries'[i] = entries[i] /\ action'[entries[i].id] = action[entries[i].id]
        BY <1>4, <2>6, <3>1
      <4> QED BY <4>1, <4>2
    <3>2. CASE i = n + 1
      <4>1. entries'[i] = e
        BY <2>6, <3>2
      <4>2. Stands(action'[p])
        BY <1>2 DEF Stands
      <4> QED BY <1>2, <2>5, <4>1, <4>2
    <3> QED BY <1>1, <2>6, <3>1, <3>2
  <2>9. Chained(durable', entries')
    <3> SUFFICES ASSUME NEW i \in 1 .. n + 1 PROVE entries'[i].base = ValueAfter(durable, entries', i - 1)
      BY <2>6 DEF Chained
    <3>0. i - 1 \in 0 .. n
      BY <1>1
    <3>1. ValueAfter(durable, entries', i - 1) = ValueAfter(durable, entries, i - 1)
      BY <1>1, <2>6, <3>0 DEF ValueAfter
    <3>2. CASE i \in 1 .. n
      BY <2>1, <2>6, <3>1, <3>2 DEF Chained
    <3>3. CASE i = n + 1
      <4>1. i - 1 = n
        BY <1>1, <3>3
      <4> QED BY <2>2, <2>5, <2>6, <3>1, <3>3, <4>1
    <3> QED BY <1>1, <3>2, <3>3
  <2>10. (durable' = Missing => listRead' = Missing) /\ (listRead' = Missing => row' = Missing)
    BY DEF EntriesInOrder
  <2>11. EntriesInOrder'
    BY <2>7, <2>8, <2>9, <2>10 DEF EntriesInOrder
  <2> QED BY <2>5, <2>6, <2>11
<1>7. durable = Missing => entries' = entries
  BY DEF AcceptedIntent
<1>8. durable # Missing => (after = base /\ entries' = entries) \/ entries' = Append(entries, e)
  BY DEF AcceptedIntent
<1>9. durable # Missing => base = ValueAfter(durable, entries, n)
  BY <1>1, ShownIsLast DEF EntriesInOrder
<1>10. EntriesInOrder' /\ entries' \in Seq(Intents)
  <2>1. CASE entries' = entries
    BY <1>1, <1>5, <2>1
  <2>2. CASE entries' # entries
    BY <1>6, <1>7, <1>8, <2>2
  <2> QED BY <2>1, <2>2
<1> HIDE DEF base, after, e
<1>11. CASE durable # Missing /\ entries' = Append(entries, e)
  <2>1. e.id = p
    BY DEF e
  <2> QED BY <1>1, <1>10, <1>11, <2>1
<1>12. CASE durable # Missing /\ after = base /\ entries' = entries
  BY <1>9, <1>10, <1>12 DEF after
<1> QED BY <1>8, <1>10, <1>11, <1>12

\* And it continues what the row follows.
LEMMA PressFollows ==
  ASSUME ChapterShape, WritesInOrder, EntriesInOrder, RowFollows, NEW p \in Presses, NEW g \in Gestures,
         action[p] = Unpressed,
         action' = [action EXCEPT ![p] = [gesture |-> g, write |-> "queued", caller |-> "waiting"]],
         entries' = AcceptedIntent(p, g), UNCHANGED <<row, durable, listRead, remotes>>,
         ~disturbed, ~(remotes > 0 /\ durable # row), row # Missing
  PROVE  RowFollows'
<1> DEFINE n == Len(entries)
<1>1. n \in Nat /\ remotes \in Nat
  BY DEF ChapterShape
<1>2. /\ \A q \in Presses \ {p} : action'[q] = action[q]
      /\ action'[p].write = "queued" /\ action'[p].caller = "waiting" /\ action'[p].gesture = g
  BY PressEdit DEF ChapterShape
<1>3. ~Waiting(p) /\ ~Committed(p)
  BY UnpressedFacts
<1>4. durable # Missing
  BY DEF EntriesInOrder
<1>5. \A i \in 1 .. n : entries[i].id \in Presses /\ entries[i].id < p /\ entries[i].id # p
  <2> SUFFICES ASSUME NEW i \in 1 .. n PROVE entries[i].id \in Presses /\ entries[i].id < p
    BY DEF Presses
  <2>1. entries[i].id \in Presses /\ (Waiting(entries[i].id) \/ Committed(entries[i].id))
    BY EntryFacts
  <2>2. action[entries[i].id] # Unpressed
    BY <2>1, UnpressedFacts
  <2> QED BY <2>1, <2>2, NextIsLast
<1>6. \/ /\ entries' = entries
         /\ Patched(ValueAfter(durable, entries, n), g) = ValueAfter(durable, entries, n)
      \/ /\ Len(entries') = n + 1 /\ entries'[n + 1].id = p
         /\ \A i \in 1 .. n : entries'[i] = entries[i]
  BY <1>4, PressEntries
<1>7. \A i \in 1 .. n : entries'[i] = entries[i]
  BY <1>6
<1>8. \A j \in 0 .. n : ValueAfter(durable', entries', j) = ValueAfter(durable, entries, j)
  BY <1>1, <1>7 DEF ValueAfter
<1>9. ASSUME NEW q \in Presses, q # p, Live(q)' PROVE Live(q) /\ q < p
  <2>1. Waiting(q)' /\ \A o \in 1 .. q : Waiting(o)' => action'[o].caller = "waiting"
    BY <1>9 DEF Live
  <2>2. Waiting(q)
    BY <1>2, <1>9, <2>1 DEF Waiting
  <2>3. q < p
    BY <2>2, NextIsLast, UnpressedFacts
  <2>4. \A o \in 1 .. q : o \in Presses /\ o # p
    BY <2>3, ChapterAssumption DEF Presses
  <2>5. \A o \in 1 .. q : action'[o] = action[o]
    BY <1>2, <2>4
  <2>6. \A o \in 1 .. q : Waiting(o) => action[o].caller = "waiting"
    BY <2>1, <2>5 DEF Waiting
  <2> QED BY <2>2, <2>3, <2>6 DEF Live
<1>10. PICK k \in 0 .. n :
        /\ CommittedUpTo(k)
        /\ Landed(k)
        /\ remotes = 0 => \E i \in 0 .. k : listRead = ValueAfter(durable, entries, i)
  <2>1. PICK k \in 0 .. n :
        /\ CommittedUpTo(k)
        /\ Landed(k) \/ Gap
        /\ remotes = 0 => Landed(k) /\ \E i \in 0 .. k : listRead = ValueAfter(durable, entries, i)
    BY DEF RowFollows
  <2>2. ASSUME Gap PROVE Landed(k)
    <3>1. entries = <<>> /\ remotes > 0 /\ row = durable
      BY <2>2 DEF Gap
    <3>2. n = 0 /\ k = 0
      BY <3>1
    <3>3. ValueAfter(durable, entries, 0) = row
      BY <3>1 DEF ValueAfter
    <3>4. NoOps
      <4> SUFFICES ASSUME NEW q \in Presses, Live(q), NEW j \in 0 .. n
                   PROVE  Patched(ValueAfter(durable, entries, j), action[q].gesture) = ValueAfter(durable, entries, j)
        BY DEF NoOps
      <4>1. j = 0
        BY <3>2
      <4>2. Patched(row, action[q].gesture) = row
        BY <2>2 DEF Gap
      <4> QED BY <3>3, <4>1, <4>2
    <3> QED BY <3>2, <3>3, <3>4 DEF Landed
  <2> QED BY <2>1, <2>2
<1>11. ASSUME NEW i \in 1 .. n
       PROVE  IF i <= k THEN action'[entries[i].id].write = "committed"
                        ELSE action'[entries[i].id].write \in {"queued", "open"}
  <2>1. action'[entries[i].id] = action[entries[i].id]
    BY <1>2, <1>5
  <2> QED BY <1>10, <2>1 DEF CommittedUpTo, Committed, Waiting
<1>12. ASSUME NEW q \in Presses, q # p, Live(q)', Unshown(q)', NEW j \in 0 .. n, Splits(q, j)', n <= Len(entries')
       PROVE  Patched(ValueAfter(durable', entries', j), action'[q].gesture) = ValueAfter(durable', entries', j)
  <2>1. \A i \in 1 .. n : i \in 1 .. Len(entries')
    BY <1>1, <1>6, <1>12
  <2>2. Unshown(q) /\ Splits(q, j)
    BY <1>7, <1>12, <2>1 DEF Unshown, Splits
  <2>3. Patched(ValueAfter(durable, entries, j), action[q].gesture) = ValueAfter(durable, entries, j)
    BY <1>9, <1>10, <1>12, <2>2 DEF Landed, NoOps
  <2>4. action'[q].gesture = action[q].gesture
    BY <1>2, <1>12
  <2> QED BY <1>8, <2>3, <2>4
<1>13. row' = ValueAfter(durable', entries', k)
  BY <1>8, <1>10 DEF Landed
<1>14. remotes' = 0 => \E i \in 0 .. k : listRead' = ValueAfter(durable', entries', i)
  <2>1. 0 .. k \subseteq 0 .. n
    BY <1>1
  <2> QED BY <1>8, <1>10, <2>1
<1>15. CASE entries' = entries /\ Patched(ValueAfter(durable, entries, n), g) = ValueAfter(durable, entries, n)
  <2>1. CommittedUpTo(k)'
    <3>1. \A i \in 1 .. Len(entries') :
            IF i <= k THEN action'[entries'[i].id].write = "committed"
                      ELSE action'[entries'[i].id].write \in {"queued", "open"}
      BY <1>11, <1>15
    <3> QED BY <3>1 DEF CommittedUpTo, Committed, Waiting
  <2>2. NoOps'
    <3> SUFFICES ASSUME NEW q \in Presses, Live(q)', Unshown(q)', NEW j \in 0 .. n, Splits(q, j)'
                 PROVE  Patched(ValueAfter(durable', entries', j), action'[q].gesture) = ValueAfter(durable', entries', j)
      BY <1>15 DEF NoOps
    <3>1. CASE q # p
      BY <1>1, <1>12, <1>15, <3>1
    <3>2. CASE q = p
      <4>1. j = n
        <5> SUFFICES ASSUME j < n PROVE FALSE
          BY <1>1
        <5>1. n \in 1 .. n /\ ~(n <= j)
          BY <1>1
        <5>2. q < entries[n].id
          BY <1>15, <5>1 DEF Splits
        <5> QED BY <1>5, <3>2, <5>1, <5>2 DEF Presses
      <4> QED BY <1>2, <1>8, <1>15, <3>2, <4>1
    <3> QED BY <3>1, <3>2
  <2> QED BY <1>10, <1>13, <1>14, <1>15, <2>1, <2>2 DEF RowFollows, Landed
<1>16. CASE Len(entries') = n + 1 /\ entries'[n + 1].id = p
  <2>1. CommittedUpTo(k)'
    <3> SUFFICES ASSUME NEW i \in 1 .. n + 1
                 PROVE  IF i <= k THEN action'[entries'[i].id].write = "committed"
                                  ELSE action'[entries'[i].id].write \in {"queued", "open"}
      BY <1>16 DEF CommittedUpTo, Committed, Waiting
    <3>1. CASE i \in 1 .. n
      BY <1>7, <1>11, <3>1
    <3>2. CASE i = n + 1
      <4>1. ~(i <= k)
        BY <1>1, <3>2
      <4> QED BY <1>2, <1>16, <3>2, <4>1
    <3> QED BY <1>1, <3>1, <3>2
  <2>2. NoOps'
    <3> SUFFICES ASSUME NEW q \in Presses, Live(q)', Unshown(q)', NEW j \in 0 .. n + 1, Splits(q, j)'
                 PROVE  Patched(ValueAfter(durable', entries', j), action'[q].gesture) = ValueAfter(durable', entries', j)
      BY <1>16 DEF NoOps
    <3>1. n + 1 \in 1 .. Len(entries')
      BY <1>1, <1>16
    <3>2. q # p
      BY <1>16, <3>1 DEF Unshown
    <3>3. j \in 0 .. n
      <4> SUFFICES ASSUME j = n + 1 PROVE FALSE
        BY <1>1
      <4>1. p < q
        <5>1. entries'[n + 1].id < q
          BY <1>1, <3>1 DEF Splits
        <5> QED BY <1>16, <5>1
      <4>2. q < p
        BY <1>9, <3>2
      <4> QED BY <4>1, <4>2 DEF Presses
    <3> QED BY <1>1, <1>12, <1>16, <3>2, <3>3
  <2>3. k \in 0 .. Len(entries')
    BY <1>1, <1>16
  <2> QED BY <1>10, <1>13, <1>14, <2>1, <2>2, <2>3 DEF RowFollows, Landed
<1> QED BY <1>6, <1>15, <1>16

\* What the list's rendering leaves: nothing, or the intents after the row it read.
LEMMA RenderFacts ==
  ASSUME ChapterShape, EntriesInOrder, ListRenders, listRead # Missing
  PROVE  /\ durable' = listRead /\ durable # Missing
         /\ \E m \in 0 .. Len(entries) :
              /\ \A i \in 0 .. Len(entries) : i < m => ValueAfter(durable, entries, i) # listRead
              /\ m = Len(entries) \/ ValueAfter(durable, entries, m) = listRead
              /\ \/ entries' = <<>> /\ (m = Len(entries) \/ ValueAfter(durable, entries, Len(entries)) = listRead)
                 \/ m < Len(entries) /\ entries' = SubSeq(entries, m + 1, Len(entries))
<1>1. durable' = listRead /\ entries' = RetiredBy(listRead)
  BY DEF ListRenders
<1>2. durable # Missing
  BY DEF EntriesInOrder
<1>3. entries \in Seq(Intents) /\ Chained(durable, entries)
  BY <1>2 DEF ChapterShape, EntriesInOrder
<1>4. PICK m \in 0 .. Len(entries) :
        /\ \A i \in 0 .. Len(entries) : i < m => ValueAfter(durable, entries, i) # listRead
        /\ m = Len(entries) \/ ValueAfter(durable, entries, m) = listRead
  BY <1>3, FirstMet
<1>5. /\ Fold(entries, listRead).value = IF m = Len(entries) THEN listRead ELSE ValueAfter(durable, entries, Len(entries))
      /\ Fold(entries, listRead).kept = SubSeq(entries, m + 1, Len(entries))
  BY <1>3, <1>4, FoldOfChain
<1>6. CASE Fold(entries, listRead).value = listRead
  <2>1. entries' = <<>>
    BY <1>1, <1>6 DEF RetiredBy
  <2>2. m = Len(entries) \/ ValueAfter(durable, entries, Len(entries)) = listRead
    BY <1>5, <1>6
  <2> QED BY <1>1, <1>2, <1>4, <2>1, <2>2
<1>7. CASE Fold(entries, listRead).value # listRead
  <2>1. entries' = SubSeq(entries, m + 1, Len(entries))
    BY <1>1, <1>5, <1>7 DEF RetiredBy
  <2>2. m # Len(entries) /\ Len(entries) \in Nat
    BY <1>3, <1>5, <1>7
  <2>3. m < Len(entries)
    BY <1>4, <2>2
  <2> QED BY <1>1, <1>2, <1>4, <2>1, <2>3
<1> QED BY <1>6, <1>7

\* The intents that are left after the row the list read.
LEMMA RenderSuffix ==
  ASSUME ChapterShape, EntriesInOrder, durable # Missing, durable' = listRead,
         NEW m \in 0 .. Len(entries), m < Len(entries),
         ValueAfter(durable, entries, m) = listRead, entries' = SubSeq(entries, m + 1, Len(entries))
  PROVE  /\ entries' \in Seq(Intents) /\ Len(entries') = Len(entries) - m /\ Len(entries) \in Nat
         /\ \A i \in 1 .. Len(entries) - m : entries'[i] = entries[m + i] /\ m + i \in 1 .. Len(entries)
         /\ \A i \in 0 .. Len(entries) - m :
              /\ m + i \in 0 .. Len(entries)
              /\ ValueAfter(durable', entries', i) = ValueAfter(durable, entries, m + i)
<1>1. Len(entries) \in Nat /\ m \in 0 .. Len(entries) - 1 /\ entries \in Seq(Intents)
  BY DEF ChapterShape
<1>2. /\ entries' \in Seq(Intents) /\ Len(entries') = Len(entries) - m
      /\ \A i \in 1 .. Len(entries) - m : entries'[i] = entries[m + i]
  BY <1>1, SuffixFacts
<1>3. \A i \in 1 .. Len(entries) - m : m + i \in 1 .. Len(entries)
  BY <1>1
<1>4. ASSUME NEW i \in 0 .. Len(entries) - m
      PROVE  /\ m + i \in 0 .. Len(entries)
             /\ ValueAfter(durable', entries', i) = ValueAfter(durable, entries, m + i)
  <2>1. m + i \in 0 .. Len(entries)
    BY <1>1
  <2>2. CASE i = 0
    <3>1. m + i = m /\ ValueAfter(durable', entries', 0) = durable'
      BY <1>1, <2>2 DEF ValueAfter
    <3> QED BY <2>1, <2>2, <3>1
  <2>3. CASE i # 0
    <3>1. i \in 1 .. Len(entries) - m /\ m + i # 0
      BY <1>1, <2>3
    <3>2. entries'[i] = entries[m + i]
      BY <1>2, <3>1
    <3> QED BY <2>1, <2>3, <3>1, <3>2 DEF ValueAfter
  <2> QED BY <2>2, <2>3
<1> QED BY <1>1, <1>2, <1>3, <1>4

\* What the list retires and shows.
LEMMA RenderOrder ==
  ASSUME ChapterShape, EntriesInOrder, ListRenders
  PROVE  EntriesInOrder' /\ entries' \in Seq(Intents)
<1>1. durable' = listRead /\ UNCHANGED <<row, action, listRead>>
  BY DEF ListRenders
<1>2. (durable' = Missing => listRead' = Missing) /\ (listRead' = Missing => row' = Missing)
  BY <1>1 DEF EntriesInOrder
<1>3. CASE listRead = Missing
  <2>1. entries' = entries
    BY <1>3 DEF ListRenders
  <2> QED BY <1>1, <1>2, <1>3, <2>1 DEF EntriesInOrder, ChapterShape
<1>4. CASE listRead # Missing
  <2>1. /\ durable # Missing
        /\ \E m \in 0 .. Len(entries) :
              /\ m = Len(entries) \/ ValueAfter(durable, entries, m) = listRead
              /\ entries' = <<>> \/ (m < Len(entries) /\ entries' = SubSeq(entries, m + 1, Len(entries)))
    BY <1>4, RenderFacts
  <2>2. CASE entries' = <<>>
    BY <1>2, <2>2 DEF EntriesInOrder, Chained
  <2>3. CASE entries' # <<>>
    <3>1. PICK m \in 0 .. Len(entries) :
            /\ m < Len(entries) /\ entries' = SubSeq(entries, m + 1, Len(entries))
            /\ ValueAfter(durable, entries, m) = listRead
      BY <2>1, <2>3
    <3> DEFINE n == Len(entries)
    <3>2. /\ entries' \in Seq(Intents) /\ Len(entries') = n - m /\ n \in Nat
          /\ \A i \in 1 .. n - m : entries'[i] = entries[m + i] /\ m + i \in 1 .. n
          /\ \A i \in 0 .. n - m :
               /\ m + i \in 0 .. n
               /\ ValueAfter(durable', entries', i) = ValueAfter(durable, entries, m + i)
      BY <1>1, <2>1, <3>1, RenderSuffix
    <3>3. \A i, j \in 1 .. Len(entries') : i < j => entries'[i].id < entries'[j].id
      <4> SUFFICES ASSUME NEW i \in 1 .. n - m, NEW j \in 1 .. n - m, i < j
                   PROVE  entries'[i].id < entries'[j].id
        BY <3>2
      <4>1. m + i < m + j /\ m + i \in 1 .. n /\ m + j \in 1 .. n
        BY <3>2
      <4>2. entries[m + i].id < entries[m + j].id
        BY <4>1 DEF EntriesInOrder
      <4> QED BY <3>2, <4>2
    <3>4. ASSUME NEW i \in 1 .. Len(entries')
          PROVE  /\ Stands(action'[entries'[i].id])
                 /\ entries'[i].projected = Patched(entries'[i].base, action'[entries'[i].id].gesture)
      <4>1. entries'[i] = entries[m + i] /\ m + i \in 1 .. n
        BY <3>2
      <4>2. /\ Stands(action[entries[m + i].id])
            /\ entries[m + i].projected = Patched(entries[m + i].base, action[entries[m + i].id].gesture)
        BY <4>1, EntryFacts
      <4> QED BY <1>1, <4>1, <4>2
    <3>5. Chained(durable', entries')
      <4> SUFFICES ASSUME NEW i \in 1 .. n - m PROVE entries'[i].base = ValueAfter(durable', entries', i - 1)
        BY <3>2 DEF Chained
      <4>1. i - 1 \in 0 .. n - m /\ m + i \in 1 .. n /\ m + (i - 1) = (m + i) - 1
        BY <3>2
      <4>2. entries[m + i].base = ValueAfter(durable, entries, (m + i) - 1)
        BY <2>1, <4>1 DEF EntriesInOrder, Chained
      <4>3. ValueAfter(durable', entries', i - 1) = ValueAfter(durable, entries, m + (i - 1))
        BY <3>2, <4>1
      <4> QED BY <3>2, <4>1, <4>2, <4>3
    <3> QED BY <1>2, <3>2, <3>3, <3>4, <3>5 DEF EntriesInOrder
  <2> QED BY <2>2, <2>3
<1> QED BY <1>3, <1>4

\* When none of the retired intents was waiting, the rest continues what the row follows.
LEMMA RenderFollows ==
  ASSUME ChapterShape, WritesInOrder, EntriesInOrder, RowFollows, ListRenders,
         ~disturbed', row # Missing
  PROVE  RowFollows'
<1> DEFINE n == Len(entries)
<1>1. /\ ~disturbed
      /\ \A e \in ToSet(entries) \ ToSet(entries') : ~Waiting(e.id)
      /\ UNCHANGED <<row, action, listRead, remotes>>
  BY DEF ListRenders
<1>2. listRead # Missing
  BY DEF EntriesInOrder
<1>3. n \in Nat /\ remotes \in Nat
  BY DEF ChapterShape
<1>4. durable' = listRead /\ durable # Missing
  BY <1>2, RenderFacts
<1>5. PICK m \in 0 .. n :
        /\ \A i \in 0 .. n : i < m => ValueAfter(durable, entries, i) # listRead
        /\ m = n \/ ValueAfter(durable, entries, m) = listRead
        /\ \/ entries' = <<>> /\ (m = n \/ ValueAfter(durable, entries, n) = listRead)
           \/ m < n /\ entries' = SubSeq(entries, m + 1, n)
  BY <1>2, RenderFacts
<1>6. PICK k \in 0 .. n :
        /\ CommittedUpTo(k)
        /\ Landed(k) \/ Gap
        /\ remotes = 0 => Landed(k) /\ \E i \in 0 .. k : listRead = ValueAfter(durable, entries, i)
  BY <1>1 DEF RowFollows
<1>7. \A q \in Presses : Live(q)' <=> Live(q)
  BY <1>1 DEF Live, Waiting
<1>8. CASE entries' = <<>>
  <2>1. k = n
    <3> SUFFICES ASSUME k < n PROVE FALSE
      BY <1>3
    <3>1. n \in 1 .. n /\ ~(n <= k)
      BY <1>3
    <3>2. Waiting(entries[n].id)
      BY <1>6, <3>1 DEF CommittedUpTo
    <3>3. entries[n] \in ToSet(entries) /\ ToSet(entries') = {}
      BY <1>8, <3>1 DEF ToSet, ChapterShape
    <3> QED BY <1>1, <3>2, <3>3
  <2>2. ASSUME NEW q \in Presses, Live(q) PROVE Patched(row, action[q].gesture) = row
    <3>1. CASE Gap
      BY <2>2, <3>1 DEF Gap
    <3>2. CASE Landed(k)
      <4>1. ASSUME NEW i \in 1 .. n PROVE entries[i].id < q /\ entries[i].id # q
        <5>1. entries[i].id \in Presses /\ Committed(entries[i].id)
          BY <1>6, <2>1, <4>1, EntryFacts DEF CommittedUpTo
        <5>2. Waiting(q)
          BY <2>2 DEF Live
        <5>3. entries[i].id < q
          BY <5>1, <5>2 DEF WritesInOrder
        <5> QED BY <5>1, <5>3 DEF Presses
      <4>2. Unshown(q) /\ Splits(q, n)
        BY <4>1 DEF Unshown, Splits
      <4>3. n \in 0 .. n /\ row = ValueAfter(durable, entries, n)
        BY <1>3, <2>1, <3>2 DEF Landed
      <4> QED BY <2>2, <3>2, <4>2, <4>3 DEF Landed, NoOps
    <3> QED BY <1>6, <3>1, <3>2
  <2>3. CommittedUpTo(0)' /\ 0 \in 0 .. Len(entries')
    BY <1>8 DEF CommittedUpTo
  <2>4. CASE remotes > 0
    <3>1. Gap'
      BY <1>1, <1>7, <1>8, <2>2, <2>4 DEF Gap
    <3> QED BY <1>1, <2>3, <2>4, <3>1 DEF RowFollows
  <2>5. CASE ~(remotes > 0)
    <3>1. remotes = 0
      BY <1>3, <2>5
    <3>2. PICK i \in 0 .. n : listRead = ValueAfter(durable, entries, i)
      BY <1>6, <2>1, <3>1
    <3>3. ValueAfter(durable, entries, n) = listRead
      <4>1. CASE m = n
        <5>1. ~(i < m)
          BY <1>5, <3>2
        <5>2. i = n
          BY <1>3, <3>2, <4>1, <5>1
        <5> QED BY <3>2, <5>2
      <4>2. CASE m # n
        <5>1. ASSUME m < n, entries' = SubSeq(entries, m + 1, n) PROVE FALSE
          <6>1. m \in 0 .. n - 1 /\ entries \in Seq(Intents)
            BY <1>3, <5>1 DEF ChapterShape
          <6>2. Len(entries') = n - m
            BY <5>1, <6>1, SuffixFacts
          <6>3. Len(entries') = 0
            BY <1>8
          <6> QED BY <1>3, <5>1, <6>2, <6>3
        <5> QED BY <1>5, <4>2, <5>1
      <4> QED BY <4>1, <4>2
    <3>4. row = listRead
      BY <1>6, <2>1, <3>1, <3>3 DEF Landed
    <3>5. ValueAfter(durable', entries', 0) = listRead
      BY <1>4 DEF ValueAfter
    <3>6. NoOps'
      <4> SUFFICES ASSUME NEW q \in Presses, Live(q)', NEW j \in 0 .. 0
                   PROVE  Patched(ValueAfter(durable', entries', j), action'[q].gesture) = ValueAfter(durable', entries', j)
        BY <1>8 DEF NoOps
      <4>1. j = 0
        OBVIOUS
      <4> QED BY <1>1, <1>7, <2>2, <3>4, <3>5, <4>1
    <3>7. Landed(0)'
      BY <1>1, <3>4, <3>5, <3>6 DEF Landed
    <3>8. \E j \in 0 .. 0 : listRead' = ValueAfter(durable', entries', j)
      BY <1>1, <3>5
    <3> QED BY <2>3, <3>7, <3>8 DEF RowFollows
  <2> QED BY <2>4, <2>5
<1>9. CASE entries' # <<>>
  <2>1. m < n /\ entries' = SubSeq(entries, m + 1, n) /\ ValueAfter(durable, entries, m) = listRead
    BY <1>5, <1>9
  <2>2. /\ Len(entries') = n - m
        /\ \A i \in 1 .. n - m : entries'[i] = entries[m + i] /\ m + i \in 1 .. n
        /\ \A i \in 0 .. n - m :
             /\ m + i \in 0 .. n
             /\ ValueAfter(durable', entries', i) = ValueAfter(durable, entries, m + i)
    BY <1>4, <2>1, RenderSuffix
  <2>3. Landed(k)
    <3>1. n # 0
      BY <1>5, <2>1
    <3>2. entries # <<>>
      BY <3>1
    <3> QED BY <1>6, <3>2 DEF Gap
  <2>4. ASSUME NEW i \in 1 .. m PROVE entries[i] \in ToSet(entries) \ ToSet(entries') /\ i \in 1 .. n
    <3>1. i \in 1 .. n
      BY <1>3, <1>5, <2>1
    <3>2. entries[i] \in ToSet(entries)
      BY <3>1 DEF ToSet, ChapterShape
    <3>3. ASSUME entries[i] \in ToSet(entries') PROVE FALSE
      <4>1. PICK j \in 1 .. n - m : entries[i] = entries'[j]
        <5>1. entries' \in Seq(Intents)
          BY RenderOrder
        <5> QED BY <2>2, <3>3, <5>1 DEF ToSet
      <4>2. m + j \in 1 .. n /\ i < m + j /\ entries[i] = entries[m + j]
        BY <1>3, <1>5, <2>2, <4>1
      <4>3. entries[i].id < entries[m + j].id /\ entries[i].id \in Presses
        BY <3>1, <4>2, EntryFacts
      <4> QED BY <4>2, <4>3 DEF Presses
    <3> QED BY <3>1, <3>2, <3>3
  <2>5. m <= k
    <3> SUFFICES ASSUME k < m PROVE FALSE
      BY <1>3, <1>5, <1>6
    <3>1. m \in 1 .. m /\ ~(m <= k)
      BY <1>5, <1>6
    <3>2. ~Waiting(entries[m].id)
      BY <1>1, <2>4, <3>1
    <3>3. Waiting(entries[m].id)
      BY <1>6, <2>4, <3>1 DEF CommittedUpTo
    <3> QED BY <3>2, <3>3
  <2>6. PICK d \in 0 .. n - m : m + d = k
    <3>1. k - m \in 0 .. n - m /\ m + (k - m) = k
      BY <1>3, <1>5, <1>6, <2>5
    <3> QED BY <3>1
  <2>7. CommittedUpTo(d)'
    <3> SUFFICES ASSUME NEW i \in 1 .. n - m
                 PROVE  IF i <= d THEN action[entries'[i].id].write = "committed"
                                  ELSE action[entries'[i].id].write \in {"queued", "open"}
      BY <1>1, <2>2 DEF CommittedUpTo, Committed, Waiting
    <3>1. entries'[i] = entries[m + i] /\ m + i \in 1 .. n
      BY <2>2
    <3>2. m + i <= k <=> i <= d
      BY <1>5, <2>6
    <3>3. IF m + i <= k THEN action[entries[m + i].id].write = "committed"
                        ELSE action[entries[m + i].id].write \in {"queued", "open"}
      BY <1>6, <3>1 DEF CommittedUpTo, Committed, Waiting
    <3> QED BY <3>1, <3>2, <3>3
  <2>8. ASSUME NEW q \in Presses, Live(q), Unshown(q)', NEW j \in 0 .. n - m, Splits(q, j)'
        PROVE  Unshown(q) /\ Splits(q, m + j)
    <3>1. ASSUME NEW i \in 1 .. n
          PROVE  entries[i].id # q /\ IF i <= m + j THEN entries[i].id < q ELSE q < entries[i].id
      <4>1. CASE i <= m
        <5>1. i <= m + j /\ i <= k
          BY <1>3, <1>5, <2>5, <4>1
        <5>2. Committed(entries[i].id) /\ entries[i].id \in Presses
          BY <1>6, <5>1, EntryFacts DEF CommittedUpTo
        <5>3. Waiting(q)
          BY <2>8 DEF Live
        <5>4. entries[i].id < q
          BY <5>2, <5>3 DEF WritesInOrder
        <5>5. entries[i].id # q
          BY <5>2, <5>3, WaitingIsNotOver
        <5> QED BY <5>1, <5>4, <5>5
      <4>2. CASE ~(i <= m)
        <5>1. PICK o \in 1 .. n - m : m + o = i
          <6>1. i - m \in 1 .. n - m /\ m + (i - m) = i
            BY <1>3, <1>5, <4>2
          <6> QED BY <6>1
        <5>2. entries'[o] = entries[i] /\ o \in 1 .. Len(entries')
          BY <2>2, <5>1
        <5>3. entries'[o].id # q /\ IF o <= j THEN entries'[o].id < q ELSE q < entries'[o].id
          BY <2>8, <5>2 DEF Unshown, Splits
        <5>4. o <= j <=> i <= m + j
          BY <1>5, <5>1
        <5> QED BY <5>2, <5>3, <5>4
      <4> QED BY <4>1, <4>2
    <3> QED BY <3>1 DEF Unshown, Splits
  <2>9. NoOps'
    <3> SUFFICES ASSUME NEW q \in Presses, Live(q)', Unshown(q)', NEW j \in 0 .. n - m, Splits(q, j)'
                 PROVE  Patched(ValueAfter(durable', entries', j), action'[q].gesture) = ValueAfter(durable', entries', j)
      BY <2>2 DEF NoOps
    <3>1. Live(q) /\ Unshown(q) /\ Splits(q, m + j) /\ m + j \in 0 .. n
      BY <1>7, <2>2, <2>8
    <3>2. Patched(ValueAfter(durable, entries, m + j), action[q].gesture) = ValueAfter(durable, entries, m + j)
      BY <2>3, <3>1 DEF Landed, NoOps
    <3> QED BY <1>1, <2>2, <3>2
  <2>10. Landed(d)'
    <3>1. row = ValueAfter(durable, entries, k)
      BY <2>3 DEF Landed
    <3>2. ValueAfter(durable', entries', d) = ValueAfter(durable, entries, k)
      BY <2>2, <2>6
    <3> QED BY <1>1, <2>9, <3>1, <3>2 DEF Landed
  <2>11. \E j \in 0 .. d : listRead' = ValueAfter(durable', entries', j)
    <3>1. 0 \in 0 .. d /\ ValueAfter(durable', entries', 0) = listRead'
      BY <1>1, <1>4, <2>6 DEF ValueAfter
    <3> QED BY <3>1
  <2>12. d \in 0 .. Len(entries')
    BY <2>2, <2>6
  <2> QED BY <2>7, <2>10, <2>11, <2>12 DEF RowFollows
<1> QED BY <1>8, <1>9

(***************************************************************************)
(* The actions.                                                            *)
(***************************************************************************)

\* The rows the start and a remote write choose from are rows.
LEMMA StartRowsTyped == StartRows \subseteq AnyRows
BY ChapterAssumption DEF StartRows, AnyRows

\* The invariant holds at the start: nothing is shown, and the row is the one rendered.
LEMMA ChapterInitInv == ChapterInit => ChapterInv
<1> SUFFICES ASSUME ChapterInit PROVE ChapterInv
  OBVIOUS
<1>1. /\ row \in StartRows /\ durable = row /\ listRead = row
      /\ door = <<>> /\ open = {} /\ entries = <<>>
      /\ action = [p \in Presses |-> Unpressed] /\ remotes = 0 /\ disturbed = FALSE
  BY DEF ChapterInit
<1>2. row \in AnyRows
  BY <1>1, StartRowsTyped
<1>3. Unpressed \in Acts
  BY DEF Acts, Writes, Unpressed
<1>4. ChapterShape
  <2>1. action \in [Presses -> Acts]
    BY <1>1, <1>3
  <2>2. entries \in Seq(Intents) /\ door \in Seq(Presses) /\ open \subseteq Presses
    BY <1>1
  <2> QED BY <1>1, <1>2, <2>1, <2>2 DEF ChapterShape
<1>5. \A p \in Presses : action[p] = Unpressed /\ ~Waiting(p) /\ ~Committed(p) /\ action[p].write = "none" /\ action[p].caller # "waiting"
  BY <1>1, UnpressedFacts
<1>6. WritesInOrder
  <2>1. \A p \in Presses : ~InDoor(p) /\ p \notin open
    BY <1>1 DEF InDoor
  <2> QED BY <1>1, <1>5, <2>1 DEF WritesInOrder
<1>7. row # Missing
  BY <1>2 DEF AnyRows, Missing
<1>8. EntriesInOrder
  BY <1>1, <1>7 DEF EntriesInOrder, Chained
<1>9. NoOps
  BY <1>5 DEF NoOps, Live
<1>10. RowFollows
  <2>1. CommittedUpTo(0) /\ 0 \in 0 .. Len(entries)
    BY <1>1 DEF CommittedUpTo
  <2>2. Landed(0) /\ \E i \in 0 .. 0 : listRead = ValueAfter(durable, entries, i)
    BY <1>1, <1>9 DEF Landed, ValueAfter
  <2> QED BY <2>1, <2>2 DEF RowFollows
<1> QED BY <1>4, <1>6, <1>8, <1>10 DEF ChapterInv

\* A gesture keeps the invariant: its write goes last in the door, its intent last in the chain.
LEMMA PressInv == ChapterInv /\ Press => ChapterInv'
<1> SUFFICES ASSUME ChapterInv, Press PROVE ChapterInv'
  OBVIOUS
<1>0. ChapterShape /\ WritesInOrder /\ EntriesInOrder /\ RowFollows
  BY DEF ChapterInv
<1>1. PICK p \in Presses, g \in Gestures :
        /\ action[p] = Unpressed /\ \A q \in 1 .. p - 1 : action[q] # Unpressed
        /\ entries' = AcceptedIntent(p, g)
        /\ action' = [action EXCEPT ![p] = [gesture |-> g, write |-> "queued", caller |-> "waiting"]]
        /\ door' = Append(door, p)
        /\ disturbed' = (disturbed \/ (remotes > 0 /\ durable # row))
        /\ UNCHANGED <<row, open, durable, listRead, remotes>>
  BY DEF Press
<1>2. WritesInOrder'
  BY <1>0, <1>1, PressOrder
<1>3. EntriesInOrder' /\ entries' \in Seq(Intents)
  BY <1>0, <1>1, PressEntries
<1>4. action' \in [Presses -> Acts]
  BY <1>0, <1>1, PressEdit DEF ChapterShape
<1>5. ChapterShape'
  <2>1. door' \in Seq(Presses) /\ disturbed' \in BOOLEAN
    BY <1>0, <1>1 DEF ChapterShape
  <2> QED BY <1>0, <1>1, <1>3, <1>4, <2>1 DEF ChapterShape
<1>6. RowFollows'
  <2>1. CASE ~disturbed' /\ row # Missing
    BY <1>0, <1>1, <2>1, PressFollows
  <2>2. CASE disturbed' \/ row = Missing
    BY <1>1, <2>2 DEF RowFollows
  <2> QED BY <2>1, <2>2
<1> QED BY <1>2, <1>3, <1>5, <1>6 DEF ChapterInv

\* A gesture without a database shows nothing and queues nothing.
LEMMA SkippedInv == ChapterInv /\ PressWithoutDatabase => ChapterInv'
<1> SUFFICES ASSUME ChapterInv, PressWithoutDatabase PROVE ChapterInv'
  OBVIOUS
<1>0. ChapterShape /\ WritesInOrder /\ EntriesInOrder /\ RowFollows
  BY DEF ChapterInv
<1>1. PICK p \in Presses :
        /\ action[p] = Unpressed /\ \A q \in 1 .. p - 1 : action[q] # Unpressed
        /\ durable = Missing
        /\ action' = [action EXCEPT ![p].caller = "told"]
        /\ UNCHANGED <<row, door, open, entries, durable, listRead, remotes, disturbed>>
  BY DEF PressWithoutDatabase
<1>2. WritesInOrder'
  BY <1>0, <1>1, ToldOrder
<1>3. /\ action' \in [Presses -> Acts]
      /\ \A q \in Presses \ {p} : action'[q] = action[q]
  BY <1>0, <1>1, CallerEdit DEF ChapterShape
<1>4. ChapterShape'
  BY <1>0, <1>1, <1>3 DEF ChapterShape
<1>5. row = Missing
  BY <1>0, <1>1 DEF EntriesInOrder
<1>6. RowFollows'
  BY <1>1, <1>5 DEF RowFollows
<1>7. EntriesInOrder'
  <2>1. PICK l \in 0 .. Len(entries) : l = Len(entries) /\ entries' = SubSeq(entries, 1, l)
    <3>1. Len(entries) \in Nat /\ entries \in Seq(Intents)
      BY <1>0 DEF ChapterShape
    <3> QED BY <1>1, <3>1
  <2>2. ASSUME NEW i \in 1 .. l
        PROVE  /\ action'[entries[i].id].gesture = action[entries[i].id].gesture
               /\ Stands(action'[entries[i].id])
    <3>1. entries[i].id \in Presses /\ (Waiting(entries[i].id) \/ Committed(entries[i].id)) /\ Stands(action[entries[i].id])
      BY <1>0, <2>1, EntryFacts
    <3>2. entries[i].id # p
      BY <1>1, <3>1, UnpressedFacts
    <3> QED BY <1>3, <3>1, <3>2
  <2>3. durable' = durable /\ listRead' = listRead /\ (row = Missing => row' = Missing)
    BY <1>1
  <2> QED BY <1>0, <2>1, <2>2, <2>3, PrefixInOrder
<1> QED BY <1>2, <1>4, <1>6, <1>7 DEF ChapterInv

\* A transaction that opens keeps it: the head of the door is the earliest write that waits.
LEMMA BeginInv ==
  ASSUME ChapterInv, NEW p \in Presses, BeginTransaction(p)
  PROVE  ChapterInv'
<1>0. ChapterShape /\ WritesInOrder /\ EntriesInOrder /\ RowFollows
  BY DEF ChapterInv
<1>1. /\ action' = [action EXCEPT ![p].write = "open"] /\ door # <<>> /\ Head(door) = p
      /\ open' = {p} /\ door' = Tail(door) /\ UNCHANGED <<row, entries, durable, listRead, remotes, disturbed>>
  BY DEF BeginTransaction
<1>2. WritesInOrder' /\ EntriesInOrder' /\ RowFollows'
  BY <1>0, BeginOrder, BeginFollows
<1>3. action' \in [Presses -> Acts]
  BY <1>0, <1>1, OpenEdit DEF ChapterShape
<1>4. door' \in Seq(Presses)
  BY <1>0, <1>1, HeadLeaves
<1>5. ChapterShape'
  BY <1>0, <1>1, <1>3, <1>4 DEF ChapterShape
<1> QED BY <1>2, <1>5 DEF ChapterInv

\* A write that fails or finds no row keeps it: its intent goes, with those after it.
LEMMA FailInv ==
  ASSUME ChapterInv, NEW p \in Presses, BeginFails(p) \/ RollBack(p) \/ FindsNothing(p)
  PROVE  ChapterInv'
<1>0. ChapterShape /\ WritesInOrder /\ EntriesInOrder /\ RowFollows
  BY DEF ChapterInv
<1>1. PICK w \in {"absent", "failed"} :
        /\ action' = [action EXCEPT ![p].write = w, ![p].caller = "told"]
        /\ entries' = IF action[p].caller = "waiting" THEN Dropped(p) ELSE entries
        /\ disturbed' = (disturbed \/ door' # <<>>)
        /\ UNCHANGED <<row, durable, listRead, remotes>>
        /\ \/ /\ door # <<>> /\ Head(door) = p /\ door' = Tail(door) /\ open' = open /\ open = {}
           \/ p \in open /\ open' = open \ {p} /\ door' = door
  <2>1. CASE BeginFails(p)
    BY <2>1 DEF BeginFails, Settles
  <2>2. CASE RollBack(p)
    BY <2>2 DEF RollBack, Settles
  <2>3. CASE FindsNothing(p)
    BY <2>3 DEF FindsNothing, Settles
  <2> QED BY <2>1, <2>2, <2>3
<1>2. w \in Writes /\ w # "committed" /\ w \notin {"queued", "open"} /\ w \in {"committed", "absent", "failed"}
  BY DEF Writes
<1>3. WritesInOrder'
  BY <1>0, <1>1, <1>2, SettleOrder
<1>4. /\ action' \in [Presses -> Acts]
      /\ \A q \in Presses \ {p} : action'[q] = action[q]
      /\ action'[p].write = w
  BY <1>0, <1>1, <1>2, SettleEdit DEF ChapterShape
<1>5. Waiting(p) /\ door' \in Seq(Presses)
  <2>1. CASE p \in open /\ door' = door
    BY <1>0, <2>1 DEF Waiting, WritesInOrder, ChapterShape
  <2>2. CASE door # <<>> /\ Head(door) = p /\ door' = Tail(door)
    <3>1. action[p].write = "queued" /\ door' \in Seq(Presses)
      BY <1>0, <2>2, HeadLeaves
    <3> QED BY <3>1 DEF Waiting
  <2> QED BY <1>1, <2>1, <2>2
<1>6. PICK l \in 0 .. Len(entries) :
           /\ entries' = SubSeq(entries, 1, l)
           /\ l < Len(entries) => entries[l + 1].id = p
           /\ \A i \in 1 .. l : entries[i].id # p
  BY <1>0, <1>1, <1>5, FailedPrefix
<1>7. entries' \in Seq(Intents) /\ l \in Nat /\ l <= Len(entries)
  BY <1>0, <1>6, PrefixLeft
<1>8. ChapterShape'
  <2>1. disturbed' \in BOOLEAN
    BY <1>1
  <2>2. open' \subseteq Presses
    BY <1>0, <1>1 DEF ChapterShape
  <2> QED BY <1>0, <1>1, <1>4, <1>5, <1>7, <2>1, <2>2 DEF ChapterShape
<1>9. EntriesInOrder'
  <2>1. ASSUME NEW i \in 1 .. l
        PROVE  /\ action'[entries[i].id].gesture = action[entries[i].id].gesture
               /\ Stands(action'[entries[i].id])
    <3>1. i \in 1 .. Len(entries)
      BY <1>7
    <3>2. entries[i].id \in Presses /\ entries[i].id # p /\ Stands(action[entries[i].id])
      BY <1>0, <1>6, <3>1, EntryFacts
    <3> QED BY <1>4, <3>2
  <2>2. durable' = durable /\ listRead' = listRead /\ (row = Missing => row' = Missing)
    BY <1>1
  <2> QED BY <1>0, <1>6, <2>1, <2>2, PrefixInOrder
<1>10. ASSUME ~disturbed', row # Missing PROVE RowFollows'
  <2>1. ~disturbed /\ door' = <<>>
    BY <1>1, <1>10
  <2>2. ~Waiting(p)'
    BY <1>2, <1>4 DEF Waiting
  <2>3. ASSUME NEW q \in Presses, Waiting(q), q # p PROVE FALSE
    <3>1. action'[q] = action[q]
      BY <1>4, <2>3
    <3>2. q \notin open' /\ ~InDoor(q)'
      <4>1. open' = {}
        BY <1>0, <1>1 DEF WritesInOrder
      <4>2. ~InDoor(q)'
        BY <2>1 DEF InDoor
      <4> QED BY <4>1, <4>2
    <3>3. action'[q].write # "queued" /\ action'[q].write # "open"
      BY <1>3, <3>2 DEF WritesInOrder
    <3> QED BY <2>3, <3>1, <3>3 DEF Waiting
  <2>4. \A q \in Presses : Waiting(q) => q = p
    BY <2>3
  <2>5. \A q \in Presses : q # p => action'[q] = action[q]
    BY <1>4
  <2> QED BY <1>0, <1>1, <1>5, <1>6, <1>10, <2>1, <2>2, <2>4, <2>5, LastWriteFails
<1>11. RowFollows'
  <2>1. CASE disturbed' \/ row = Missing
    BY <1>1, <2>1 DEF RowFollows
  <2> QED BY <1>10, <2>1
<1> QED BY <1>3, <1>8, <1>9, <1>11 DEF ChapterInv

\* A commit keeps it: the row moves to the next value of the chain.
LEMMA CommitInv ==
  ASSUME ChapterInv, NEW p \in Presses, Commit(p)
  PROVE  ChapterInv'
<1>0. ChapterShape /\ WritesInOrder /\ EntriesInOrder /\ RowFollows
  BY DEF ChapterInv
<1>1. /\ p \in open /\ row # Missing /\ open' = open \ {p}
      /\ row' = Patched(row, action[p].gesture)
      /\ action' = [action EXCEPT ![p].write = "committed", ![p].caller = "told"]
      /\ entries' = entries
      /\ disturbed' = (disturbed \/ ~(action[p].caller = "waiting"))
      /\ UNCHANGED <<door, durable, listRead, remotes>>
  BY DEF Commit, Settles
<1>2. WritesInOrder'
  <2>1. PICK w \in {"committed", "absent", "failed"} : w = "committed"
    OBVIOUS
  <2> QED BY <1>0, <1>1, <2>1, SettleOrder
<1>3. /\ action' \in [Presses -> Acts]
      /\ \A q \in Presses \ {p} : action'[q] = action[q]
      /\ action'[p].write = "committed" /\ action'[p].gesture = action[p].gesture
  BY <1>0, <1>1, SettleEdit DEF ChapterShape, Writes
<1>4. row' \in AnyRows
  <2>1. action[p].gesture \in Gestures
    BY <1>0, <1>1 DEF WritesInOrder, Waiting
  <2>2. row \in AnyRows
    BY <1>0, <1>1 DEF ChapterShape
  <2> QED BY <1>1, <2>1, <2>2, PatchedTyped
<1>5. ChapterShape'
  BY <1>0, <1>1, <1>3, <1>4 DEF ChapterShape
<1>6. EntriesInOrder'
  <2>1. PICK l \in 0 .. Len(entries) : l = Len(entries) /\ entries' = SubSeq(entries, 1, l)
    <3>1. Len(entries) \in Nat /\ entries \in Seq(Intents)
      BY <1>0 DEF ChapterShape
    <3> QED BY <1>1, <3>1
  <2>2. ASSUME NEW i \in 1 .. l
        PROVE  /\ action'[entries[i].id].gesture = action[entries[i].id].gesture
               /\ Stands(action'[entries[i].id])
    <3>1. entries[i].id \in Presses /\ Stands(action[entries[i].id])
      BY <1>0, <2>1, EntryFacts
    <3>2. CASE entries[i].id = p
      BY <1>3, <3>2 DEF Stands
    <3>3. CASE entries[i].id # p
      BY <1>3, <3>1, <3>3
    <3> QED BY <3>2, <3>3
  <2>3. durable' = durable /\ listRead' = listRead /\ (row = Missing => row' = Missing)
    BY <1>1
  <2> QED BY <1>0, <2>1, <2>2, <2>3, PrefixInOrder
<1>7. RowFollows'
  <2>1. CASE ~disturbed'
    BY <1>0, <1>1, <2>1, CommitFollows
  <2>2. CASE disturbed'
    BY <2>2 DEF RowFollows
  <2> QED BY <2>1, <2>2
<1> QED BY <1>2, <1>5, <1>6, <1>7 DEF ChapterInv

\* A deadline keeps it: the intent that goes is of a write that may still land, unshown.
LEMMA DeadlineInv ==
  ASSUME ChapterInv, NEW p \in Presses, DeadlinePasses(p)
  PROVE  ChapterInv'
<1>0. ChapterShape /\ WritesInOrder /\ EntriesInOrder /\ RowFollows
  BY DEF ChapterInv
<1>1. /\ action[p].caller = "waiting" /\ entries' = Dropped(p)
      /\ action' = [action EXCEPT ![p].caller = "told"]
      /\ UNCHANGED <<row, door, open, durable, listRead, remotes, disturbed>>
  BY DEF DeadlinePasses
<1>2. WritesInOrder'
  <2>1. action[p] # Unpressed
    BY <1>1 DEF Unpressed
  <2> QED BY <1>0, <1>1, <2>1, ToldOrder
<1>3. /\ action' \in [Presses -> Acts]
      /\ \A q \in Presses \ {p} : action'[q] = action[q]
  BY <1>0, <1>1, CallerEdit DEF ChapterShape
<1>4. PICK l \in 0 .. Len(entries) :
           /\ entries' = SubSeq(entries, 1, l)
           /\ l < Len(entries) => entries[l + 1].id = p
           /\ \A i \in 1 .. l : entries[i].id # p
  <2>1. entries \in Seq(Intents)
    BY <1>0 DEF ChapterShape
  <2> QED BY <1>1, <2>1, DroppedIsPrefix
<1>5. entries' \in Seq(Intents) /\ l \in Nat /\ l <= Len(entries)
  BY <1>0, <1>4, PrefixLeft
<1>6. ChapterShape'
  BY <1>0, <1>1, <1>3, <1>5 DEF ChapterShape
<1>7. EntriesInOrder'
  <2>1. ASSUME NEW i \in 1 .. l
        PROVE  /\ action'[entries[i].id].gesture = action[entries[i].id].gesture
               /\ Stands(action'[entries[i].id])
    <3>1. i \in 1 .. Len(entries)
      BY <1>5
    <3>2. entries[i].id \in Presses /\ entries[i].id # p /\ Stands(action[entries[i].id])
      BY <1>0, <1>4, <3>1, EntryFacts
    <3> QED BY <1>3, <3>2
  <2>2. durable' = durable /\ listRead' = listRead /\ (row = Missing => row' = Missing)
    BY <1>1
  <2> QED BY <1>0, <1>4, <2>1, <2>2, PrefixInOrder
<1>8. RowFollows'
  <2>1. CASE ~disturbed /\ row # Missing
    BY <1>0, <1>1, <1>4, <2>1, DeadlineFollows
  <2>2. CASE disturbed \/ row = Missing
    BY <1>1, <2>2 DEF RowFollows
  <2> QED BY <2>1, <2>2
<1> QED BY <1>2, <1>6, <1>7, <1>8 DEF ChapterInv

\* The list and the other writers keep it.
LEMMA ListInv == ChapterInv /\ (ListRenders \/ ListReads \/ RemoteWrites) => ChapterInv'
<1> SUFFICES ASSUME ChapterInv, ListRenders \/ ListReads \/ RemoteWrites PROVE ChapterInv'
  OBVIOUS
<1>0. ChapterShape /\ WritesInOrder /\ EntriesInOrder /\ RowFollows
  BY DEF ChapterInv
<1>1. UNCHANGED <<door, open, action>>
  BY DEF ListRenders, ListReads, RemoteWrites
<1>2. WritesInOrder'
  BY <1>0, <1>1 DEF WritesInOrder, Waiting, Committed, InDoor
<1>3. CASE ListRenders
  <2>1. EntriesInOrder' /\ entries' \in Seq(Intents)
    BY <1>0, <1>3, RenderOrder
  <2>2. durable' = listRead /\ disturbed' \in BOOLEAN /\ UNCHANGED <<row, listRead, remotes>>
    BY <1>0, <1>3 DEF ListRenders, ChapterShape
  <2>3. ChapterShape'
    BY <1>0, <1>1, <2>1, <2>2 DEF ChapterShape
  <2>4. RowFollows'
    <3>1. CASE ~disturbed' /\ row # Missing
      BY <1>0, <1>3, <3>1, RenderFollows
    <3>2. CASE disturbed' \/ row = Missing
      BY <2>2, <3>2 DEF RowFollows
    <3> QED BY <3>1, <3>2
  <2> QED BY <1>2, <2>1, <2>3, <2>4 DEF ChapterInv
<1>4. CASE ListReads
  <2>1. listRead' = row /\ UNCHANGED <<row, entries, durable, remotes, disturbed>>
    BY <1>4 DEF ListReads
  <2>2. ChapterShape'
    BY <1>0, <1>1, <2>1 DEF ChapterShape
  <2>3. EntriesInOrder'
    BY <1>0, <1>1, <2>1 DEF EntriesInOrder
  <2>4. RowFollows'
    <3> SUFFICES ASSUME ~disturbed, row # Missing PROVE RowFollows'
      BY <2>1 DEF RowFollows
    <3>1. PICK k \in 0 .. Len(entries) :
            /\ CommittedUpTo(k)
            /\ Landed(k) \/ Gap
            /\ remotes = 0 => Landed(k) /\ \E i \in 0 .. k : listRead = ValueAfter(durable, entries, i)
      BY <1>0 DEF RowFollows
    <3>2. CommittedUpTo(k)'
      BY <1>1, <2>1, <3>1 DEF CommittedUpTo, Committed, Waiting
    <3>3. Landed(k) => Landed(k)'
      BY <1>1, <2>1 DEF Landed, NoOps, Unshown, Splits, Live, Waiting
    <3>4. Gap => Gap'
      BY <1>1, <2>1 DEF Gap, Live, Waiting
    <3>5. Landed(k) => \E i \in 0 .. k : listRead' = ValueAfter(durable', entries', i)
      <4>1. k \in 0 .. k
        BY <3>1
      <4> QED BY <2>1, <4>1 DEF Landed
    <3> QED BY <2>1, <3>1, <3>2, <3>3, <3>4, <3>5 DEF RowFollows
  <2> QED BY <1>2, <2>2, <2>3, <2>4 DEF ChapterInv
<1>5. CASE RemoteWrites
  <2>1. EntriesInOrder' /\ RowFollows'
    BY <1>0, <1>5, RemoteFollows
  <2>2. /\ remotes' = remotes + 1 /\ row' \in StartRows \cup {Missing}
        /\ disturbed' \in BOOLEAN /\ UNCHANGED <<entries, durable, listRead>>
    BY <1>0, <1>5 DEF RemoteWrites, ChapterShape
  <2>3. row' \in AnyRows \cup {Missing} /\ remotes' \in Nat
    BY <1>0, <2>2, StartRowsTyped DEF ChapterShape
  <2>4. ChapterShape'
    BY <1>0, <1>1, <2>2, <2>3 DEF ChapterShape
  <2> QED BY <1>2, <2>1, <2>4 DEF ChapterInv
<1> QED BY <1>3, <1>4, <1>5

\* What the observations and the settled operations do not touch.
LEMMA QuietInv ==
  ASSUME ChapterInv, UNCHANGED <<row, door, open, action, entries, durable, listRead, remotes, disturbed>>
  PROVE  ChapterInv'
<1>1. ChapterShape'
  BY DEF ChapterInv, ChapterShape
<1>2. WritesInOrder'
  BY DEF ChapterInv, WritesInOrder, Waiting, Committed, InDoor
<1>3. EntriesInOrder'
  BY DEF ChapterInv, EntriesInOrder
<1>4. \A p : Live(p)' <=> Live(p)
  BY DEF Live, Waiting
<1>5. NoOps' <=> NoOps
  BY <1>4 DEF NoOps, Unshown, Splits
<1>6. Gap' <=> Gap
  BY <1>4 DEF Gap
<1>7. \A k : CommittedUpTo(k)' <=> CommittedUpTo(k)
  BY DEF CommittedUpTo, Committed, Waiting
<1>8. \A k : Landed(k)' <=> Landed(k)
  BY <1>5 DEF Landed
<1>9. RowFollows'
  BY <1>6, <1>7, <1>8 DEF ChapterInv, RowFollows
<1> QED BY <1>1, <1>2, <1>3, <1>9 DEF ChapterInv

\* Every step keeps the invariant.
LEMMA ChapterStep == ChapterInv /\ [ChapterNext]_chapterVars => ChapterInv'
<1> SUFFICES ASSUME ChapterInv, [ChapterNext]_chapterVars PROVE ChapterInv'
  OBVIOUS
<1>1. CASE Press
  BY <1>1, PressInv
<1>2. CASE PressWithoutDatabase
  BY <1>2, SkippedInv
<1>3. CASE OperationsSettle
  <2>1. UNCHANGED <<row, door, open, action, entries, durable, listRead, remotes, disturbed>>
    BY <1>3 DEF OperationsSettle
  <2> QED BY <2>1, QuietInv
<1>4. CASE RemoteWrites \/ ListReads \/ ListRenders
  BY <1>4, ListInv
<1>5. ASSUME NEW p \in Presses,
             \/ BeginTransaction(p) \/ BeginFails(p) \/ Commit(p) \/ FindsNothing(p)
             \/ RollBack(p) \/ DeadlinePasses(p) \/ FlushSettles(p)
      PROVE  ChapterInv'
  <2>1. CASE FlushSettles(p)
    <3>1. UNCHANGED <<row, door, open, action, entries, durable, listRead, remotes, disturbed>>
      BY <2>1 DEF FlushSettles
    <3> QED BY <3>1, QuietInv
  <2> QED BY <1>5, <2>1, BeginInv, FailInv, CommitInv, DeadlineInv
<1>6. CASE UNCHANGED chapterVars
  <2>1. UNCHANGED <<row, door, open, action, entries, durable, listRead, remotes, disturbed>>
    BY <1>6 DEF chapterVars
  <2> QED BY <2>1, QuietInv
<1> QED BY <1>1, <1>2, <1>3, <1>4, <1>5, <1>6 DEF ChapterNext

\* With every write over, the chain ends at the row.
LEMMA SettledOnRow == ChapterInv => ScreenSettlesOnRow
<1> SUFFICES ASSUME ChapterInv, ~disturbed, \A p \in Presses : ~Waiting(p), row # Missing,
                    durable = row, listRead = row
             PROVE  Shown(row) = row
  BY DEF ScreenSettlesOnRow
<1> DEFINE n == Len(entries)
<1>0. ChapterShape /\ WritesInOrder /\ EntriesInOrder /\ RowFollows
  BY DEF ChapterInv
<1>1. n \in Nat /\ entries \in Seq(Intents)
  BY <1>0 DEF ChapterShape
<1>2. Shown(row) = ValueAfter(row, entries, n)
  BY <1>0, <1>1, ShownIsLast DEF EntriesInOrder
<1>3. PICK k \in 0 .. n : CommittedUpTo(k) /\ (Landed(k) \/ Gap)
  BY <1>0 DEF RowFollows
<1>4. k = n
  <2> SUFFICES ASSUME k < n PROVE FALSE
    BY <1>1, <1>3
  <2>1. n \in 1 .. n /\ ~(n <= k)
    BY <1>1, <1>3
  <2>2. Waiting(entries[n].id) /\ entries[n].id \in Presses
    BY <1>0, <1>3, <2>1, EntryFacts DEF CommittedUpTo
  <2> QED BY <2>2
<1>5. CASE Landed(k)
  BY <1>2, <1>4, <1>5 DEF Landed
<1>6. CASE Gap
  <2>1. n = 0
    BY <1>6 DEF Gap
  <2> QED BY <1>2, <2>1 DEF ValueAfter
<1> QED BY <1>3, <1>5, <1>6

\* Whatever the gestures, the rows and their number: with every write over and the row
\* rendered, the card shows the row, unless the row left the chain of the intents
\* (anime-mutation-projection.helpers.ts).
THEOREM ScreenSettles == ChapterSpec => []ScreenSettlesOnRow
<1>1. ChapterInit => ChapterInv
  BY ChapterInitInv
<1>2. ChapterInv /\ [ChapterNext]_chapterVars => ChapterInv'
  BY ChapterStep
<1>3. ChapterInv => ScreenSettlesOnRow
  BY SettledOnRow
<1> QED BY <1>1, <1>2, <1>3, PTL DEF ChapterSpec

(***************************************************************************)
(* The types, and what is reported.                                        *)
(***************************************************************************)

\* How far the row can be counted: two halves a committed gesture, and an intent no further
\* than its place among the gestures.
CountedTo(b) == TotalChapters + 2 * b
CommitsUpTo(b) == \A p \in Presses : Committed(p) => p <= b
RowsBounded ==
  /\ \A b \in Nat : CommitsUpTo(b) =>
       row.seen <= CountedTo(b) /\ durable.seen <= CountedTo(b) /\ listRead.seen <= CountedTo(b)
  /\ \A i \in 1 .. Len(entries) :
       entries[i].base.seen <= CountedTo(entries[i].id - 1) /\ entries[i].projected.seen <= CountedTo(entries[i].id)

\* A caller that still waits has heard nothing, and the one that was told heard one verdict.
ChapterPhases == {"received", "skipped", "failed", "committed", "sync"}
ChapterVerdicts == {"skipped", "failed", "committed"}
Reported ==
  /\ report \in [Presses -> SUBSET ChapterPhases]
  /\ \A p \in Presses :
       /\ action[p].caller # "told" => report[p] \cap ChapterVerdicts = {}
       /\ \A x, y \in report[p] \cap ChapterVerdicts : x = y
       /\ "committed" \in report[p] => Committed(p)

Counted == unsent \subseteq Presses /\ remotes <= MaxRemote

TypesInv == ChapterInv /\ RowsBounded /\ Reported /\ Counted

\* A patch counts two halves at most, or to the last chapter.
LEMMA PatchedBound ==
  ASSUME NEW r \in AnyRows, NEW g \in Gestures, NEW b \in Nat, r.seen <= CountedTo(b)
  PROVE  Patched(r, g).seen <= CountedTo(b + 1)
<1>1. g \in AllGestures
  BY ChapterAssumption
<1>2. r.seen \in Nat /\ TotalChapters \in Nat /\ r.seen <= TotalChapters + 2 * b
  BY ChapterAssumption DEF AnyRows, CountedTo
<1>3. CountedTo(b + 1) = TotalChapters + 2 * b + 2
  BY <1>2 DEF CountedTo
<1>4. ASSUME NEW x \in Int PROVE Max({0, x}) \in {0, x}
  <2>1. \E y \in {0, x} : \A z \in {0, x} : y >= z
    <3>1. CASE x >= 0
      BY <3>1
    <3>2. CASE ~(x >= 0)
      BY <3>2
    <3> QED BY <3>1, <3>2
  <2> QED BY <2>1 DEF Max
<1>5. Max({0, r.seen - 2}) \in {0, r.seen - 2} /\ Max({0, r.seen - 1}) \in {0, r.seen - 1}
  BY <1>2, <1>4
<1>6. CASE g = "plus"
  BY <1>2, <1>3, <1>6 DEF Patched
<1>7. CASE g = "plusHalf"
  <2>1. CASE r.seen + 1 >= TotalChapters
    BY <1>2, <1>3, <1>7, <2>1 DEF Patched
  <2>2. CASE ~(r.seen + 1 >= TotalChapters)
    <3>1. Patched(r, g) = [r EXCEPT !.seen = @ + 1]
      BY <1>7, <2>2 DEF Patched
    <3>2. Patched(r, g).seen = r.seen + 1
      BY <3>1 DEF AnyRows
    <3> QED BY <1>2, <1>3, <3>2
  <2> QED BY <2>1, <2>2
<1>8. CASE g = "minus"
  <2>1. Patched(r, g).seen = Max({0, r.seen - 2})
    BY <1>8 DEF Patched
  <2> QED BY <1>2, <1>3, <1>5, <2>1
<1>9. CASE g = "minusHalf"
  <2>1. Patched(r, g).seen = Max({0, r.seen - 1})
    BY <1>9 DEF Patched
  <2> QED BY <1>2, <1>3, <1>5, <2>1
<1>10. CASE g \in {"finish", "reopen"}
  <2>1. Patched(r, g).seen = r.seen
    BY <1>10 DEF Patched, AnyRows
  <2> QED BY <1>2, <1>3, <2>1
<1> QED BY <1>1, <1>6, <1>7, <1>8, <1>9, <1>10 DEF AllGestures

\* The bound grows with the gestures.
LEMMA UpToGrows ==
  ASSUME NEW a \in Int, NEW b \in Int, a <= b
  PROVE  CountedTo(a) <= CountedTo(b) /\ CountedTo(a) \in Int /\ CountedTo(b) \in Int
BY ChapterAssumption DEF CountedTo

\* Rows from elsewhere are within the bound.
LEMMA StartBound ==
  ASSUME NEW r \in StartRows \cup {Missing}, NEW b \in Nat
  PROVE  r.seen <= CountedTo(b)
<1>1. r.seen \in {0, TotalChapters}
  BY DEF StartRows, Missing
<1> QED BY <1>1, ChapterAssumption DEF CountedTo

\* An increasing sequence of gestures is no longer than there are gestures.
LEMMA IncreasingIsShort ==
  ASSUME NEW n \in Nat, NEW f, \A i \in 1 .. n : f[i] \in Presses,
         \A i, j \in 1 .. n : i < j => f[i] < f[j]
  PROVE  n <= MaxPress
<1> DEFINE H == {i \in 0 .. n : i = 0 \/ i <= f[i]}
<1>1. 0 \in H
  OBVIOUS
<1>2. ASSUME NEW m \in 1 .. n, m - 1 \in H PROVE m \in H
  <2>1. f[m] \in Int /\ 1 <= f[m]
    BY ChapterAssumption DEF Presses
  <2>2. CASE m = 1
    BY <2>1, <2>2
  <2>3. CASE m # 1
    <3>1. m - 1 \in 1 .. n /\ m - 1 < m /\ m - 1 <= f[m - 1]
      BY <1>2, <2>3
    <3>2. f[m - 1] < f[m] /\ f[m - 1] \in Int
      BY <3>1, ChapterAssumption DEF Presses
    <3> QED BY <2>1, <3>1, <3>2
  <2> QED BY <2>2, <2>3
<1> HIDE DEF H
<1>3. 0 .. n \subseteq H
  BY <1>1, <1>2, CountsUp
<1>4. n \in H
  BY <1>3
<1> USE DEF H
<1>5. CASE n = 0
  BY <1>5, ChapterAssumption
<1>6. CASE n # 0
  <2>1. n <= f[n] /\ f[n] \in Presses
    BY <1>4, <1>6
  <2> QED BY <2>1, ChapterAssumption DEF Presses
<1> QED BY <1>5, <1>6

\* What the strengthening says of the types.
LEMMA TypesFollow == TypesInv => ChapterTypeOK
<1> SUFFICES ASSUME TypesInv PROVE ChapterTypeOK
  OBVIOUS
<1>0. ChapterShape /\ WritesInOrder /\ EntriesInOrder /\ RowsBounded /\ Reported /\ Counted
  BY DEF TypesInv, ChapterInv
<1>1. MaxPress \in Nat /\ CommitsUpTo(MaxPress) /\ CountedTo(MaxPress) = MaxSeen
  BY ChapterAssumption DEF CommitsUpTo, Presses, CountedTo, MaxSeen
<1>2. ASSUME NEW r \in AnyRows, r.seen <= CountedTo(MaxPress) PROVE r \in Rows
  BY <1>1, <1>2, ChapterAssumption DEF Rows, AnyRows, MaxSeen
<1>3. row \in Rows \cup {Missing} /\ durable \in Rows \cup {Missing} /\ listRead \in Rows \cup {Missing}
  BY <1>0, <1>1, <1>2 DEF ChapterShape, RowsBounded
<1>4. entries \in Seq([id : Presses, base : Rows, projected : Rows])
  <2>1. entries \in Seq(Intents) /\ Len(entries) \in Nat
    BY <1>0 DEF ChapterShape
  <2>2. ASSUME NEW i \in 1 .. Len(entries) PROVE entries[i] \in [id : Presses, base : Rows, projected : Rows]
    <3>1. entries[i] \in Intents
      BY <2>1
    <3>2. entries[i].id \in Presses /\ entries[i].base \in AnyRows /\ entries[i].projected \in AnyRows
      BY <3>1 DEF Intents
    <3>3. entries[i].id - 1 \in Int /\ entries[i].id \in Int /\ entries[i].id <= MaxPress /\ entries[i].id - 1 <= MaxPress
      BY <1>1, <3>2 DEF Presses
    <3>4. entries[i].base.seen <= CountedTo(entries[i].id - 1) /\ entries[i].projected.seen <= CountedTo(entries[i].id)
      BY <1>0 DEF RowsBounded
    <3>5. /\ CountedTo(entries[i].id - 1) <= CountedTo(MaxPress) /\ CountedTo(entries[i].id) <= CountedTo(MaxPress)
          /\ CountedTo(entries[i].id - 1) \in Int /\ CountedTo(entries[i].id) \in Int /\ CountedTo(MaxPress) \in Int
      <4>1. PICK a \in Int : a = entries[i].id
        BY <3>3
      <4>2. MaxPress \in Int /\ a <= MaxPress /\ a - 1 \in Int /\ a - 1 <= MaxPress
        BY <1>1, <3>3, <4>1
      <4>3. CountedTo(a) <= CountedTo(MaxPress) /\ CountedTo(a) \in Int /\ CountedTo(MaxPress) \in Int
        BY <4>2, UpToGrows
      <4>4. CountedTo(a - 1) <= CountedTo(MaxPress) /\ CountedTo(a - 1) \in Int
        BY <4>2, UpToGrows
      <4> QED BY <4>1, <4>3, <4>4
    <3>6. entries[i].base.seen \in Nat /\ entries[i].projected.seen \in Nat
      BY <3>2 DEF AnyRows
    <3>7. entries[i].base \in Rows /\ entries[i].projected \in Rows
      BY <1>2, <3>2, <3>4, <3>5, <3>6
    <3> QED BY <3>1, <3>2, <3>7 DEF Intents
  <2> DEFINE R == [id : Presses, base : Rows, projected : Rows]
  <2>3. entries = [i \in 1 .. Len(entries) |-> entries[i]]
    BY <2>1
  <2>4. \A i \in 1 .. Len(entries) : entries[i] \in R
    BY <2>2
  <2> HIDE DEF R
  <2>5. entries \in [1 .. Len(entries) -> R]
    BY <2>3, <2>4
  <2>6. entries \in Seq(R)
    BY <2>1, <2>5, SeqDef
  <2> QED BY <2>6 DEF R
<1>5. Len(door) <= MaxPress
  <2>1. Len(door) \in Nat /\ \A i \in 1 .. Len(door) : door[i] \in Presses
    BY <1>0 DEF ChapterShape
  <2>2. \A i, j \in 1 .. Len(door) : i < j => door[i] < door[j]
    BY <1>0 DEF WritesInOrder
  <2> QED BY <2>1, <2>2, IncreasingIsShort
<1>6. Len(entries) <= MaxPress
  <2> DEFINE f == [i \in 1 .. Len(entries) |-> entries[i].id]
  <2>1. Len(entries) \in Nat /\ \A i \in 1 .. Len(entries) : f[i] \in Presses
    BY <1>0, EntryFacts DEF ChapterShape
  <2>2. \A i, j \in 1 .. Len(entries) : i < j => f[i] < f[j]
    BY <1>0 DEF EntriesInOrder
  <2> HIDE DEF f
  <2> QED BY <2>1, <2>2, IncreasingIsShort
<1>7. ASSUME NEW p \in Presses
      PROVE  /\ Cardinality(report[p] \cap {"skipped", "failed", "committed"}) <= 1
             /\ "committed" \in report[p] => action[p].write = "committed"
  <2> DEFINE S == report[p] \cap ChapterVerdicts
  <2>1. \A x, y \in S : x = y
    BY <1>0 DEF Reported
  <2>2. Cardinality(S) <= 1
    <3>1. CASE S = {}
      <4>1. Cardinality(S) = 0
        BY <3>1, FS_EmptySet
      <4> QED BY <4>1
    <3>2. CASE S # {}
      <4>1. PICK x \in S : TRUE
        BY <3>2
      <4>2. S = {x}
        BY <2>1, <4>1
      <4> HIDE DEF S
      <4>3. Cardinality(S) = 1
        BY <4>2, FS_Singleton
      <4> QED BY <4>3
    <3> QED BY <3>1, <3>2
  <2> QED BY <1>0, <2>2 DEF ChapterVerdicts, Reported, Committed
<1>8. report \in [Presses -> SUBSET {"received", "skipped", "failed", "committed", "sync"}]
  BY <1>0 DEF Reported, ChapterPhases
<1>9. remotes \in 0 .. MaxRemote
  BY <1>0, ChapterAssumption DEF Counted, ChapterShape
<1>10. action \in [Presses -> [gesture : Gestures \cup {"none"},
         write : {"none", "queued", "open", "committed", "absent", "failed"},
         caller : {"none", "waiting", "told"}]]
  BY <1>0 DEF ChapterShape, Acts, Writes
<1> QED BY <1>0, <1>3, <1>4, <1>5, <1>6, <1>7, <1>8, <1>9, <1>10 DEF ChapterTypeOK, ChapterShape, Counted

\* Rows that are read, rendered or written from elsewhere stay within the bounds.
LEMMA BoundKept ==
  ASSUME RowsBounded, \A q \in Presses : Committed(q) => action'[q].write = "committed",
         row' \in {row, Missing} \cup StartRows, durable' \in {durable, listRead}, listRead' \in {listRead, row},
         \A i \in 1 .. Len(entries') : \E j \in 1 .. Len(entries) : entries'[i] = entries[j]
  PROVE  RowsBounded'
<1>1. ASSUME NEW b \in Nat, CommitsUpTo(b)'
      PROVE  row'.seen <= CountedTo(b) /\ durable'.seen <= CountedTo(b) /\ listRead'.seen <= CountedTo(b)
  <2>1. CommitsUpTo(b)
    BY <1>1 DEF CommitsUpTo, Committed
  <2>2. row.seen <= CountedTo(b) /\ durable.seen <= CountedTo(b) /\ listRead.seen <= CountedTo(b)
    BY <2>1 DEF RowsBounded
  <2>3. row'.seen <= CountedTo(b)
    <3>1. CASE row' = row
      BY <2>2, <3>1
    <3>2. CASE row' # row
      BY <3>2, StartBound
    <3> QED BY <3>1, <3>2
  <2> QED BY <2>2, <2>3
<1>2. ASSUME NEW i \in 1 .. Len(entries')
      PROVE  entries'[i].base.seen <= CountedTo(entries'[i].id - 1) /\ entries'[i].projected.seen <= CountedTo(entries'[i].id)
  <2>1. PICK j \in 1 .. Len(entries) : entries'[i] = entries[j]
    OBVIOUS
  <2>2. entries[j].base.seen <= CountedTo(entries[j].id - 1) /\ entries[j].projected.seen <= CountedTo(entries[j].id)
    BY DEF RowsBounded
  <2> QED BY <2>1, <2>2
<1>3. \A b : CountedTo(b)' = CountedTo(b)
  BY DEF CountedTo
<1> QED BY <1>1, <1>2, <1>3 DEF RowsBounded

\* What is reported of one action.
LEMMA ReportKept ==
  ASSUME Reported, NEW p \in Presses, NEW N \in SUBSET ChapterPhases,
         report' = [report EXCEPT ![p] = N],
         \A q \in Presses : q # p => action'[q] = action[q],
         action'[p].caller # "told" => N \cap ChapterVerdicts = {},
         \A x, y \in N \cap ChapterVerdicts : x = y,
         "committed" \in N => action'[p].write = "committed"
  PROVE  Reported'
<1>1. report' \in [Presses -> SUBSET ChapterPhases] /\ report'[p] = N /\ \A q \in Presses : q # p => report'[q] = report[q]
  BY DEF Reported
<1>2. ASSUME NEW q \in Presses
      PROVE  /\ action'[q].caller # "told" => report'[q] \cap ChapterVerdicts = {}
             /\ \A x, y \in report'[q] \cap ChapterVerdicts : x = y
             /\ "committed" \in report'[q] => action'[q].write = "committed"
  <2>1. CASE q = p
    BY <1>1, <2>1
  <2>2. CASE q # p
    <3>1. action'[q] = action[q] /\ report'[q] = report[q]
      BY <1>1, <2>2
    <3>2. /\ action[q].caller # "told" => report[q] \cap ChapterVerdicts = {}
          /\ \A x, y \in report[q] \cap ChapterVerdicts : x = y
          /\ "committed" \in report[q] => action[q].write = "committed"
      BY DEF Reported, Committed
    <3> QED BY <3>1, <3>2
  <2> QED BY <2>1, <2>2
<1> QED BY <1>1, <1>2 DEF Reported, Committed

\* A gesture is counted from the intents before it.
LEMMA PressBounded ==
  ASSUME TypesInv, NEW p \in Presses, NEW g \in Gestures, action[p] = Unpressed,
         action' = [action EXCEPT ![p] = [gesture |-> g, write |-> "queued", caller |-> "waiting"]],
         entries' = AcceptedIntent(p, g), UNCHANGED <<row, durable, listRead>>
  PROVE  RowsBounded'
<1>0. ChapterShape /\ WritesInOrder /\ EntriesInOrder /\ RowsBounded
  BY DEF TypesInv, ChapterInv
<1>1. \A q \in Presses : Committed(q) => action'[q].write = "committed"
  <2>1. ~Committed(p) /\ \A q \in Presses \ {p} : action'[q] = action[q]
    BY <1>0, UnpressedFacts, PressEdit DEF ChapterShape
  <2> QED BY <2>1 DEF Committed
<1> DEFINE n == Len(entries)
           base == Shown(durable)
           e == [id |-> p, base |-> base, projected |-> Patched(base, g)]
<1>2. CASE entries' = entries
  <2>1. \A i \in 1 .. Len(entries') : \E j \in 1 .. Len(entries) : entries'[i] = entries[j]
    BY <1>2
  <2> QED BY <1>0, <1>1, <2>1, BoundKept
<1>3. CASE durable # Missing /\ entries' = Append(entries, e)
  <2>1. n \in Nat /\ entries \in Seq(Intents) /\ durable \in AnyRows /\ Chained(durable, entries)
    BY <1>0, <1>3 DEF ChapterShape, EntriesInOrder
  <2>2. base = ValueAfter(durable, entries, n)
    BY <2>1, ShownIsLast
  <2>3. base \in AnyRows
    BY <2>1, <2>2, ValueTyped
  <2> HIDE DEF base
  <2>4. p - 1 \in Nat /\ p \in Int
    BY DEF Presses
  <2>5. \A q \in Presses : action[q] # Unpressed => q <= p - 1
    <3>1. \A q \in Presses : action[q] # Unpressed => q < p
      BY <1>0, NextIsLast
    <3> QED BY <3>1 DEF Presses
  <2>6. base.seen <= CountedTo(p - 1)
    <3>1. CASE n = 0
      <4>1. CommitsUpTo(p - 1)
        BY <2>5, UnpressedFacts DEF CommitsUpTo
      <4>2. base = durable
        BY <2>2, <3>1 DEF ValueAfter
      <4> QED BY <1>0, <2>4, <4>1, <4>2 DEF RowsBounded
    <3>2. CASE n # 0
      <4>1. n \in 1 .. n /\ base = entries[n].projected
        BY <2>1, <2>2, <3>2 DEF ValueAfter
      <4>2. entries[n].projected.seen <= CountedTo(entries[n].id)
        BY <1>0, <4>1 DEF RowsBounded
      <4>3. entries[n].id \in Presses /\ (Waiting(entries[n].id) \/ Committed(entries[n].id))
        BY <1>0, <4>1, EntryFacts
      <4>4. entries[n].id <= p - 1
        BY <2>5, <4>3, UnpressedFacts
      <4>5. PICK a \in Int : a = entries[n].id
        BY <4>3 DEF Presses
      <4>6. CountedTo(a) <= CountedTo(p - 1) /\ CountedTo(a) \in Int /\ CountedTo(p - 1) \in Int
        <5>1. a <= p - 1 /\ p - 1 \in Int
          BY <2>4, <4>4, <4>5
        <5> QED BY <5>1, UpToGrows
      <4>7. base.seen \in Nat
        BY <2>3 DEF AnyRows
      <4> QED BY <4>1, <4>2, <4>5, <4>6, <4>7
    <3> QED BY <3>1, <3>2
  <2>7. Patched(base, g).seen <= CountedTo(p)
    <3>1. PICK r \in AnyRows : r = base
      BY <2>3
    <3>2. Patched(r, g).seen <= CountedTo((p - 1) + 1) /\ (p - 1) + 1 = p
      BY <2>4, <2>6, <3>1, PatchedBound
    <3> QED BY <3>1, <3>2
  <2>8. e.id = p /\ e.base = base /\ e.projected = Patched(base, g)
    OBVIOUS
  <2> HIDE DEF e
  <2>9. ASSUME NEW i \in 1 .. Len(entries')
        PROVE  entries'[i].base.seen <= CountedTo(entries'[i].id - 1) /\ entries'[i].projected.seen <= CountedTo(entries'[i].id)
    <3>1. Len(entries') = n + 1 /\ entries'[n + 1] = e /\ \A j \in 1 .. n : entries'[j] = entries[j]
      BY <1>3, <2>1
    <3>2. CASE i \in 1 .. n
      BY <1>0, <3>1, <3>2 DEF RowsBounded
    <3>3. CASE i = n + 1
      BY <2>6, <2>7, <2>8, <3>1, <3>3
    <3> QED BY <2>1, <3>1, <3>2, <3>3
  <2>10. ASSUME NEW b \in Nat, CommitsUpTo(b)'
         PROVE  row'.seen <= CountedTo(b) /\ durable'.seen <= CountedTo(b) /\ listRead'.seen <= CountedTo(b)
    <3>1. CommitsUpTo(b)
      BY <1>1, <2>10 DEF CommitsUpTo, Committed
    <3> QED BY <1>0, <3>1 DEF RowsBounded
  <2>11. \A b : CountedTo(b)' = CountedTo(b)
    BY DEF CountedTo
  <2> QED BY <2>9, <2>10, <2>11 DEF RowsBounded
<1> QED BY <1>2, <1>3 DEF AcceptedIntent

\* A commit counts two halves more, and is the furthest gesture that is.
LEMMA CommitBounded ==
  ASSUME TypesInv, NEW p \in Presses, Commit(p)
  PROVE  RowsBounded'
<1>0. ChapterShape /\ WritesInOrder /\ EntriesInOrder /\ RowsBounded
  BY DEF TypesInv, ChapterInv
<1>1. /\ p \in open /\ row # Missing /\ row' = Patched(row, action[p].gesture)
      /\ action' = [action EXCEPT ![p].write = "committed", ![p].caller = "told"]
      /\ entries' = entries /\ UNCHANGED <<durable, listRead>>
  BY DEF Commit, Settles
<1>2. /\ \A q \in Presses \ {p} : action'[q] = action[q]
      /\ action'[p].write = "committed"
  BY <1>0, <1>1, SettleEdit DEF ChapterShape, Writes
<1>3. Waiting(p) /\ action[p].gesture \in Gestures /\ row \in AnyRows
  BY <1>0, <1>1 DEF WritesInOrder, Waiting, ChapterShape
<1>4. p - 1 \in Nat /\ p \in Int
  BY DEF Presses
<1>5. CommitsUpTo(p - 1)
  <2>1. \A q \in Presses : Committed(q) => q < p
    BY <1>0, <1>3 DEF WritesInOrder
  <2> QED BY <2>1 DEF CommitsUpTo, Presses
<1>6. row.seen <= CountedTo(p - 1)
  BY <1>0, <1>4, <1>5 DEF RowsBounded
<1>7. row'.seen <= CountedTo(p) /\ row'.seen \in Nat
  <2>1. Patched(row, action[p].gesture).seen <= CountedTo((p - 1) + 1) /\ (p - 1) + 1 = p
    <3>1. PICK r \in AnyRows, g \in Gestures : r = row /\ g = action[p].gesture
      BY <1>3
    <3>2. Patched(r, g).seen <= CountedTo((p - 1) + 1)
      BY <1>4, <1>6, <3>1, PatchedBound
    <3> QED BY <1>4, <3>1, <3>2
  <2>2. row' \in AnyRows
    BY <1>1, <1>3, PatchedTyped
  <2> QED BY <1>1, <2>1, <2>2 DEF AnyRows
<1>8. ASSUME NEW b \in Nat, CommitsUpTo(b)'
      PROVE  row'.seen <= CountedTo(b) /\ durable'.seen <= CountedTo(b) /\ listRead'.seen <= CountedTo(b)
  <2>1. p <= b /\ CommitsUpTo(b)
    BY <1>2, <1>8 DEF CommitsUpTo, Committed
  <2>2. CountedTo(p) <= CountedTo(b) /\ CountedTo(p) \in Int /\ CountedTo(b) \in Int
    BY <1>4, <2>1, UpToGrows
  <2> QED BY <1>0, <1>1, <1>7, <2>1, <2>2 DEF RowsBounded
<1>9. \A b : CountedTo(b)' = CountedTo(b)
  BY DEF CountedTo
<1> QED BY <1>0, <1>1, <1>8, <1>9 DEF RowsBounded

\* The intents that are left were there before.
LEMMA LeftWereThere ==
  ASSUME ChapterShape, NEW l \in 0 .. Len(entries), entries' = SubSeq(entries, 1, l)
  PROVE  \A i \in 1 .. Len(entries') : \E j \in 1 .. Len(entries) : entries'[i] = entries[j]
BY PrefixLeft

\* What settles is reported once, to a caller that waits.
LEMMA SettleReported ==
  ASSUME ChapterShape, Reported, NEW p \in Presses, NEW w \in {"committed", "absent", "failed"},
         NEW x \in {"committed", "skipped", "failed"}, x = "committed" => w = "committed",
         Waiting(p), action' = [action EXCEPT ![p].write = w, ![p].caller = "told"],
         report' = IF action[p].caller = "waiting" THEN [report EXCEPT ![p] = @ \cup {x}] ELSE report
  PROVE  /\ Reported'
         /\ \A q \in Presses : Committed(q) => action'[q].write = "committed"
<1>1. /\ \A q \in Presses \ {p} : action'[q] = action[q]
      /\ action'[p].write = w /\ action'[p].caller = "told"
  <2>1. w \in Writes
    BY DEF Writes
  <2> QED BY <2>1, SettleEdit DEF ChapterShape
<1>2. ~Committed(p)
  BY WaitingIsNotOver
<1>3. report \in [Presses -> SUBSET ChapterPhases] /\ "committed" \notin report[p]
  BY <1>2 DEF Reported
<1>4. \A q \in Presses : q # p => action'[q] = action[q]
  BY <1>1
<1>5. CASE action[p].caller = "waiting"
  <2>1. report[p] \cap ChapterVerdicts = {}
    BY <1>5 DEF Reported
  <2>2. PICK N \in SUBSET ChapterPhases : N = report[p] \cup {x}
    BY <1>3 DEF ChapterPhases
  <2>3. \A y, z \in N \cap ChapterVerdicts : y = z
    BY <2>1, <2>2
  <2>4. "committed" \in N => action'[p].write = "committed"
    BY <1>1, <1>3, <2>2
  <2>5. report' = [report EXCEPT ![p] = N]
    BY <1>5, <2>2
  <2>6. action'[p].caller = "told"
    BY <1>1
  <2> QED BY <1>1, <1>2, <1>4, <2>3, <2>4, <2>5, <2>6, ReportKept DEF Committed
<1>6. CASE action[p].caller # "waiting"
  <2>1. PICK N \in SUBSET ChapterPhases : N = report[p]
    BY <1>3
  <2>2. \A y, z \in N \cap ChapterVerdicts : y = z
    BY <2>1 DEF Reported
  <2>3. report' = [report EXCEPT ![p] = N]
    BY <1>3, <1>6, <2>1
  <2>4. "committed" \in N => action'[p].write = "committed"
    BY <1>3, <2>1
  <2>5. action'[p].caller = "told"
    BY <1>1
  <2> QED BY <1>1, <1>2, <1>4, <2>2, <2>3, <2>4, <2>5, ReportKept DEF Committed
<1> QED BY <1>5, <1>6

\* The gestures.
LEMMA PressTypes == TypesInv /\ (Press \/ PressWithoutDatabase) => RowsBounded' /\ Reported'
<1> SUFFICES ASSUME TypesInv, Press \/ PressWithoutDatabase PROVE RowsBounded' /\ Reported'
  OBVIOUS
<1>0. ChapterShape /\ WritesInOrder /\ EntriesInOrder /\ RowsBounded /\ Reported
  BY DEF TypesInv, ChapterInv
<1>1. CASE Press
  <2>1. PICK p \in Presses, g \in Gestures :
          /\ action[p] = Unpressed /\ report' = [report EXCEPT ![p] = {"received"}]
          /\ entries' = AcceptedIntent(p, g)
          /\ action' = [action EXCEPT ![p] = [gesture |-> g, write |-> "queued", caller |-> "waiting"]]
          /\ UNCHANGED <<row, durable, listRead>>
    BY <1>1 DEF Press
  <2>2. RowsBounded'
    BY <2>1, PressBounded
  <2>3. \A q \in Presses : q # p => action'[q] = action[q]
    BY <1>0, <2>1, PressEdit DEF ChapterShape
  <2>4. PICK N \in SUBSET ChapterPhases : N = {"received"}
    BY DEF ChapterPhases
  <2>5. N \cap ChapterVerdicts = {} /\ "committed" \notin N
    BY <2>4 DEF ChapterVerdicts
  <2>6. Reported'
    BY <1>0, <2>1, <2>3, <2>4, <2>5, ReportKept
  <2> QED BY <2>2, <2>6
<1>2. CASE PressWithoutDatabase
  <2>1. PICK p \in Presses :
          /\ action[p] = Unpressed /\ report' = [report EXCEPT ![p] = {"received", "skipped"}]
          /\ action' = [action EXCEPT ![p].caller = "told"]
          /\ UNCHANGED <<row, entries, durable, listRead>>
    BY <1>2 DEF PressWithoutDatabase
  <2>2. /\ \A q \in Presses \ {p} : action'[q] = action[q]
        /\ action'[p].write = action[p].write /\ action'[p].caller = "told"
    BY <1>0, <2>1, CallerEdit DEF ChapterShape
  <2>3. \A q \in Presses : Committed(q) => action'[q].write = "committed"
    BY <2>2 DEF Committed
  <2>4. \A i \in 1 .. Len(entries') : \E j \in 1 .. Len(entries) : entries'[i] = entries[j]
    BY <2>1
  <2>5. RowsBounded'
    BY <1>0, <2>1, <2>3, <2>4, BoundKept
  <2>6. PICK N \in SUBSET ChapterPhases : N = {"received", "skipped"}
    BY DEF ChapterPhases
  <2>7. (\A x, y \in N \cap ChapterVerdicts : x = y) /\ "committed" \notin N
    BY <2>6 DEF ChapterVerdicts
  <2>8. \A q \in Presses : q # p => action'[q] = action[q]
    BY <2>2
  <2>9. Reported'
    BY <1>0, <2>1, <2>2, <2>6, <2>7, <2>8, ReportKept
  <2> QED BY <2>5, <2>9
<1> QED BY <1>1, <1>2

\* The steps of a write.
LEMMA WriteTypes ==
  ASSUME TypesInv, NEW p \in Presses,
         BeginTransaction(p) \/ BeginFails(p) \/ Commit(p) \/ FindsNothing(p) \/ RollBack(p)
  PROVE  RowsBounded' /\ Reported'
<1>0. ChapterShape /\ WritesInOrder /\ EntriesInOrder /\ RowsBounded /\ Reported
  BY DEF TypesInv, ChapterInv
<1>1. CASE BeginTransaction(p)
  <2>1. /\ door # <<>> /\ Head(door) = p /\ action' = [action EXCEPT ![p].write = "open"]
        /\ UNCHANGED <<row, entries, durable, listRead, report>>
    BY <1>1 DEF BeginTransaction
  <2>2. action[p].write = "queued"
    BY <1>0, <1>1, HeadLeaves DEF BeginTransaction
  <2>3. /\ \A q \in Presses \ {p} : action'[q] = action[q]
        /\ action'[p].caller = action[p].caller
    BY <1>0, <2>1, OpenEdit DEF ChapterShape
  <2>4. \A q \in Presses : Committed(q) => action'[q].write = "committed"
    BY <2>2, <2>3 DEF Committed
  <2>5. \A i \in 1 .. Len(entries') : \E j \in 1 .. Len(entries) : entries'[i] = entries[j]
    BY <2>1
  <2>6. RowsBounded'
    BY <1>0, <2>1, <2>4, <2>5, BoundKept
  <2>7. Reported'
    <3>1. \A q \in Presses : action'[q].caller = action[q].caller
      BY <2>3
    <3> QED BY <1>0, <2>1, <2>4, <3>1 DEF Reported, Committed
  <2> QED BY <2>6, <2>7
<1>2. CASE Commit(p)
  <2>1. RowsBounded'
    BY <1>2, CommitBounded
  <2>2. /\ p \in open /\ action' = [action EXCEPT ![p].write = "committed", ![p].caller = "told"]
        /\ report' = IF action[p].caller = "waiting" THEN [report EXCEPT ![p] = @ \cup {"committed"}] ELSE report
    BY <1>2 DEF Commit, Settles
  <2>3. Waiting(p)
    BY <1>0, <2>2 DEF WritesInOrder, Waiting
  <2>4. Reported'
    <3>1. PICK w \in {"committed", "absent", "failed"}, x \in {"committed", "skipped", "failed"} :
            w = "committed" /\ x = "committed"
      OBVIOUS
    <3> QED BY <1>0, <2>2, <2>3, <3>1, SettleReported
  <2> QED BY <2>1, <2>4
<1>3. CASE BeginFails(p) \/ FindsNothing(p) \/ RollBack(p)
  <2>1. PICK w \in {"absent", "failed"}, x \in {"skipped", "failed"} :
        /\ action' = [action EXCEPT ![p].write = w, ![p].caller = "told"]
        /\ entries' = IF action[p].caller = "waiting" THEN Dropped(p) ELSE entries
        /\ report' = IF action[p].caller = "waiting" THEN [report EXCEPT ![p] = @ \cup {x}] ELSE report
        /\ UNCHANGED <<row, durable, listRead>>
    <3>1. CASE BeginFails(p)
      BY <3>1 DEF BeginFails, Settles
    <3>2. CASE FindsNothing(p)
      BY <3>2 DEF FindsNothing, Settles
    <3>3. CASE RollBack(p)
      BY <3>3 DEF RollBack, Settles
    <3> QED BY <1>3, <3>1, <3>2, <3>3
  <2>2. Waiting(p)
    <3>1. CASE BeginFails(p)
      <4>1. action[p].write = "queued"
        BY <1>0, <3>1, HeadLeaves DEF BeginFails
      <4> QED BY <4>1 DEF Waiting
    <3>2. CASE FindsNothing(p) \/ RollBack(p)
      <4>1. p \in open
        BY <3>2 DEF FindsNothing, RollBack
      <4> QED BY <1>0, <4>1 DEF WritesInOrder, Waiting
    <3> QED BY <1>3, <3>1, <3>2
  <2>3. w \in {"committed", "absent", "failed"} /\ x \in {"committed", "skipped", "failed"} /\ x # "committed"
    OBVIOUS
  <2>4. /\ Reported'
        /\ \A q \in Presses : Committed(q) => action'[q].write = "committed"
    BY <1>0, <2>1, <2>2, <2>3, SettleReported
  <2>5. \A i \in 1 .. Len(entries') : \E j \in 1 .. Len(entries) : entries'[i] = entries[j]
    <3>1. PICK l \in 0 .. Len(entries) : entries' = SubSeq(entries, 1, l)
      BY <1>0, <2>1, <2>2, FailedPrefix
    <3> QED BY <1>0, <3>1, LeftWereThere
  <2>6. RowsBounded'
    BY <1>0, <2>1, <2>4, <2>5, BoundKept
  <2> QED BY <2>4, <2>6
<1> QED BY <1>1, <1>2, <1>3

\* A deadline.
LEMMA DeadlineTypes ==
  ASSUME TypesInv, NEW p \in Presses, DeadlinePasses(p)
  PROVE  RowsBounded' /\ Reported'
<1>0. ChapterShape /\ WritesInOrder /\ EntriesInOrder /\ RowsBounded /\ Reported
  BY DEF TypesInv, ChapterInv
<1>1. /\ action[p].caller = "waiting" /\ entries' = Dropped(p)
      /\ action' = [action EXCEPT ![p].caller = "told"]
      /\ report' = [report EXCEPT ![p] = @ \cup {"failed"}]
      /\ UNCHANGED <<row, durable, listRead>>
  BY DEF DeadlinePasses
<1>2. /\ \A q \in Presses \ {p} : action'[q] = action[q]
      /\ action'[p].write = action[p].write /\ action'[p].caller = "told"
  BY <1>0, <1>1, CallerEdit DEF ChapterShape
<1>3. \A q \in Presses : Committed(q) => action'[q].write = "committed"
  BY <1>2 DEF Committed
<1>4. \A i \in 1 .. Len(entries') : \E j \in 1 .. Len(entries) : entries'[i] = entries[j]
  <2>1. Waiting(p)
    BY <1>0, <1>1 DEF WritesInOrder
  <2>2. entries' = IF action[p].caller = "waiting" THEN Dropped(p) ELSE entries
    BY <1>1
  <2>3. PICK l \in 0 .. Len(entries) : entries' = SubSeq(entries, 1, l)
    BY <1>0, <2>1, <2>2, FailedPrefix
  <2> QED BY <1>0, <2>3, LeftWereThere
<1>5. RowsBounded'
  BY <1>0, <1>1, <1>3, <1>4, BoundKept
<1>6. Reported'
  <2>1. report[p] \in SUBSET ChapterPhases /\ report[p] \cap ChapterVerdicts = {}
    BY <1>0, <1>1 DEF Reported
  <2>2. "committed" \notin report[p]
    BY <2>1 DEF ChapterVerdicts
  <2>3. PICK N \in SUBSET ChapterPhases : N = report[p] \cup {"failed"}
    BY <2>1 DEF ChapterPhases
  <2>4. (\A x, y \in N \cap ChapterVerdicts : x = y) /\ "committed" \notin N
    BY <2>1, <2>2, <2>3
  <2>5. \A q \in Presses : q # p => action'[q] = action[q]
    BY <1>2
  <2> QED BY <1>0, <1>1, <1>2, <2>3, <2>4, <2>5, ReportKept
<1> QED BY <1>5, <1>6

\* The list, the other writers, and what is only observed.
LEMMA OtherTypes ==
  ASSUME TypesInv, \/ ListRenders \/ ListReads \/ RemoteWrites \/ OperationsSettle \/ UNCHANGED chapterVars
                   \/ \E p \in Presses : FlushSettles(p)
  PROVE  RowsBounded' /\ Reported'
<1>0. ChapterShape /\ WritesInOrder /\ EntriesInOrder /\ RowsBounded /\ Reported
  BY DEF TypesInv, ChapterInv
<1>1. /\ action' = action
      /\ row' \in {row, Missing} \cup StartRows /\ durable' \in {durable, listRead} /\ listRead' \in {listRead, row}
      /\ entries' = entries \/ ListRenders
      /\ report' = report \/ \E p \in Presses : FlushSettles(p)
  BY DEF ListRenders, ListReads, RemoteWrites, OperationsSettle, chapterVars, FlushSettles
<1>2. \A i \in 1 .. Len(entries') : \E j \in 1 .. Len(entries) : entries'[i] = entries[j]
  <2>1. CASE entries' = entries
    BY <2>1
  <2>2. CASE ListRenders /\ listRead = Missing
    BY <2>2 DEF ListRenders
  <2>3. CASE ListRenders /\ listRead # Missing
    <3>1. PICK m \in 0 .. Len(entries) :
            /\ m = Len(entries) \/ ValueAfter(durable, entries, m) = listRead
            /\ entries' = <<>> \/ (m < Len(entries) /\ entries' = SubSeq(entries, m + 1, Len(entries)))
      BY <1>0, <2>3, RenderFacts
    <3>2. CASE entries' = <<>>
      BY <3>2
    <3>3. CASE entries' # <<>>
      <4>1. m \in 0 .. Len(entries) - 1 /\ entries \in Seq(Intents)
        BY <1>0, <3>1, <3>3 DEF ChapterShape
      <4>2. /\ Len(entries') = Len(entries) - m
            /\ \A i \in 1 .. Len(entries) - m : entries'[i] = entries[m + i]
        BY <3>1, <3>3, <4>1, SuffixFacts
      <4>3. ASSUME NEW i \in 1 .. Len(entries') PROVE \E j \in 1 .. Len(entries) : entries'[i] = entries[j]
        <5>1. i \in 1 .. Len(entries) - m /\ m + i \in 1 .. Len(entries)
          BY <4>1, <4>2
        <5> QED BY <4>2, <5>1
      <4> QED BY <4>3
    <3> QED BY <3>2, <3>3
  <2> QED BY <1>1, <2>1, <2>2, <2>3
<1>3. RowsBounded'
  <2>1. \A q \in Presses : Committed(q) => action'[q].write = "committed"
    BY <1>1 DEF Committed
  <2> QED BY <1>0, <1>1, <1>2, <2>1, BoundKept
<1>4. Reported'
  <2>1. CASE report' = report
    BY <1>0, <1>1, <2>1 DEF Reported, Committed
  <2>2. CASE \E p \in Presses : FlushSettles(p)
    <3>1. PICK p \in Presses : report' = [report EXCEPT ![p] = @ \cup {"sync"}]
      BY <2>2 DEF FlushSettles
    <3>2. report[p] \in SUBSET ChapterPhases
      BY <1>0 DEF Reported
    <3>3. PICK N \in SUBSET ChapterPhases : N = report[p] \cup {"sync"}
      BY <3>2 DEF ChapterPhases
    <3>4. N \cap ChapterVerdicts = report[p] \cap ChapterVerdicts /\ ("committed" \in N <=> "committed" \in report[p])
      BY <3>3 DEF ChapterVerdicts
    <3>5. /\ action'[p].caller # "told" => N \cap ChapterVerdicts = {}
          /\ \A x, y \in N \cap ChapterVerdicts : x = y
          /\ "committed" \in N => action'[p].write = "committed"
      BY <1>0, <1>1, <3>4 DEF Reported, Committed
    <3>6. report' = [report EXCEPT ![p] = N] /\ \A q \in Presses : q # p => action'[q] = action[q]
      BY <1>1, <3>1, <3>3
    <3> QED BY <1>0, <3>5, <3>6, ReportKept
  <2> QED BY <1>1, <2>1, <2>2
<1> QED BY <1>3, <1>4

\* The operations and the counter.
LEMMA CountedStep == TypesInv /\ [ChapterNext]_chapterVars => Counted'
<1> SUFFICES ASSUME TypesInv, [ChapterNext]_chapterVars PROVE Counted'
  OBVIOUS
<1>0. ChapterShape /\ unsent \subseteq Presses /\ remotes <= MaxRemote
  BY DEF TypesInv, ChapterInv, Counted
<1>1. CASE RemoteWrites
  <2>1. unsent' = unsent /\ remotes < MaxRemote /\ remotes' = remotes + 1
    BY <1>1 DEF RemoteWrites
  <2> QED BY <1>0, <2>1, ChapterAssumption DEF Counted, ChapterShape
<1>2. CASE \E p \in Presses : Commit(p)
  <2>1. PICK p \in Presses : unsent' = unsent \cup {p} /\ remotes' = remotes
    BY <1>2 DEF Commit
  <2> QED BY <1>0, <2>1 DEF Counted
<1>3. CASE OperationsSettle
  BY <1>0, <1>3 DEF OperationsSettle, Counted
<1>4. CASE \/ Press \/ PressWithoutDatabase \/ ListReads \/ ListRenders \/ UNCHANGED chapterVars
  <2>1. unsent' = unsent /\ remotes' = remotes
    BY <1>4 DEF Press, PressWithoutDatabase, ListReads, ListRenders, chapterVars
  <2> QED BY <1>0, <2>1 DEF Counted
<1>5. CASE \E p \in Presses :
             \/ BeginTransaction(p) \/ BeginFails(p) \/ FindsNothing(p)
             \/ RollBack(p) \/ DeadlinePasses(p) \/ FlushSettles(p)
  <2>1. unsent' = unsent /\ remotes' = remotes
    BY <1>5 DEF BeginTransaction, BeginFails, FindsNothing, RollBack, DeadlinePasses, FlushSettles
  <2> QED BY <1>0, <2>1 DEF Counted
<1> QED BY <1>1, <1>2, <1>3, <1>4, <1>5 DEF ChapterNext

\* Every step keeps the strengthened types.
LEMMA TypesStep == TypesInv /\ [ChapterNext]_chapterVars => TypesInv'
<1> SUFFICES ASSUME TypesInv, [ChapterNext]_chapterVars PROVE TypesInv'
  OBVIOUS
<1>1. ChapterInv'
  BY ChapterStep DEF TypesInv
<1>2. Counted'
  BY CountedStep
<1>3. RowsBounded' /\ Reported'
  <2>1. CASE Press \/ PressWithoutDatabase
    BY <2>1, PressTypes
  <2>2. CASE \/ ListRenders \/ ListReads \/ RemoteWrites \/ OperationsSettle \/ UNCHANGED chapterVars
             \/ \E p \in Presses : FlushSettles(p)
    BY <2>2, OtherTypes
  <2>3. ASSUME NEW p \in Presses,
               BeginTransaction(p) \/ BeginFails(p) \/ Commit(p) \/ FindsNothing(p) \/ RollBack(p)
        PROVE  RowsBounded' /\ Reported'
    BY <2>3, WriteTypes
  <2>4. ASSUME NEW p \in Presses, DeadlinePasses(p) PROVE RowsBounded' /\ Reported'
    BY <2>4, DeadlineTypes
  <2> QED BY <2>1, <2>2, <2>3, <2>4 DEF ChapterNext
<1> QED BY <1>1, <1>2, <1>3 DEF TypesInv

\* The strengthened types hold at the start.
LEMMA TypesInitInv == ChapterInit => TypesInv
<1> SUFFICES ASSUME ChapterInit PROVE TypesInv
  OBVIOUS
<1>1. ChapterInv
  BY ChapterInitInv
<1>2. /\ row \in StartRows /\ durable = row /\ listRead = row /\ unsent = {} /\ entries = <<>>
      /\ report = [p \in Presses |-> {}] /\ remotes = 0
  BY DEF ChapterInit
<1>3. RowsBounded
  <2>1. \A b \in Nat : row.seen <= CountedTo(b)
    BY <1>2, StartBound
  <2> QED BY <1>2, <2>1 DEF RowsBounded
<1>4. Reported
  BY <1>2 DEF Reported
<1>5. Counted
  BY <1>2, ChapterAssumption DEF Counted
<1> QED BY <1>1, <1>3, <1>4, <1>5 DEF TypesInv

\* The chapter button's state is well typed: no row is counted past two halves a gesture, no
\* queue is longer than there are gestures, and every action reports one verdict, "committed"
\* only when its write is.
THEOREM ChapterTypes == ChapterSpec => []ChapterTypeOK
<1>1. ChapterInit => TypesInv
  BY TypesInitInv
<1>2. TypesInv /\ [ChapterNext]_chapterVars => TypesInv'
  BY TypesStep
<1>3. TypesInv => ChapterTypeOK
  BY TypesFollow
<1> QED BY <1>1, <1>2, <1>3, PTL DEF ChapterSpec

(***************************************************************************)
(* What the app keeps, side by side.                                       *)
(***************************************************************************)

\* Every behaviour of the composition is one of each of its components: a step of one leaves
\* the others where they are.
LEMMA ContentIsEach ==
  ContentSpec => /\ Spec /\ DiagnosticsSpec /\ ChapterSpec
                 /\ CoverSpec /\ FoldersSpec /\ StatusSpec
<1>1. ContentInit => /\ Init /\ DiagnosticsInit /\ ChapterInit
                     /\ CoverInit /\ FoldersInit /\ StatusInit
  BY DEF ContentInit
<1>2. [ContentNext]_contentVars =>
        /\ [Next]_vars /\ [DiagnosticsNext]_diagnosticsVars /\ [ChapterNext]_chapterVars
        /\ [CoverNext]_coverVars /\ [FoldersNext]_foldersVars /\ [StatusNext]_statusVars
  BY DEF ContentNext, contentVars
<1> QED BY <1>1, <1>2, PTL
        DEF ContentSpec, Spec, DiagnosticsSpec, ChapterSpec, CoverSpec, FoldersSpec, StatusSpec

\* The state of every component is of its type, for any size of each, and with that an action
\* of a chapter button is reported with one verdict.
THEOREM ContentTypes == ContentSpec => []ContentTypeOK
<1>1. ContentTypeOK <=> /\ TypeOK /\ DiagnosticsTypeOK /\ ChapterTypeOK
                        /\ CoverTypeOK /\ FoldersTypeOK /\ StatusTypeOK
  BY DEF ContentTypeOK
<1> QED BY <1>1, ContentIsEach, RemoteMergeTypes, DiagnosticsTyped, ChapterTypes, CoverTypes,
           FoldersTyped, StatusTyped, PTL

\* What the components promise holds of them together.
THEOREM ContentKeeps ==
  ContentSpec => /\ [](/\ NothingLostBehindCursor /\ OutageKeepsRows /\ ScreenSettlesOnRow
                       /\ ProbesConverge /\ RowOfThisRuntime)
                 /\ UnackedEditUntouched /\ CoverStays /\ ProjectionsInOrder
<1>1. ContentSpec => /\ []NothingLostBehindCursor /\ []OutageKeepsRows /\ []ScreenSettlesOnRow
                     /\ []ProbesConverge /\ []RowOfThisRuntime
                     /\ UnackedEditUntouched /\ CoverStays /\ ProjectionsInOrder
  BY ContentIsEach, NothingIsLost, DiagnosticsKept, ScreenSettles, ProbesEnd, StatusCurrent,
     UnackedEditIsUntouched, CoversStay, StatusOrdered
<1> QED BY <1>1, PTL

=============================================================================
