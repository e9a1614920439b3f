-------------------------- MODULE SyncFlushProofs --------------------------
(***************************************************************************)
(* Theorems about SyncFlush, for every set of animes and triggers and any  *)
(* number of requests: the state keeps its type, cycles never overlap, and *)
(* what a finished cycle tells its callers and the screen is true: it read *)
(* the work it was asked for, it tried the heal that was demanded, and the *)
(* bridge it claims to have reached is the paired one.                     *)
(***************************************************************************)
EXTENDS SyncFlush, TLAPS, FiniteSetTheorems

AllRuns == [Runs -> Run]

\* No call and no run is numbered 0.
LEMMA Numbers == Calls \subseteq Nat /\ Runs \subseteq Nat \ {NoRun} /\ IsFiniteSet(Calls)
<1>1. IsFiniteSet(Calls)
  BY SyncFlushAssumption, FS_Interval DEF Calls
<1> QED
  BY <1>1, SyncFlushAssumption DEF Calls, Runs, NoRun

\* A set of calls has a size.
LEMMA SizeOfCalls ==
  ASSUME NEW S \in SUBSET Calls
  PROVE  Cardinality(S) \in Nat
BY Numbers, FS_Subset, FS_CardinalityType

\* The merged heal demand is a demand.
LEMMA DemandType ==
  ASSUME NEW calls
  PROVE  /\ StrongestDemand(calls) \in {Never, IfStale, Always}
         /\ \A reason : Demand(reason) \in {Never, IfStale, Always}
BY DEF StrongestDemand, Demand

\* The connection store keeps its type, whoever writes it.
LEMMA ConnectionType ==
  ASSUME NEW c \in Connection, NEW r \in Runs \cup {NoRun},
         NEW kind \in {"idle", "syncing", "online", "failed"},
         NEW contact \in Runs \cup {NoRun}
  PROVE  /\ Attempted(c, r) \in Connection
         /\ Invalidated(c) \in Connection
         /\ Forgotten(c) \in Connection
         /\ Published(c, r, kind, contact) \in Connection
BY DEF Connection, Attempted, Invalidated, Forgotten, Published

\* Replacing one run by a run leaves runs.
LEMMA OneRunType ==
  ASSUME NEW runs \in AllRuns, NEW r \in Runs, NEW p \in Run
  PROVE  [runs EXCEPT ![r] = p] \in AllRuns
BY DEF AllRuns

\* A run that goes on to its next await leaves runs.
LEMMA AwaitType ==
  ASSUME run \in AllRuns, NEW r \in Runs, NEW pc \in Await,
         run' = [run EXCEPT ![r].pc = pc]
  PROVE  run' \in AllRuns
<1>1. [run[r] EXCEPT !.pc = pc] \in Run
  <2>1. run[r] \in Run
    BY DEF AllRuns
  <2> QED
    BY <2>1 DEF Run
<1>2. run' = [run EXCEPT ![r] = [run[r] EXCEPT !.pc = pc]]
  OBVIOUS
<1> QED
  BY <1>1, <1>2, OneRunType

-----------------------------------------------------------------------------
(* Type correctness.                                                        *)

\* Starting a run keeps the types.
LEMMA TypeStart ==
  ASSUME NEW base \in AllRuns, NEW calls \in SUBSET Calls,
         NEW demand \in {Never, IfStale, Always}, NEW shown \in Connection,
         StartFlush(base, calls, demand, shown)
  PROVE  /\ run' \in AllRuns
         /\ flight' \in [run : Runs \cup {NoRun}, followUp : SUBSET Calls]
         /\ conn' \in Connection
<1>1. PICK r \in Runs :
        /\ run' = [base EXCEPT ![r] = [NotStarted EXCEPT
                     !.pc = "start", !.serves = calls, !.demand = demand]]
        /\ flight' = [run |-> r, followUp |-> {}]
        /\ conn' = Attempted(shown, r)
  BY DEF StartFlush
<1>2. [NotStarted EXCEPT !.pc = "start", !.serves = calls, !.demand = demand] \in Run
  BY DEF NotStarted, Run, Await, Never
<1> QED
  BY <1>1, <1>2, ConnectionType DEF AllRuns

\* A request keeps the types.
LEMMA TypeRequest ==
  ASSUME FlushTypeOK, NEW i \in Calls, NEW c \in Call, NEW shown \in Connection,
         RequestFlush(i, c, shown)
  PROVE  /\ call' \in [Calls -> Call]
         /\ run' \in AllRuns
         /\ flight' \in [run : Runs \cup {NoRun}, followUp : SUBSET Calls]
         /\ conn' \in Connection
<1>1. \A at \in {"waiting", "unserved"} : [c EXCEPT !.at = at] \in Call
  BY DEF Call, Answered
<1>2. CASE ~mounted
  BY <1>1, <1>2 DEF RequestFlush, FlushTypeOK, AllRuns
<1>3. CASE mounted /\ flight.run = NoRun
  <2>1. Demand(c.reason) \in {Never, IfStale, Always}
    BY DemandType
  <2>2. StartFlush(run, {i}, Demand(c.reason), shown)
    BY <1>3 DEF RequestFlush
  <2>3. call' \in [Calls -> Call]
    BY <1>1, <1>3 DEF RequestFlush, FlushTypeOK
  <2>4. run \in AllRuns /\ {i} \in SUBSET Calls
    BY DEF FlushTypeOK, AllRuns
  <2> QED
    BY <2>1, <2>2, <2>3, <2>4, TypeStart
<1>4. CASE mounted /\ flight.run # NoRun
  <2>1. conn' \in Connection
    BY <1>4, ConnectionType DEF RequestFlush
  <2> QED
    BY <1>1, <1>4, <2>1 DEF RequestFlush, FlushTypeOK, AllRuns
<1> QED
  BY <1>2, <1>3, <1>4

\* What the callers and the app ask for keeps the types.
LEMMA TypeCalls ==
  ASSUME FlushTypeOK, NEW i \in Calls
  PROVE  /\ \A reason \in Triggers : Trigger(i, reason) => FlushTypeOK'
         /\ \A k \in Animes : Commit(i, k) => FlushTypeOK'
         /\ Tell(i) => FlushTypeOK'
<1>1. ASSUME NEW reason \in Triggers, Trigger(i, reason)
      PROVE  FlushTypeOK'
  <2> DEFINE c == [call[i] EXCEPT !.reason = reason]
  <2>1. c \in Call
    BY SyncFlushAssumption DEF FlushTypeOK, Call
  <2>2. UNCHANGED <<mounted, paired, known, row, healed>>
    BY <1>1 DEF Trigger
  <2>3. CASE RequestFlush(i, c, conn)
    BY <2>1, <2>2, <2>3, TypeRequest DEF FlushTypeOK, AllRuns
  <2>4. CASE ~RequestFlush(i, c, conn)
    <3>1. /\ call' = [call EXCEPT ![i] = [c EXCEPT !.at = "unserved"]]
          /\ conn' = Forgotten(conn)
          /\ UNCHANGED <<flight, run>>
      BY <1>1, <2>4 DEF Trigger
    <3>2. [c EXCEPT !.at = "unserved"] \in Call
      BY <2>1 DEF Call, Answered
    <3>3. Forgotten(conn) \in Connection
      BY DEF FlushTypeOK, Connection, Forgotten, Invalidated
    <3> QED
      BY <2>2, <3>1, <3>2, <3>3 DEF FlushTypeOK
  <2> QED
    BY <2>3, <2>4
<1>2. ASSUME NEW k \in Animes, Commit(i, k)
      PROVE  FlushTypeOK'
  BY <1>2 DEF Commit, FlushTypeOK, Call, Reasons, Mutation, RowState, Waiting
<1>3. ASSUME Tell(i)
      PROVE  FlushTypeOK'
  <2>1. call[i] \in Call /\ Invalidated(conn) \in Connection
    BY DEF FlushTypeOK, Connection, Invalidated
  <2> QED
    BY <1>3, <2>1, TypeRequest DEF Tell, FlushTypeOK, AllRuns
<1> QED
  BY <1>1, <1>2, <1>3

\* A settled run keeps the types.
LEMMA TypeSettle ==
  ASSUME FlushTypeOK, NEW r \in Runs, SettleRun(r)
  PROVE  FlushTypeOK'
<1>1. AnswerCallers(r) \in [Calls -> Call] /\ AnswerUnserved(r) \in [Calls -> Call]
  BY DEF FlushTypeOK, AnswerCallers, AnswerUnserved, Call, Answered
<1>2. Over(r) \in AllRuns
  BY DEF FlushTypeOK, AllRuns, Over, NotStarted, Run, Await, Never
<1>3. NoFlight \in [run : Runs \cup {NoRun}, followUp : SUBSET Calls]
  BY DEF NoFlight
<1>4. UNCHANGED <<mounted, paired, known, row, healed>>
  BY DEF SettleRun
<1>5. CASE SettleAlone(r)
  BY <1>1, <1>2, <1>3, <1>4, <1>5 DEF SettleAlone, FlushTypeOK, AllRuns
<1>6. CASE SettleUnserved(r)
  <2>1. Invalidated(conn) \in Connection
    BY DEF FlushTypeOK, Connection, Invalidated
  <2> QED
    BY <1>1, <1>2, <1>3, <1>4, <1>6, <2>1 DEF SettleUnserved, FlushTypeOK, AllRuns
<1>7. CASE SettleThenFollowUp(r)
  <2>1. StrongestDemand(flight.followUp) \in {Never, IfStale, Always}
    BY DemandType
  <2>2. flight.followUp \in SUBSET Calls /\ conn \in Connection
    BY DEF FlushTypeOK
  <2>3. /\ StartFlush(Over(r), flight.followUp,
                      StrongestDemand(flight.followUp), conn)
        /\ call' = AnswerCallers(r)
    BY <1>7 DEF SettleThenFollowUp
  <2>4. /\ run' \in AllRuns
        /\ flight' \in [run : Runs \cup {NoRun}, followUp : SUBSET Calls]
        /\ conn' \in Connection
    BY <1>2, <2>1, <2>2, <2>3, TypeStart
  <2> QED
    BY <1>1, <1>4, <2>3, <2>4 DEF FlushTypeOK, AllRuns
<1> QED
  BY <1>5, <1>6, <1>7 DEF SettleRun

\* The steps of a cycle up to its sends keep the types.
LEMMA TypePass ==
  ASSUME FlushTypeOK, NEW r \in Runs
  PROVE  /\ RecordStart(r) => FlushTypeOK'
         /\ ReadConfig(r) => FlushTypeOK'
         /\ RunClaims(r) => FlushTypeOK'
         /\ CountBacklog(r) => FlushTypeOK'
         /\ Throw(r) => FlushTypeOK'
<1>0. run[r] \in Run /\ run \in AllRuns
  BY DEF FlushTypeOK, AllRuns
<1>1. ASSUME RecordStart(r)
      PROVE  FlushTypeOK'
  <2>1. run' \in AllRuns
    BY <1>0, <1>1, AwaitType DEF RecordStart, Await
  <2> QED
    BY <1>1, <2>1 DEF RecordStart, FlushTypeOK, AllRuns
<1>2. ASSUME ReadConfig(r)
      PROVE  FlushTypeOK'
  <2>1. run' \in AllRuns
    BY <1>0, <1>2, AwaitType DEF ReadConfig, Await
  <2> QED
    BY <1>2, <2>1 DEF ReadConfig, FlushTypeOK, AllRuns
<1>3. ASSUME RunClaims(r)
      PROVE  FlushTypeOK'
  <2>1. row' \in [Calls -> RowState]
    BY <1>3 DEF RunClaims, FlushTypeOK, RowState, Waiting
  <2>2. Batch \in SUBSET Calls /\ {i \in Calls : row[i] # "none"} \in SUBSET Calls
    BY DEF Batch
  <2> DEFINE p == [run[r] EXCEPT
                     !.pc = "count", !.round = Batch,
                     !.seen = IF run[r].pass = 2 THEN @
                              ELSE {i \in Calls : row[i] # "none"}]
  <2>3. p \in Run
    BY <1>0, <2>2 DEF Run, Await
  <2>4. run' = [run EXCEPT ![r] = p]
    BY <1>3 DEF RunClaims
  <2>5. run' \in [Runs -> Run]
    BY <2>3, <2>4, OneRunType DEF FlushTypeOK, AllRuns
  <2> QED
    BY <1>3, <2>1, <2>5 DEF RunClaims, FlushTypeOK
<1>4. ASSUME CountBacklog(r)
      PROVE  FlushTypeOK'
  <2>1. Cardinality({i \in Calls : row[i] \in Waiting}) \in Nat
    BY SizeOfCalls
  <2> DEFINE p == [run[r] EXCEPT
                     !.pc = "send",
                     !.total = IF run[r].round = {} THEN 0
                               ELSE Cardinality({i \in Calls : row[i] \in Waiting})]
  <2>2. p \in Run
    BY <1>0, <2>1 DEF Run, Await
  <2>3. run' = [run EXCEPT ![r] = p]
    BY <1>4 DEF CountBacklog
  <2>4. run' \in [Runs -> Run]
    BY <2>2, <2>3, OneRunType DEF FlushTypeOK, AllRuns
  <2> QED
    BY <1>4, <2>4 DEF CountBacklog, FlushTypeOK
<1>5. ASSUME Throw(r)
      PROVE  FlushTypeOK'
  <2>1. row' \in [Calls -> RowState]
    BY <1>5 DEF Throw, FlushTypeOK, RowState, Waiting
  <2> DEFINE p == [PassOver(run[r]) EXCEPT !.failed = run[r].pass = 1]
  <2>2. p \in Run
    BY <1>0 DEF PassOver, Run, Await
  <2>3. run' = [run EXCEPT ![r] = p]
    BY <1>5 DEF Throw
  <2>4. run' \in [Runs -> Run]
    BY <2>2, <2>3, OneRunType DEF FlushTypeOK, AllRuns
  <2> QED
    BY <1>5, <2>1, <2>4 DEF Throw, FlushTypeOK
<1> QED
  BY <1>1, <1>2, <1>3, <1>4, <1>5

\* What a round does to the rows and to its run, without the reasons for it.
LEMMA SendRoundCases ==
  ASSUME FlushTypeOK, NEW r \in Runs, SendRound(r),
         run[r].read + Cardinality(run[r].round) \in Nat
  PROVE  \E fate \in [run[r].round -> {"settled", "queued"}],
            next \in SUBSET Calls :
           /\ \A j \in next : IsHead(j)
           /\ row' = [i \in Calls |->
                IF i \in next THEN "claimed"
                ELSE IF i \in run[r].round /\ row[i] = "claimed" THEN fate[i]
                ELSE row[i]]
           /\ \E read \in Nat, unconfirmed, rated, more \in BOOLEAN :
                run' \in {[run EXCEPT ![r] = NextRound(@, next, read, unconfirmed)],
                          [run EXCEPT ![r] = AfterFirstPass(@, rated, more)],
                          [run EXCEPT ![r] = PassOver(@)]}
BY ZenonT(60) DEF SendRound

\* What a round makes of its run: it serves the same calls and has seen what it had seen.
LEMMA RoundRuns ==
  ASSUME NEW p \in Run, NEW next \in SUBSET Calls, NEW q,
         \/ \E read \in Nat, unconfirmed \in BOOLEAN : q = NextRound(p, next, read, unconfirmed)
         \/ \E rated, more \in BOOLEAN : q = AfterFirstPass(p, rated, more)
         \/ q = PassOver(p)
  PROVE  /\ q \in Run /\ q.serves = p.serves /\ q.demand = p.demand
         /\ q.old = p.old /\ q.seen = p.seen /\ q.pc \in {p.pc, "config", "heal"}
<1>1. CASE q = PassOver(p)
  BY <1>1 DEF PassOver, Run, Await
<1>2. CASE \E read \in Nat, unconfirmed \in BOOLEAN : q = NextRound(p, next, read, unconfirmed)
  BY <1>2 DEF NextRound, Run
<1>3. CASE \E rated, more \in BOOLEAN : q = AfterFirstPass(p, rated, more)
  <2>1. PICK rated \in BOOLEAN, more \in BOOLEAN : q = AfterFirstPass(p, rated, more)
    BY <1>3
  <2>2. PICK o : o = PassOver(p)
    OBVIOUS
  <2>3. /\ o \in Run /\ o.serves = p.serves /\ o.demand = p.demand /\ o.old = p.old
        /\ o.seen = p.seen
    BY <2>2 DEF PassOver, Run, Await
  <2>4. PICK pc \in {"config", "heal"} : pc = IF rated THEN "config" ELSE "heal"
    OBVIOUS
  <2>5. PICK pass \in {1, 2} : pass = IF rated THEN 2 ELSE 1
    OBVIOUS
  <2>6. q = [o EXCEPT !.pc = pc, !.pass = pass, !.more = more]
    BY <2>1, <2>2, <2>4, <2>5 DEF AfterFirstPass
  <2>7. pc \in Await
    BY DEF Await
  <2>8. /\ q \in Run /\ q.serves = o.serves /\ q.demand = o.demand /\ q.old = o.old
        /\ q.seen = o.seen /\ q.pc = pc
    <3> HIDE DEF Await
    <3> QED
      BY <2>3, <2>6, <2>7 DEF Run
  <2> QED
    BY <2>3, <2>8
<1> QED
  BY <1>1, <1>2, <1>3

\* A round keeps the types.
LEMMA TypeSend ==
  ASSUME FlushTypeOK, NEW r \in Runs, SendRound(r)
  PROVE  FlushTypeOK'
<1>0. run[r] \in Run /\ run \in AllRuns
  BY DEF FlushTypeOK, AllRuns
<1>1. run[r].read + Cardinality(run[r].round) \in Nat
  <2>1. run[r].round \in SUBSET Calls /\ run[r].read \in Nat
    BY <1>0 DEF Run
  <2>2. Cardinality(run[r].round) \in Nat
    BY <2>1, SizeOfCalls
  <2> QED
    BY <2>1, <2>2
<1>2. PICK fate \in [run[r].round -> {"settled", "queued"}],
           next \in SUBSET Calls :
        /\ row' = [i \in Calls |->
             IF i \in next THEN "claimed"
             ELSE IF i \in run[r].round /\ row[i] = "claimed" THEN fate[i]
             ELSE row[i]]
        /\ \E read \in Nat, unconfirmed, rated, more \in BOOLEAN :
             run' \in {[run EXCEPT ![r] = NextRound(@, next, read, unconfirmed)],
                       [run EXCEPT ![r] = AfterFirstPass(@, rated, more)],
                       [run EXCEPT ![r] = PassOver(@)]}
  BY <1>1, SendRoundCases
<1>3. PICK q : /\ run' = [run EXCEPT ![r] = q]
               /\ \/ \E read \in Nat, unconfirmed \in BOOLEAN :
                       q = NextRound(run[r], next, read, unconfirmed)
                  \/ \E rated, more \in BOOLEAN : q = AfterFirstPass(run[r], rated, more)
                  \/ q = PassOver(run[r])
  BY <1>2
<1>4. run' \in AllRuns
  BY <1>0, <1>3, RoundRuns, OneRunType
<1>5. row' \in [Calls -> RowState]
  BY <1>2 DEF FlushTypeOK, RowState, Waiting
<1> QED
  BY <1>4, <1>5 DEF SendRound, FlushTypeOK, AllRuns

\* The end of a cycle keeps the types.
LEMMA TypeEnd ==
  ASSUME FlushTypeOK, NEW r \in Runs
  PROVE  /\ Heal(r) => FlushTypeOK'
         /\ Close(r) => FlushTypeOK'
         /\ Publish(r) => FlushTypeOK'
         /\ RecordFailure(r) => FlushTypeOK'
         /\ PublishFailure(r) => FlushTypeOK'
<1>0. run[r] \in Run /\ run \in AllRuns
  BY DEF FlushTypeOK, AllRuns
<1>1. conn \in Connection /\ conn.contact \in Runs \cup {NoRun}
  BY DEF FlushTypeOK, Connection
<1>2. \A kind \in {"idle", "online", "failed"}, contact \in Runs \cup {NoRun} :
        Published(conn, r, kind, contact) \in Connection
  BY <1>1 DEF Published, Connection
<1>3. ASSUME Heal(r)
      PROVE  FlushTypeOK'
  <2> DEFINE next == IF run[r].failed THEN "fail" ELSE "close"
             tried == [run[r] EXCEPT !.heal = "tried", !.pc = next]
             skipped == [run[r] EXCEPT !.heal = IF @ = "tried" THEN @ ELSE "not_due",
                                       !.pc = next]
  <2>1. tried \in Run /\ skipped \in Run
    BY <1>0 DEF Run, Await
  <2>2. run' = [run EXCEPT ![r] = tried] \/ run' = [run EXCEPT ![r] = skipped]
    BY <1>3 DEF Heal
  <2>3. run' \in AllRuns
    BY <1>0, <2>1, <2>2, OneRunType
  <2> QED
    BY <1>3, <2>3 DEF Heal, FlushTypeOK, AllRuns
<1>4. ASSUME Close(r)
      PROVE  FlushTypeOK'
  <2> DEFINE thrown == [run[r] EXCEPT !.pc = "heal", !.failed = TRUE]
  <2>1. thrown \in Run
    BY <1>0 DEF Run, Await
  <2>2. \/ \E pc \in {"ended", "publish"} : run' = [run EXCEPT ![r].pc = pc]
        \/ run' = [run EXCEPT ![r] = thrown]
    BY <1>4 DEF Close
  <2>3. run' \in AllRuns
    BY <1>0, <2>1, <2>2, AwaitType, OneRunType DEF Await
  <2>4. conn' \in Connection
    BY <1>1, <1>2, <1>4 DEF Close
  <2> QED
    BY <1>4, <2>3, <2>4 DEF Close, FlushTypeOK, AllRuns
<1>5. ASSUME Publish(r)
      PROVE  FlushTypeOK'
  <2>1. run' \in AllRuns
    BY <1>0, <1>5, AwaitType DEF Publish, Await
  <2>2. conn' \in Connection
    BY <1>2, <1>5 DEF Publish
  <2> QED
    BY <1>5, <2>1, <2>2 DEF Publish, FlushTypeOK, AllRuns
<1>6. ASSUME RecordFailure(r)
      PROVE  FlushTypeOK'
  <2>1. run' \in AllRuns
    BY <1>0, <1>6, AwaitType DEF RecordFailure, Await
  <2> QED
    BY <1>6, <2>1 DEF RecordFailure, FlushTypeOK, AllRuns
<1>7. ASSUME PublishFailure(r)
      PROVE  FlushTypeOK'
  <2>1. run' \in AllRuns
    BY <1>0, <1>7, AwaitType DEF PublishFailure, Await
  <2>2. conn' \in Connection
    BY <1>1, <1>2, <1>7 DEF PublishFailure
  <2> QED
    BY <1>7, <2>1, <2>2 DEF PublishFailure, FlushTypeOK, AllRuns
<1> QED
  BY <1>3, <1>4, <1>5, <1>6, <1>7

\* So do the screens, the user and the native engine.
LEMMA TypeWorld ==
  ASSUME FlushTypeOK
  PROVE  /\ Mount \/ Unmount \/ Unpair \/ Notice \/ Pair \/ HealAges => FlushTypeOK'
         /\ \A i \in Calls : NativeTakes(i) \/ NativeEnds(i) \/ ExpireClaim(i) => FlushTypeOK'
<1>1. Forgotten(conn) \in Connection
  BY DEF FlushTypeOK, Connection, Forgotten, Invalidated
<1>2. Unpair => FlushTypeOK'
  <2> DEFINE p(r) == [run[r] EXCEPT !.old = run[r].pc # "none"]
  <2>1. ASSUME NEW r \in Runs
        PROVE  p(r) \in Run
    <3>1. (run[r].pc # "none") \in BOOLEAN
      OBVIOUS
    <3>2. \A old \in BOOLEAN : [run[r] EXCEPT !.old = old] \in Run
      BY DEF FlushTypeOK, Run
    <3> QED
      BY <3>1, <3>2
  <2>3. Unpair => run' = [r \in Runs |-> p(r)]
    BY DEF Unpair
  <2>4. Unpair => run' \in [Runs -> Run]
    BY <2>1, <2>3
  <2>2. Unpair => row' \in [Calls -> RowState]
    BY DEF Unpair, FlushTypeOK, RowState
  <2> QED
    BY <2>2, <2>4 DEF Unpair, FlushTypeOK
<1>3. Mount \/ Unmount \/ Notice \/ Pair \/ HealAges => FlushTypeOK'
  BY <1>1 DEF Mount, Unmount, Notice, Pair, HealAges, FlushTypeOK
<1>4. \A i \in Calls : NativeTakes(i) \/ NativeEnds(i) \/ ExpireClaim(i) => FlushTypeOK'
  BY DEF NativeTakes, NativeEnds, ExpireClaim, FlushTypeOK, RowState, Waiting
<1> QED
  BY <1>2, <1>3, <1>4

\* Every variable keeps its type: the records of a run and of the connection
\* are what the code's objects may hold, whatever is called in which order.
THEOREM FlushTypeCorrect == FlushSpec => []FlushTypeOK
<1>1. FlushInit => FlushTypeOK
  <2> SUFFICES ASSUME FlushInit PROVE FlushTypeOK
    OBVIOUS
  <2>1. NotStarted \in Run
    BY DEF NotStarted, Run, Await, Never
  <2>2. \E k \in Animes : TRUE
    BY SyncFlushAssumption
  <2>3. call \in [Calls -> Call]
    BY <2>2 DEF FlushInit, Call, Reasons, Mutation
  <2> QED
    BY <2>1, <2>3 DEF FlushInit, FlushTypeOK, RowState, NoFlight, Connection
<1>2. FlushTypeOK /\ [FlushNext]_flushVars => FlushTypeOK'
  <2> SUFFICES ASSUME FlushTypeOK, [FlushNext]_flushVars PROVE FlushTypeOK'
    OBVIOUS
  <2>1. CASE UNCHANGED flushVars
    BY <2>1 DEF flushVars, FlushTypeOK
  <2>2. CASE FlushNext
    BY <2>2, TypeCalls, TypeSettle, TypePass, TypeSend, TypeEnd, TypeWorld
    DEF FlushNext, Step
  <2> QED
    BY <2>1, <2>2
<1> QED
  BY <1>1, <1>2, PTL DEF FlushSpec

-----------------------------------------------------------------------------
(* Single flight.                                                           *)

\* Only the run recorded in SYNC_FLUSH_STATES is under way.  OneCycle alone is
\* not inductive: a request must find the entry to know that a cycle runs.
OnlyTheFlight == \A r \in Runs : r \in Active => flight.run = r

\* A run that starts while no other is active is the flight.
LEMMA StartKeepsFlight ==
  ASSUME NEW base \in AllRuns, NEW calls, NEW demand, NEW shown,
         \A q \in Runs : base[q].pc \in {"none", "over"},
         StartFlush(base, calls, demand, shown)
  PROVE  OnlyTheFlight'
<1>1. PICK r \in Runs :
        /\ run' = [base EXCEPT ![r] = [NotStarted EXCEPT
                     !.pc = "start", !.serves = calls, !.demand = demand]]
        /\ flight' = [run |-> r, followUp |-> {}]
  BY DEF StartFlush
<1>2. \A q \in Runs : q # r => run'[q] = base[q]
  BY <1>1 DEF AllRuns
<1> QED
  BY <1>1, <1>2 DEF OnlyTheFlight, Active

\* A request starts a run only when none is recorded.
LEMMA RequestKeepsFlight ==
  ASSUME FlushTypeOK, OnlyTheFlight, NEW i, NEW c, NEW shown, RequestFlush(i, c, shown)
  PROVE  OnlyTheFlight'
<1>1. CASE mounted /\ flight.run = NoRun
  <2>1. \A q \in Runs : run[q].pc \in {"none", "over"}
    BY <1>1, Numbers DEF OnlyTheFlight, Active
  <2>2. StartFlush(run, {i}, Demand(c.reason), shown) /\ run \in AllRuns
    BY <1>1 DEF RequestFlush, FlushTypeOK, AllRuns
  <2> QED
    BY <2>1, <2>2, StartKeepsFlight
<1>2. CASE ~(mounted /\ flight.run = NoRun)
  <2>1. flight'.run = flight.run /\ run' = run
    BY <1>2 DEF RequestFlush, FlushTypeOK
  <2> QED
    BY <2>1 DEF OnlyTheFlight, Active
<1> QED
  BY <1>1, <1>2

\* A follow-up starts only when the run before it is over.
LEMMA SettleKeepsFlight ==
  ASSUME FlushTypeOK, OnlyTheFlight, NEW r \in Runs, SettleRun(r)
  PROVE  OnlyTheFlight'
<1>1. /\ Over(r) \in AllRuns
      /\ \A q \in Runs : Over(r)[q].pc \in {"none", "over"}
  <2>1. \A q \in Runs : q # r => run[q].pc \in {"none", "over"}
    BY DEF SettleRun, OnlyTheFlight, Active
  <2>2. Over(r) \in AllRuns
    BY DEF FlushTypeOK, AllRuns, Over, NotStarted, Run, Await, Never
  <2>3. Over(r)[r].pc = "over" /\ \A q \in Runs : q # r => Over(r)[q] = run[q]
    BY DEF FlushTypeOK, Over, NotStarted
  <2> QED
    BY <2>1, <2>2, <2>3
<1>2. CASE SettleThenFollowUp(r)
  BY <1>1, <1>2, StartKeepsFlight DEF SettleThenFollowUp
<1>3. CASE SettleAlone(r) \/ SettleUnserved(r)
  <2>1. run' = Over(r)
    BY <1>3 DEF SettleAlone, SettleUnserved
  <2> QED
    BY <1>1, <2>1 DEF OnlyTheFlight, Active
<1> QED
  BY <1>2, <1>3 DEF SettleRun

\* A step of a cycle moves a run that is under way.
LEMMA StepKeepsFlight ==
  ASSUME FlushTypeOK, OnlyTheFlight, NEW r \in Runs, Step(r)
  PROVE  OnlyTheFlight'
<1>1. flight' = flight
  BY DEF Step, RecordStart, ReadConfig, RunClaims, CountBacklog, SendRound,
         Throw, Heal, Close, Publish, RecordFailure, PublishFailure
<1>2. run[r].pc \notin {"none", "over"}
  BY DEF Step, RecordStart, ReadConfig, RunClaims, CountBacklog, SendRound,
         Throw, Heal, Close, Publish, RecordFailure, PublishFailure
<1>3. \A q \in Runs : q # r => run'[q] = run[q]
  BY DEF FlushTypeOK, Step, RecordStart, ReadConfig, RunClaims, CountBacklog,
         SendRound, Throw, Heal, Close, Publish, RecordFailure, PublishFailure
<1> QED
  BY <1>1, <1>2, <1>3 DEF OnlyTheFlight, Active

\* "Cycles never overlap" (sync-flush.helpers.ts), for any number of requests
\* in any order, also when the dispatcher goes away and comes back meanwhile.
THEOREM CyclesNeverOverlap == FlushSpec => []OneCycle
<1>1. FlushInit => OnlyTheFlight
  BY DEF FlushInit, OnlyTheFlight, Active, NotStarted
<1>2. FlushTypeOK /\ OnlyTheFlight /\ [FlushNext]_flushVars => OnlyTheFlight'
  <2> SUFFICES ASSUME FlushTypeOK, OnlyTheFlight, [FlushNext]_flushVars PROVE OnlyTheFlight'
    OBVIOUS
  <2>1. CASE UNCHANGED <<flight, run>>
    BY <2>1 DEF OnlyTheFlight, Active
  <2>2. ASSUME NEW i \in Calls, NEW reason \in Triggers, Trigger(i, reason)
        PROVE  OnlyTheFlight'
    <3>1. CASE known
      BY <2>2, <3>1, RequestKeepsFlight DEF Trigger
    <3>2. CASE ~known
      BY <2>1, <2>2, <3>2 DEF Trigger
    <3> QED
      BY <3>1, <3>2
  <2>3. ASSUME NEW i \in Calls, Tell(i)
        PROVE  OnlyTheFlight'
    BY <2>3, RequestKeepsFlight DEF Tell
  <2>4. ASSUME NEW r \in Runs, SettleRun(r)
        PROVE  OnlyTheFlight'
    BY <2>4, SettleKeepsFlight
  <2>5. ASSUME NEW r \in Runs, Step(r)
        PROVE  OnlyTheFlight'
    BY <2>5, StepKeepsFlight
  <2>6. CASE Unpair
    <3>1. \A r \in Runs : run'[r].pc = run[r].pc
      BY <2>6 DEF Unpair, FlushTypeOK, Run
    <3> QED
      BY <2>6, <3>1 DEF Unpair, OnlyTheFlight, Active
  <2>7. CASE Mount \/ Unmount \/ Notice \/ Pair \/ HealAges
    BY <2>1, <2>7 DEF Mount, Unmount, Notice, Pair, HealAges
  <2>8. ASSUME NEW i \in Calls,
               \/ \E k \in Animes : Commit(i, k)
               \/ NativeTakes(i) \/ NativeEnds(i) \/ ExpireClaim(i)
        PROVE  OnlyTheFlight'
    BY <2>1, <2>8 DEF Commit, NativeTakes, NativeEnds, ExpireClaim
  <2>9. CASE UNCHANGED flushVars
    BY <2>1, <2>9 DEF flushVars
  <2> QED
    BY <2>2, <2>3, <2>4, <2>5, <2>6, <2>7, <2>8, <2>9 DEF FlushNext
<1>3. OnlyTheFlight => OneCycle
  BY DEF OnlyTheFlight, OneCycle, Active
<1> QED
  BY <1>1, <1>2, <1>3, FlushTypeCorrect, PTL DEF FlushSpec

-----------------------------------------------------------------------------
(* What a cycle has done by the time it ends.                               *)

\* The first pass of run p has claimed, and did not fail: what it saw is fixed.
ReadDone(p) ==
  \/ p.pass = 2
  \/ p.pc \in {"count", "send", "close", "publish"}
  \/ p.pc \in {"heal", "fail", "publish_fail", "ended"} /\ ~p.failed

\* Run p has dealt with the heal that was demanded of it.
HealDone(p) ==
  p.pc \in {"close", "publish", "fail", "publish_fail", "ended"} =>
    /\ p.demand = Always => p.heal = "tried"
    /\ p.demand = IfStale => p.heal # "none"

\* The rows a claim finds.
Existing == {i \in Calls : row[i] # "none"}

\* A step takes run p to run q: it serves the same calls in the same pairing, does not
\* forget the heal, and what it saw is what it saw before or every row there is.
Progress(p, q) ==
  /\ q.serves = p.serves /\ q.demand = p.demand /\ q.old = p.old
  /\ HealDone(p) => HealDone(q)
  /\ ReadDone(q) => (ReadDone(p) /\ q.seen = p.seen) \/ q.seen = Existing

\* No row appears or goes: only its state moves.
SameRows == \A i \in Calls : /\ row'[i] = "none" <=> row[i] = "none"
                             /\ row'[i] = "gone" <=> row[i] = "gone"

\* The connection is left alone, or its owner r publishes; `online` only after its close.
Publishes(r) ==
  \/ conn' = conn
  \/ /\ conn.owner = r /\ conn'.owner = conn.owner /\ conn'.contact \in {conn.contact, r}
     /\ conn'.kind = "online" => /\ run[r].pc = "publish" /\ run'[r].pc = "ended"
                                 /\ run'[r].seen = run[r].seen

\* What a step of a cycle does: it moves its own run, and publishes only what it owns.
Moves(r) ==
  /\ run[r].pc \notin {"none", "over", "ended"}
  /\ \E q \in Run : run' = [run EXCEPT ![r] = q] /\ Progress(run[r], q)
  /\ SameRows /\ Publishes(r)
  /\ UNCHANGED <<mounted, paired, known, call, flight>>

\* A run that goes on to its next await makes progress, if what it has read is not affected.
LEMMA AwaitProgress ==
  ASSUME FlushTypeOK, NEW r \in Runs, NEW pc \in Await, run' = [run EXCEPT ![r].pc = pc],
         LET q == [run[r] EXCEPT !.pc = pc]
         IN  (HealDone(run[r]) => HealDone(q)) /\ (ReadDone(q) => ReadDone(run[r]))
  PROVE  \E q \in Run : run' = [run EXCEPT ![r] = q] /\ Progress(run[r], q)
<1> DEFINE q == [run[r] EXCEPT !.pc = pc]
<1>1. run[r] \in Run
  BY DEF FlushTypeOK
<1>2. /\ q \in Run /\ q.serves = run[r].serves /\ q.demand = run[r].demand
      /\ q.old = run[r].old /\ q.seen = run[r].seen
  BY <1>1 DEF Run
<1>3. run' = [run EXCEPT ![r] = q]
  OBVIOUS
<1>4. Progress(run[r], q)
  BY <1>2 DEF Progress
<1> QED
  BY <1>2, <1>3, <1>4

\* The steps up to the sends are such steps.
LEMMA PassMoves ==
  ASSUME FlushTypeOK, NEW r \in Runs,
         RecordStart(r) \/ ReadConfig(r) \/ RunClaims(r) \/ CountBacklog(r) \/ Throw(r)
  PROVE  Moves(r)
<1>0. run[r] \in Run
  BY DEF FlushTypeOK
<1>1. CASE RecordStart(r)
  <2>1. \E q \in Run : run' = [run EXCEPT ![r] = q] /\ Progress(run[r], q)
    BY <1>0, <1>1, AwaitProgress DEF RecordStart, Await, HealDone, ReadDone, Run
  <2> QED
    BY <1>1, <2>1 DEF RecordStart, Moves, SameRows, Publishes
<1>2. CASE ReadConfig(r)
  <2>1. \E q \in Run : run' = [run EXCEPT ![r] = q] /\ Progress(run[r], q)
    BY <1>0, <1>2, AwaitProgress DEF ReadConfig, Await, HealDone, ReadDone, Run
  <2> QED
    BY <1>2, <2>1 DEF ReadConfig, Moves, SameRows, Publishes
<1>3. CASE RunClaims(r)
  <2> DEFINE q == [run[r] EXCEPT !.pc = "count", !.round = Batch,
                                 !.seen = IF run[r].pass = 2 THEN @ ELSE Existing]
  <2>1. Batch \in SUBSET Calls /\ Existing \in SUBSET Calls
    BY DEF Batch, Existing
  <2>2. /\ q \in Run /\ q.serves = run[r].serves /\ q.demand = run[r].demand
        /\ q.old = run[r].old /\ q.pc = "count" /\ q.pass = run[r].pass
        /\ q.seen = IF run[r].pass = 2 THEN run[r].seen ELSE Existing
    BY <1>0, <2>1 DEF Run, Await
  <2>3. run' = [run EXCEPT ![r] = q]
    BY <1>3 DEF RunClaims, Existing
  <2>4. Progress(run[r], q)
    BY <2>2 DEF Progress, HealDone, ReadDone
  <2>5. SameRows
    BY <1>3 DEF RunClaims, SameRows, Batch, IsHead
  <2> HIDE DEF q
  <2> QED
    BY <1>3, <2>2, <2>3, <2>4, <2>5 DEF RunClaims, Moves, Publishes
<1>4. CASE CountBacklog(r)
  <2> DEFINE total == IF run[r].round = {} THEN 0
                      ELSE Cardinality({i \in Calls : row[i] \in Waiting})
             q == [run[r] EXCEPT !.pc = "send", !.total = total]
  <2>1. total \in Nat
    BY SizeOfCalls
  <2>2. /\ q \in Run /\ q.serves = run[r].serves /\ q.demand = run[r].demand
        /\ q.old = run[r].old /\ q.pc = "send" /\ q.seen = run[r].seen
    BY <1>0, <2>1 DEF Run, Await
  <2>3. run' = [run EXCEPT ![r] = q] /\ run[r].pc = "count"
    BY <1>4 DEF CountBacklog
  <2>4. Progress(run[r], q)
    BY <2>2, <2>3 DEF Progress, HealDone, ReadDone
  <2> HIDE DEF q
  <2> QED
    BY <1>4, <2>2, <2>3, <2>4 DEF CountBacklog, Moves, SameRows, Publishes
<1>5. CASE Throw(r)
  <2> DEFINE q == [PassOver(run[r]) EXCEPT !.failed = run[r].pass = 1]
  <2>1. /\ q \in Run /\ q.serves = run[r].serves /\ q.demand = run[r].demand
        /\ q.old = run[r].old /\ q.pc = "heal" /\ q.seen = run[r].seen
        /\ q.pass = run[r].pass /\ q.failed = (run[r].pass = 1) /\ run[r].pass \in {1, 2}
    BY <1>0 DEF PassOver, Run, Await
  <2>2. run' = [run EXCEPT ![r] = q]
    BY <1>5 DEF Throw
  <2>3. Progress(run[r], q)
    BY <2>1 DEF Progress, HealDone, ReadDone
  <2>4. SameRows
    BY <1>5 DEF Throw, SameRows, FlushTypeOK
  <2>5. run[r].pc \notin {"none", "over", "ended"}
    BY <1>5 DEF Throw
  <2> HIDE DEF q
  <2> QED
    BY <1>5, <2>1, <2>2, <2>3, <2>4, <2>5 DEF Throw, Moves, Publishes
<1> QED
  BY <1>1, <1>2, <1>3, <1>4, <1>5

\* So is a round of sends.
LEMMA SendMoves ==
  ASSUME FlushTypeOK, NEW r \in Runs, SendRound(r)
  PROVE  Moves(r)
<1>0. run[r] \in Run /\ run[r].pc = "send"
  BY DEF FlushTypeOK, SendRound
<1>1. run[r].read + Cardinality(run[r].round) \in Nat
  <2>1. run[r].round \in SUBSET Calls /\ run[r].read \in Nat
    BY <1>0 DEF Run
  <2>2. Cardinality(run[r].round) \in Nat
    BY <2>1, SizeOfCalls
  <2> QED
    BY <2>1, <2>2
<1>2. PICK fate \in [run[r].round -> {"settled", "queued"}],
           next \in SUBSET Calls :
        /\ \A j \in next : IsHead(j)
        /\ row' = [i \in Calls |->
             IF i \in next THEN "claimed"
             ELSE IF i \in run[r].round /\ row[i] = "claimed" THEN fate[i]
             ELSE row[i]]
        /\ \E read \in Nat, unconfirmed, rated, more \in BOOLEAN :
             run' \in {[run EXCEPT ![r] = NextRound(@, next, read, unconfirmed)],
                       [run EXCEPT ![r] = AfterFirstPass(@, rated, more)],
                       [run EXCEPT ![r] = PassOver(@)]}
  BY <1>1, SendRoundCases
<1>3. SameRows
  BY <1>2 DEF SameRows, IsHead
<1>4. PICK q : /\ run' = [run EXCEPT ![r] = q]
               /\ \/ \E read \in Nat, unconfirmed \in BOOLEAN :
                       q = NextRound(run[r], next, read, unconfirmed)
                  \/ \E rated, more \in BOOLEAN : q = AfterFirstPass(run[r], rated, more)
                  \/ q = PassOver(run[r])
  BY <1>2
<1>5. /\ q \in Run /\ q.serves = run[r].serves /\ q.demand = run[r].demand
      /\ q.old = run[r].old /\ q.seen = run[r].seen /\ q.pc \in {"send", "config", "heal"}
  <2> DEFINE p == run[r]
  <2>1. /\ p \in Run /\ p.pc = "send"
        /\ \/ \E read \in Nat, unconfirmed \in BOOLEAN :
                 q = NextRound(p, next, read, unconfirmed)
           \/ \E rated, more \in BOOLEAN : q = AfterFirstPass(p, rated, more)
           \/ q = PassOver(p)
    BY <1>0, <1>4
  <2> HIDE DEF p
  <2>2. /\ q \in Run /\ q.serves = p.serves /\ q.demand = p.demand
        /\ q.old = p.old /\ q.seen = p.seen /\ q.pc \in {p.pc, "config", "heal"}
    BY <2>1, RoundRuns, Zenon
  <2> QED
    BY <2>1, <2>2 DEF p
<1>6. Progress(run[r], q)
  BY <1>0, <1>5 DEF Progress, HealDone, ReadDone
<1> QED
  BY <1>0, <1>3, <1>4, <1>5, <1>6 DEF SendRound, Moves, Publishes

\* So is the end of a cycle.
LEMMA EndMoves ==
  ASSUME FlushTypeOK, NEW r \in Runs,
         Heal(r) \/ Close(r) \/ Publish(r) \/ RecordFailure(r) \/ PublishFailure(r)
  PROVE  Moves(r)
<1>0. run[r] \in Run /\ conn \in Connection
  BY DEF FlushTypeOK
<1>1. \A kind, contact : /\ Published(conn, r, kind, contact) # conn =>
                              conn.owner = r
                         /\ Published(conn, r, kind, contact).owner = conn.owner
                         /\ conn.owner = r => /\ Published(conn, r, kind, contact).kind = kind
                                              /\ Published(conn, r, kind, contact).contact = contact
  BY <1>0 DEF Published, Connection
<1>2. CASE Heal(r)
  <2> DEFINE next == IF run[r].failed THEN "fail" ELSE "close"
             tried == [run[r] EXCEPT !.heal = "tried", !.pc = next]
             skipped == [run[r] EXCEPT !.heal = IF @ = "tried" THEN @ ELSE "not_due", !.pc = next]
  <2>1. /\ tried \in Run /\ tried.serves = run[r].serves /\ tried.demand = run[r].demand
        /\ tried.old = run[r].old /\ tried.seen = run[r].seen /\ tried.heal = "tried"
        /\ tried.pc = next /\ tried.pass = run[r].pass /\ tried.failed = run[r].failed
    BY <1>0 DEF Run, Await
  <2>2. /\ skipped \in Run /\ skipped.serves = run[r].serves /\ skipped.demand = run[r].demand
        /\ skipped.old = run[r].old /\ skipped.seen = run[r].seen /\ skipped.heal # "none"
        /\ skipped.pc = next /\ skipped.pass = run[r].pass /\ skipped.failed = run[r].failed
    BY <1>0 DEF Run, Await
  <2>3. run[r].pc = "heal"
    BY <1>2 DEF Heal
  <2>4. \/ run' = [run EXCEPT ![r] = tried]
        \/ run' = [run EXCEPT ![r] = skipped] /\ run[r].demand # Always
    BY <1>2 DEF Heal, HealIsDue
  <2>5. Progress(run[r], tried)
    <3> HIDE DEF tried
    <3> QED
      BY <2>1, <2>3 DEF Progress, HealDone, ReadDone
  <2>6. run[r].demand # Always => Progress(run[r], skipped)
    <3> HIDE DEF skipped
    <3> QED
      BY <2>2, <2>3 DEF Progress, HealDone, ReadDone
  <2> HIDE DEF tried, skipped
  <2> QED
    BY <1>2, <2>1, <2>2, <2>3, <2>4, <2>5, <2>6 DEF Heal, Moves, SameRows, Publishes
<1>3. CASE Close(r)
  <2> DEFINE thrown == [run[r] EXCEPT !.pc = "heal", !.failed = TRUE]
  <2>1. /\ thrown \in Run /\ thrown.serves = run[r].serves /\ thrown.demand = run[r].demand
        /\ thrown.old = run[r].old /\ thrown.seen = run[r].seen /\ thrown.pc = "heal"
        /\ thrown.pass = run[r].pass
    BY <1>0 DEF Run, Await
  <2>2. run[r].pc = "close"
    BY <1>3 DEF Close
  <2>3. Progress(run[r], thrown)
    <3> HIDE DEF thrown
    <3> QED
      BY <2>1, <2>2 DEF Progress, HealDone, ReadDone
  <2>4. ASSUME NEW pc \in {"ended", "publish"}, run' = [run EXCEPT ![r].pc = pc]
        PROVE  \E q \in Run : run' = [run EXCEPT ![r] = q] /\ Progress(run[r], q)
    BY <1>0, <2>2, <2>4, AwaitProgress, ZenonT(40) DEF Await, HealDone, ReadDone, Run
  <2>5. \/ \E pc \in {"ended", "publish"} : run' = [run EXCEPT ![r].pc = pc]
        \/ run' = [run EXCEPT ![r] = thrown]
    BY <1>3 DEF Close
  <2>6. \E q \in Run : run' = [run EXCEPT ![r] = q] /\ Progress(run[r], q)
    BY <2>1, <2>3, <2>4, <2>5
  <2>7. conn' = conn \/ conn' = Published(conn, r, "idle", r)
    BY <1>3 DEF Close
  <2>8. Publishes(r)
    BY <1>1, <2>7 DEF Publishes
  <2> QED
    BY <1>3, <2>2, <2>6, <2>8 DEF Close, Moves, SameRows
<1>4. CASE Publish(r)
  <2>1. \E q \in Run : run' = [run EXCEPT ![r] = q] /\ Progress(run[r], q)
    BY <1>0, <1>4, AwaitProgress DEF Publish, Await, HealDone, ReadDone, Run
  <2>2. /\ run[r].pc = "publish" /\ run'[r].pc = "ended" /\ run'[r].seen = run[r].seen
        /\ conn' = Published(conn, r, "online", r)
    BY <1>0, <1>4 DEF Publish, FlushTypeOK, Run
  <2>3. Publishes(r)
    BY <1>1, <2>2 DEF Publishes
  <2> QED
    BY <1>4, <2>1, <2>3 DEF Publish, Moves, SameRows
<1>5. CASE RecordFailure(r)
  <2>1. run[r].pc = "fail"
    BY <1>5 DEF RecordFailure
  <2>2. ASSUME NEW pc \in {"publish_fail", "ended"}, run' = [run EXCEPT ![r].pc = pc]
        PROVE  \E q \in Run : run' = [run EXCEPT ![r] = q] /\ Progress(run[r], q)
    BY <1>0, <2>1, <2>2, AwaitProgress, ZenonT(40) DEF Await, HealDone, ReadDone, Run
  <2>3. \E pc \in {"publish_fail", "ended"} : run' = [run EXCEPT ![r].pc = pc]
    BY <1>5 DEF RecordFailure
  <2>4. \E q \in Run : run' = [run EXCEPT ![r] = q] /\ Progress(run[r], q)
    BY <2>2, <2>3
  <2>5. UNCHANGED <<mounted, paired, known, call, row, flight, conn>>
    BY <1>5 DEF RecordFailure
  <2> QED
    BY <2>1, <2>4, <2>5 DEF Moves, SameRows, Publishes
<1>6. CASE PublishFailure(r)
  <2>1. run[r].pc = "publish_fail" /\ run' = [run EXCEPT ![r].pc = "ended"]
    BY <1>6 DEF PublishFailure
  <2>2. \E q \in Run : run' = [run EXCEPT ![r] = q] /\ Progress(run[r], q)
    BY <1>0, <2>1, AwaitProgress, ZenonT(40) DEF Await, HealDone, ReadDone, Run
  <2>3. PICK contact \in {conn.contact, r} : conn' = Published(conn, r, "failed", contact)
    BY <1>6 DEF PublishFailure
  <2>4. Publishes(r)
    BY <1>1, <2>3 DEF Publishes
  <2> QED
    BY <1>6, <2>2, <2>4 DEF PublishFailure, Moves, SameRows
<1> QED
  BY <1>2, <1>3, <1>4, <1>5, <1>6

\* Every step of a cycle is such a step.
LEMMA StepMoves ==
  ASSUME FlushTypeOK, NEW r \in Runs, Step(r)
  PROVE  Moves(r)
BY PassMoves, SendMoves, EndMoves DEF Step

-----------------------------------------------------------------------------
(* The inductive invariant.                                                 *)

\* A call that has not come has no row; a mutation that has come has one.
CallsAndRows ==
  \A i \in Calls : /\ call[i].at = "none" => row[i] = "none"
                   /\ call[i].reason = Mutation /\ call[i].at # "none" => row[i] # "none"

\* Only a call that asked is served, now or by the follow-up.
ServedHaveAsked ==
  \A i \in Calls : i \in flight.followUp \/ (\E r \in Runs : i \in run[r].serves)
                     => call[i].at \notin {"none", "committed"}

\* A run's demand is as strong as that of each call it serves.
DemandsMerged ==
  \A r \in Runs : \A i \in run[r].serves :
    /\ Demand(call[i].reason) = Always => run[r].demand = Always
    /\ Demand(call[i].reason) = IfStale => run[r].demand # Never

HealsDone == \A r \in Runs : HealDone(run[r])

\* What a run has seen holds every mutation it serves.
ServedAreSeen ==
  \A r \in Runs : ReadDone(run[r]) =>
    \A i \in run[r].serves : call[i].reason = Mutation => i \in run[r].seen

\* The work the caller of which was told.
Told == {i \in Calls : row[i] \notin {"none", "gone"} /\ call[i].at # "committed"}

\* The owner of the attempt has seen it, once it has read: work told of after the claim
\* takes the attempt away.
OwnerHasRead ==
  conn.owner # NoRun /\ ReadDone(run[conn.owner]) => Told \subseteq run[conn.owner].seen

\* `online` was published by a run that is done, and that owns the attempt still.
OnlineIsOver ==
  conn.kind = "online" => conn.owner # NoRun /\ run[conn.owner].pc \in {"ended", "over"}

\* Unless the facade has yet to notice that the bridge is gone, the owner and the evidence
\* are of the present pairing.
OfThisPairing ==
  ~(known /\ ~paired) => /\ conn.owner # NoRun => ~run[conn.owner].old
                         /\ conn.contact # NoRun => ~run[conn.contact].old

FlushInv ==
  /\ FlushTypeOK /\ CallsAndRows /\ ServedHaveAsked /\ DemandsMerged /\ HealsDone
  /\ ServedAreSeen /\ OwnerHasRead /\ OnlineIsOver /\ OnlineOverReadWork /\ OfThisPairing

\* A step of a cycle keeps the invariant.
LEMMA MovesKeep ==
  ASSUME FlushInv, FlushTypeOK', NEW r \in Runs, Moves(r)
  PROVE  FlushInv'
<1> USE DEF FlushInv
<1>1. PICK q \in Run : run' = [run EXCEPT ![r] = q] /\ Progress(run[r], q)
  BY DEF Moves
<1>2. run'[r] = q /\ \A p \in Runs : p # r => run'[p] = run[p]
  BY <1>1 DEF FlushTypeOK
<1>3. UNCHANGED <<paired, known, call, flight>> /\ SameRows /\ Publishes(r)
  BY DEF Moves
<1>4. \A p \in Runs : /\ run'[p].serves = run[p].serves /\ run'[p].demand = run[p].demand
                      /\ run'[p].old = run[p].old
  BY <1>1, <1>2 DEF Progress
<1>5. CallsAndRows' /\ ServedHaveAsked' /\ DemandsMerged'
  BY <1>3, <1>4 DEF CallsAndRows, ServedHaveAsked, DemandsMerged, SameRows
<1>6. HealsDone'
  BY <1>1, <1>2 DEF HealsDone, Progress
<1>7. ServedAreSeen'
  <2>1. \A i \in q.serves : call[i].reason = Mutation => i \in Existing
    BY <1>1 DEF Progress, ServedHaveAsked, CallsAndRows, Existing, FlushTypeOK, Run
  <2>2. ReadDone(q) => \A i \in q.serves : call[i].reason = Mutation => i \in q.seen
    BY <1>1, <2>1 DEF Progress, ServedAreSeen
  <2> QED
    BY <1>2, <1>3, <2>2 DEF ServedAreSeen
<1>8. Told' = Told /\ Told \subseteq Existing
  BY <1>3 DEF Told, Existing, SameRows
<1>9. conn'.owner = conn.owner /\ conn.owner \in Runs \cup {NoRun} /\ r # NoRun
  BY <1>3, Numbers DEF Publishes, FlushTypeOK, Connection
<1>10. OwnerHasRead'
  <2>1. CASE conn.owner = r
    BY <1>1, <1>2, <1>8, <1>9, <2>1 DEF OwnerHasRead, Progress
  <2>2. CASE conn.owner # r
    BY <1>2, <1>8, <1>9, <2>2 DEF OwnerHasRead
  <2> QED
    BY <2>1, <2>2
<1>11. OnlineIsOver' /\ OnlineOverReadWork'
  <2>1. CASE conn' = conn
    <3>1. conn.kind = "online" => conn.owner # r /\ conn.owner \in Runs
      BY <1>9 DEF OnlineIsOver, Moves
    <3> QED
      BY <1>2, <1>8, <2>1, <3>1 DEF OnlineIsOver, OnlineOverReadWork, Told
  <2>2. CASE /\ conn.owner = r
             /\ conn'.kind = "online" => /\ run[r].pc = "publish" /\ run'[r].pc = "ended"
                                         /\ run'[r].seen = run[r].seen
    <3>1. conn'.kind = "online" => Told' \subseteq run'[r].seen
      <4>1. run[r].pc = "publish" => ReadDone(run[r]) /\ Told \subseteq run[r].seen
        BY <1>9, <2>2 DEF ReadDone, OwnerHasRead
      <4> QED
        BY <1>8, <2>2, <4>1
    <3> QED
      BY <1>9, <2>2, <3>1 DEF OnlineIsOver, OnlineOverReadWork, Told
  <2> QED
    BY <1>3, <2>1, <2>2 DEF Publishes
<1>12. OfThisPairing'
  <2>1. conn'.contact = conn.contact \/ (conn'.contact = r /\ conn.owner = r)
    BY <1>3 DEF Publishes
  <2>2. conn.contact \in Runs \cup {NoRun}
    BY DEF FlushTypeOK, Connection
  <2> QED
    BY <1>3, <1>4, <1>9, <2>1, <2>2 DEF OfThisPairing
<1> QED
  BY <1>5, <1>6, <1>7, <1>10, <1>11, <1>12


\* A call is left alone, or it asks or is answered: it keeps its reason from the time it
\* came, and a mutation that asks has its row.
Asks(j) ==
  \/ call'[j] = call[j]
  \/ /\ call'[j].at \notin {"none", "committed"}
     /\ call[j].at = "none" \/ call'[j].reason = call[j].reason
     /\ call'[j].reason = Mutation => row[j] # "none"

\* A run is left alone, or it is over, or it starts for calls that have asked with a
\* demand as strong as theirs.
Turns(p) ==
  \/ run'[p] = run[p]
  \/ /\ run'[p].pc = "over" /\ run'[p].pass = 1 /\ run'[p].serves = {}
     /\ run'[p].seen = run[p].seen /\ run'[p].old = run[p].old
  \/ /\ run[p].pc = "none" /\ run'[p].pc = "start" /\ run'[p].pass = 1 /\ ~run'[p].old
     /\ \A j \in run'[p].serves :
          /\ call'[j].at \notin {"none", "committed"}
          /\ Demand(call'[j].reason) = Always => run'[p].demand = Always
          /\ Demand(call'[j].reason) = IfStale => run'[p].demand # Never

\* The connection is left alone while nobody is told of work, or it is taken back, or a
\* starting run owns it.
Shows ==
  \/ conn' = conn /\ Told' = Told
  \/ /\ conn'.kind # "online" /\ conn'.contact \in {conn.contact, NoRun}
     /\ \/ conn'.owner = NoRun
        \/ /\ conn'.owner \in Runs /\ run'[conn'.owner].pc = "start"
           /\ run'[conn'.owner].pass = 1 /\ ~run'[conn'.owner].old

\* What such a step of the dispatcher leaves behind keeps the invariant.
LEMMA DispatchKeeps ==
  ASSUME FlushInv, FlushTypeOK', UNCHANGED <<paired, known, row>>, Shows,
         \A j \in Calls : Asks(j), \A p \in Runs : Turns(p),
         \A j \in flight'.followUp : call'[j].at \notin {"none", "committed"}
  PROVE  FlushInv'
<1> USE DEF FlushInv
<1>1. \A p \in Runs : run[p].serves \in SUBSET Calls /\ run'[p].serves \in SUBSET Calls
  BY DEF FlushTypeOK, Run
<1>2. CallsAndRows'
  BY DEF CallsAndRows, Asks
<1>3. ServedHaveAsked'
  <2> SUFFICES ASSUME NEW i \in Calls, NEW p \in Runs, i \in run'[p].serves
               PROVE  call'[i].at \notin {"none", "committed"}
    BY DEF ServedHaveAsked
  <2>1. i \in run[p].serves => call[i].at \notin {"none", "committed"}
    BY DEF ServedHaveAsked
  <2> QED
    BY <2>1 DEF Turns, Asks
<1>4. \A p \in Runs : \A i \in run[p].serves : call'[i].reason = call[i].reason
  BY <1>1 DEF ServedHaveAsked, Asks
<1>5. DemandsMerged'
  BY <1>4 DEF DemandsMerged, Turns
<1>6. HealsDone'
  BY DEF HealsDone, HealDone, Turns
<1>7. \A p \in Runs : ReadDone(run'[p]) => run'[p] = run[p]
  BY DEF ReadDone, Turns
<1>8. ServedAreSeen'
  BY <1>4, <1>7 DEF ServedAreSeen
<1>9. conn.owner \in Runs \cup {NoRun} /\ conn'.owner \in Runs \cup {NoRun}
  BY DEF FlushTypeOK, Connection
<1>10. OwnerHasRead'
  <2>1. CASE conn' = conn /\ Told' = Told
    BY <1>7, <1>9, <2>1 DEF OwnerHasRead
  <2>2. CASE conn'.owner = NoRun
    BY <2>2 DEF OwnerHasRead
  <2>3. CASE run'[conn'.owner].pc = "start" /\ run'[conn'.owner].pass = 1
    BY <2>3 DEF OwnerHasRead, ReadDone
  <2> QED
    BY <2>1, <2>2, <2>3 DEF Shows
<1>11. OnlineIsOver' /\ OnlineOverReadWork'
  <2>1. CASE conn' = conn /\ Told' = Told
    <3>1. conn.kind = "online" => /\ conn.owner \in Runs
                                  /\ run'[conn.owner].pc \in {"ended", "over"}
                                  /\ run'[conn.owner].seen = run[conn.owner].seen
      BY <1>9 DEF OnlineIsOver, Turns
    <3>2. conn.kind = "online" => Told \subseteq run[conn.owner].seen
      BY DEF OnlineOverReadWork, Told
    <3> QED
      BY <2>1, <3>1, <3>2 DEF OnlineIsOver, OnlineOverReadWork, Told
  <2>2. CASE conn'.kind # "online"
    BY <2>2 DEF OnlineIsOver, OnlineOverReadWork
  <2> QED
    BY <2>1, <2>2 DEF Shows
<1>12. OfThisPairing'
  <2>1. \A p \in Runs : run'[p].old => run[p].old
    BY DEF Turns
  <2>2. conn.contact \in Runs \cup {NoRun}
    BY DEF FlushTypeOK, Connection
  <2> QED
    BY <1>9, <2>1, <2>2 DEF OfThisPairing, Shows
<1> QED
  BY <1>2, <1>3, <1>5, <1>6, <1>8, <1>10, <1>11, <1>12


\* Starting a run for calls that have asked is such a step.
LEMMA StartTurns ==
  ASSUME NEW base \in AllRuns, NEW calls, NEW demand, NEW shown,
         StartFlush(base, calls, demand, shown), shown \in Connection,
         \A j \in calls : /\ call'[j].at \notin {"none", "committed"}
                          /\ Demand(call'[j].reason) = Always => demand = Always
                          /\ Demand(call'[j].reason) = IfStale => demand # Never
  PROVE  /\ \A p \in Runs : run'[p] = base[p] \/ Turns(p)
         /\ shown.contact = conn.contact => Shows
         /\ flight'.followUp = {}
<1>1. PICK r \in Runs :
        /\ run' = [base EXCEPT ![r] = [NotStarted EXCEPT
                     !.pc = "start", !.serves = calls, !.demand = demand]]
        /\ flight' = [run |-> r, followUp |-> {}]
        /\ conn' = Attempted(shown, r)
        /\ run[r].pc = "none"
  BY DEF StartFlush, IsNextRun
<1>2. /\ run'[r].pc = "start" /\ run'[r].pass = 1 /\ ~run'[r].old
      /\ run'[r].serves = calls /\ run'[r].demand = demand
  BY <1>1 DEF AllRuns, NotStarted
<1>3. \A p \in Runs : p # r => run'[p] = base[p]
  BY <1>1 DEF AllRuns
<1>4. Turns(r)
  BY <1>1, <1>2 DEF Turns
<1>5. conn'.kind = "syncing" /\ conn'.owner = r /\ conn'.contact = shown.contact
  BY <1>1 DEF Attempted, Connection
<1>6. shown.contact = conn.contact => Shows
  BY <1>2, <1>5 DEF Shows
<1>7. \A p \in Runs : run'[p] = base[p] \/ Turns(p)
  BY <1>3, <1>4
<1> QED
  BY <1>1, <1>6, <1>7

\* A request keeps the invariant: its call has not asked before, and if it is told of a
\* mutation the shown connection has been invalidated.
LEMMA RequestKeeps ==
  ASSUME FlushInv, FlushTypeOK', NEW i \in Calls, NEW c \in Call, NEW shown \in Connection,
         RequestFlush(i, c, shown), UNCHANGED <<paired, known, row>>,
         call[i].at \in {"none", "committed"},
         call[i].at = "none" \/ c.reason = call[i].reason,
         c.reason = Mutation => row[i] # "none",
         (shown = conn /\ row[i] = "none") \/ shown = Invalidated(conn)
  PROVE  FlushInv'
<1>1. /\ call'[i].at \in {"waiting", "unserved"} /\ call'[i].reason = c.reason
      /\ \A j \in Calls : j # i => call'[j] = call[j]
  BY DEF RequestFlush, FlushInv, FlushTypeOK, Call
<1>2. \A j \in Calls : Asks(j)
  BY <1>1 DEF Asks
<1>3. row[i] = "none" => Told' = Told
  BY <1>1 DEF Told
<1>4. /\ shown.contact = conn.contact
      /\ \/ shown = conn /\ row[i] = "none"
         \/ shown.kind # "online" /\ shown.owner = NoRun
  <2>1. conn \in Connection
    BY DEF FlushInv, FlushTypeOK
  <2>2. /\ Invalidated(conn).contact = conn.contact
        /\ Invalidated(conn).kind = "idle" /\ Invalidated(conn).owner = NoRun
    BY <2>1 DEF Connection, Invalidated
  <2> QED
    BY <2>2
<1>5. Attempted(shown, NoRun).kind # "online" /\ Attempted(shown, NoRun).owner = NoRun
      /\ Attempted(shown, NoRun).contact = conn.contact
  BY <1>4 DEF Attempted, Connection
<1>6. flight.followUp \in SUBSET Calls /\ flight \in [run : Runs \cup {NoRun}, followUp : SUBSET Calls]
  BY DEF FlushInv, FlushTypeOK
<1>7. \A j \in flight.followUp : call'[j].at \notin {"none", "committed"}
  BY <1>1, <1>6 DEF FlushInv, ServedHaveAsked
<1>8. CASE ~mounted
  <2>1. conn' = shown /\ run' = run /\ flight' = flight
    BY <1>8 DEF RequestFlush
  <2>2. Shows
    BY <1>3, <1>4, <2>1 DEF Shows
  <2>3. \A p \in Runs : Turns(p)
    BY <2>1 DEF Turns
  <2> QED
    BY <1>2, <1>7, <2>1, <2>2, <2>3, DispatchKeeps
<1>9. CASE mounted /\ flight.run = NoRun
  <2>1. StartFlush(run, {i}, Demand(c.reason), shown)
    BY <1>9 DEF RequestFlush
  <2>2. run \in AllRuns
    BY DEF FlushInv, FlushTypeOK, AllRuns
  <2>3. \A j \in {i} : /\ call'[j].at \notin {"none", "committed"}
                       /\ Demand(call'[j].reason) = Always => Demand(c.reason) = Always
                       /\ Demand(call'[j].reason) = IfStale => Demand(c.reason) # Never
    BY <1>1 DEF IfStale, Never
  <2>4. Shows /\ flight'.followUp = {} /\ \A p \in Runs : run'[p] = run[p] \/ Turns(p)
    BY <1>4, <2>1, <2>2, <2>3, StartTurns
  <2>5. \A p \in Runs : Turns(p)
    BY <2>4 DEF Turns
  <2> QED
    BY <1>2, <2>4, <2>5, DispatchKeeps
<1>10. CASE mounted /\ flight.run # NoRun
  <2>1. /\ conn' \in {shown, Attempted(shown, NoRun)} /\ run' = run
        /\ flight'.followUp = flight.followUp \cup {i}
    BY <1>6, <1>10 DEF RequestFlush
  <2>2. Shows
    BY <1>3, <1>4, <1>5, <2>1 DEF Shows
  <2>3. \A p \in Runs : Turns(p)
    BY <2>1 DEF Turns
  <2> QED
    BY <1>1, <1>2, <1>7, <2>1, <2>2, <2>3, DispatchKeeps
<1> QED
  BY <1>8, <1>9, <1>10

\* What the callers ask for keeps the invariant.
LEMMA CallsKeep ==
  ASSUME FlushInv, FlushTypeOK', NEW i \in Calls
  PROVE  /\ \A reason \in Triggers : Trigger(i, reason) => FlushInv'
         /\ \A k \in Animes : Commit(i, k) => FlushInv'
         /\ Tell(i) => FlushInv'
<1>0. call[i] \in Call /\ conn \in Connection
  BY DEF FlushInv, FlushTypeOK
<1>1. Invalidated(conn) \in Connection
  BY <1>0 DEF Connection, Invalidated
<1>2. ASSUME NEW reason \in Triggers, Trigger(i, reason)
      PROVE  FlushInv'
  <2> DEFINE c == [call[i] EXCEPT !.reason = reason]
  <2>1. c \in Call /\ c.reason = reason /\ reason # Mutation
    BY <1>0, SyncFlushAssumption DEF Call, Mutation
  <2>2. UNCHANGED <<paired, known, row>> /\ call[i].at = "none" /\ row[i] = "none"
    BY <1>2 DEF Trigger, IsNextCall, FlushInv, CallsAndRows
  <2>3. CASE RequestFlush(i, c, conn)
    <3> HIDE DEF c
    <3> QED
      BY <1>0, <2>1, <2>2, <2>3, RequestKeeps
  <2>4. CASE ~RequestFlush(i, c, conn)
    <3>1. /\ call' = [call EXCEPT ![i] = [c EXCEPT !.at = "unserved"]]
          /\ conn' = Forgotten(conn)
          /\ UNCHANGED <<flight, run>>
      BY <1>2, <2>4 DEF Trigger
    <3> HIDE DEF c
    <3>2. /\ call'[i].at = "unserved" /\ call'[i].reason = reason
          /\ \A j \in Calls : j # i => call'[j] = call[j]
      BY <2>1, <3>1 DEF FlushInv, FlushTypeOK, Call
    <3>3. \A j \in Calls : Asks(j)
      BY <2>1, <2>2, <3>2 DEF Asks
    <3>4. \A j \in flight'.followUp : call'[j].at \notin {"none", "committed"}
      <4>1. flight.followUp \in SUBSET Calls
        BY DEF FlushInv, FlushTypeOK
      <4> QED
        BY <3>1, <3>2, <4>1 DEF FlushInv, ServedHaveAsked
    <3>5. Shows
      <4>1. /\ Forgotten(conn).kind = "idle" /\ Forgotten(conn).owner = NoRun
            /\ Forgotten(conn).contact = NoRun
        BY <1>0 DEF Connection, Forgotten, Invalidated
      <4> QED
        BY <3>1, <4>1 DEF Shows
    <3>6. \A p \in Runs : Turns(p)
      BY <3>1 DEF Turns
    <3> QED
      BY <2>2, <3>3, <3>4, <3>5, <3>6, DispatchKeeps
  <2> QED
    BY <2>3, <2>4
<1>3. ASSUME NEW k \in Animes, Commit(i, k)
      PROVE  FlushInv'
  <2>1. /\ call'[i].at = "committed" /\ \A j \in Calls : j # i => call'[j] = call[j]
        /\ row'[i] = "queued" /\ \A j \in Calls : j # i => row'[j] = row[j]
        /\ call[i].at = "none" /\ row[i] = "none"
        /\ UNCHANGED <<paired, known, flight, run, conn>>
    BY <1>3 DEF Commit, IsNextCall, FlushInv, FlushTypeOK, CallsAndRows
  <2>2. \A r \in Runs : i \notin run[r].serves /\ run[r].serves \in SUBSET Calls
    BY <2>1 DEF FlushInv, ServedHaveAsked, FlushTypeOK, Run
  <2>3. CallsAndRows'
    BY <2>1 DEF FlushInv, CallsAndRows
  <2>4. ServedHaveAsked'
    BY <2>1, <2>2 DEF FlushInv, ServedHaveAsked
  <2>5. DemandsMerged' /\ HealsDone' /\ ServedAreSeen' /\ OnlineIsOver' /\ OfThisPairing'
    BY <2>1, <2>2 DEF FlushInv, DemandsMerged, HealsDone, ServedAreSeen, OnlineIsOver,
                      OfThisPairing
  <2>6. Told' = Told
    BY <2>1 DEF Told
  <2>7. OwnerHasRead' /\ OnlineOverReadWork'
    BY <2>1, <2>6 DEF FlushInv, OwnerHasRead, OnlineOverReadWork, Told
  <2> QED
    BY <2>3, <2>4, <2>5, <2>7 DEF FlushInv
<1>4. ASSUME Tell(i)
      PROVE  FlushInv'
  <2>1. call[i].reason = Mutation => row[i] # "none"
    BY <1>4 DEF Tell, FlushInv, CallsAndRows
  <2> QED
    BY <1>0, <1>1, <1>4, <2>1, RequestKeeps DEF Tell
<1> QED
  BY <1>2, <1>3, <1>4

\* Settling a run keeps the invariant: its callers are answered, and a follow-up starts for
\* calls that have asked.
LEMMA SettleKeeps ==
  ASSUME FlushInv, FlushTypeOK', NEW r \in Runs, SettleRun(r)
  PROVE  FlushInv'
<1>1. flight.followUp \in SUBSET Calls /\ conn \in Connection /\ run[r].serves \in SUBSET Calls
  BY DEF FlushInv, FlushTypeOK, Run
<1>2. \A j \in Calls : /\ AnswerCallers(r)[j].reason = call[j].reason
                       /\ AnswerUnserved(r)[j].reason = call[j].reason
                       /\ j \in run[r].serves =>
                            /\ AnswerCallers(r)[j].at \in Answered
                            /\ AnswerUnserved(r)[j].at \in Answered
                       /\ j \notin run[r].serves => AnswerCallers(r)[j] = call[j]
                       /\ j \in flight.followUp => AnswerUnserved(r)[j].at \in Answered
                       /\ j \notin run[r].serves \cup flight.followUp =>
                            AnswerUnserved(r)[j] = call[j]
  BY DEF FlushInv, FlushTypeOK, Call, AnswerCallers, AnswerUnserved, Answered
<1>3. call' \in {AnswerCallers(r), AnswerUnserved(r)}
  BY DEF SettleRun, SettleAlone, SettleUnserved, SettleThenFollowUp
<1>4. \A j \in Calls : /\ call'[j].reason = call[j].reason
                       /\ call'[j] = call[j] \/ call'[j].at \in Answered
                       /\ call'[j] # call[j] => j \in run[r].serves \cup flight.followUp
  BY <1>2, <1>3
<1>5. \A j \in run[r].serves \cup flight.followUp : call[j].at \notin {"none", "committed"}
  BY <1>1 DEF FlushInv, ServedHaveAsked
<1>6. \A j \in Calls : Asks(j)
  BY <1>4, <1>5 DEF Asks, Answered, FlushInv, CallsAndRows
<1>7. UNCHANGED <<paired, known, row>>
  BY DEF SettleRun
<1>8. Told' = Told
  BY <1>4, <1>5, <1>7 DEF Told, Answered
<1>9. \A j \in flight.followUp : call'[j].at \notin {"none", "committed"}
  BY <1>1, <1>4, <1>5 DEF Answered
<1>10. /\ Over(r) \in AllRuns /\ \A p \in Runs : p # r => Over(r)[p] = run[p]
       /\ Over(r)[r].pc = "over" /\ Over(r)[r].pass = 1 /\ Over(r)[r].serves = {}
       /\ Over(r)[r].seen = run[r].seen /\ Over(r)[r].old = run[r].old
  BY DEF FlushInv, FlushTypeOK, AllRuns, Over, NotStarted, Run, Await, Never
<1>11. \A p \in Runs : run'[p] = Over(r)[p] => Turns(p)
  BY <1>10 DEF Turns
<1>12. CASE SettleAlone(r) \/ SettleUnserved(r)
  <2>1. run' = Over(r) /\ flight' = NoFlight /\ conn' \in {conn, Invalidated(conn)}
    BY <1>12 DEF SettleAlone, SettleUnserved
  <2>2. Invalidated(conn).kind = "idle" /\ Invalidated(conn).owner = NoRun
        /\ Invalidated(conn).contact = conn.contact
    BY <1>1 DEF Connection, Invalidated
  <2>3. Shows
    BY <1>8, <2>1, <2>2 DEF Shows
  <2>4. flight'.followUp = {}
    BY <2>1 DEF NoFlight
  <2> QED
    BY <1>6, <1>7, <1>11, <2>1, <2>3, <2>4, DispatchKeeps
<1>13. CASE SettleThenFollowUp(r)
  <2>1. StartFlush(Over(r), flight.followUp, StrongestDemand(flight.followUp), conn)
    BY <1>13 DEF SettleThenFollowUp
  <2>2. \A j \in flight.followUp :
          /\ call'[j].at \notin {"none", "committed"}
          /\ Demand(call'[j].reason) = Always => StrongestDemand(flight.followUp) = Always
          /\ Demand(call'[j].reason) = IfStale => StrongestDemand(flight.followUp) # Never
    BY <1>1, <1>4, <1>9 DEF StrongestDemand, Always, IfStale, Never
  <2>3. Shows /\ flight'.followUp = {} /\ \A p \in Runs : run'[p] = Over(r)[p] \/ Turns(p)
    BY <1>1, <1>10, <2>1, <2>2, StartTurns
  <2> QED
    BY <1>6, <1>7, <1>11, <2>3, DispatchKeeps
<1> QED
  BY <1>12, <1>13 DEF SettleRun


\* A step that leaves the calls, the runs and the connection alone, and takes no row away,
\* keeps the invariant.
LEMMA QuietKeeps ==
  ASSUME FlushInv, FlushTypeOK', UNCHANGED <<call, flight, run, conn>>, SameRows,
         known' /\ ~paired' <=> known /\ ~paired
  PROVE  FlushInv'
<1>1. Told' = Told
  BY DEF Told, SameRows
<1>2. CallsAndRows' /\ ServedHaveAsked' /\ DemandsMerged'
  BY DEF FlushInv, CallsAndRows, ServedHaveAsked, DemandsMerged, SameRows
<1>3. HealsDone' /\ ServedAreSeen' /\ OnlineIsOver' /\ OfThisPairing'
  BY DEF FlushInv, HealsDone, ServedAreSeen, OnlineIsOver, OfThisPairing
<1>4. OwnerHasRead' /\ OnlineOverReadWork'
  BY <1>1 DEF FlushInv, OwnerHasRead, OnlineOverReadWork, Told
<1> QED
  BY <1>2, <1>3, <1>4 DEF FlushInv

\* Unpairing empties the outbox and makes the runs' bridge an old one, which the facade has
\* yet to notice.
LEMMA UnpairKeeps ==
  ASSUME FlushInv, FlushTypeOK', Unpair
  PROVE  FlushInv'
<1>1. \A p \in Runs : /\ run'[p].pc = run[p].pc /\ run'[p].pass = run[p].pass
                      /\ run'[p].serves = run[p].serves /\ run'[p].demand = run[p].demand
                      /\ run'[p].failed = run[p].failed /\ run'[p].seen = run[p].seen
                      /\ run'[p].heal = run[p].heal
  <2> SUFFICES ASSUME NEW p \in Runs
               PROVE  /\ run'[p].pc = run[p].pc /\ run'[p].pass = run[p].pass
                      /\ run'[p].serves = run[p].serves /\ run'[p].demand = run[p].demand
                      /\ run'[p].failed = run[p].failed /\ run'[p].seen = run[p].seen
                      /\ run'[p].heal = run[p].heal
    OBVIOUS
  <2>1. PICK old \in BOOLEAN : old = (run[p].pc # "none")
    OBVIOUS
  <2>2. run'[p] = [run[p] EXCEPT !.old = old]
    BY <2>1 DEF Unpair
  <2>3. run[p] \in Run
    BY DEF FlushInv, FlushTypeOK
  <2> QED
    BY <2>2, <2>3 DEF Run
<1>2. UNCHANGED <<call, flight, conn>> /\ known' /\ ~paired'
  BY DEF Unpair
<1>3. \A i \in Calls : /\ row'[i] = "none" <=> row[i] = "none"
                       /\ row'[i] \in {"none", "gone"}
  BY DEF Unpair
<1>4. Told' = {}
  BY <1>3 DEF Told
<1>5. CallsAndRows' /\ ServedHaveAsked' /\ DemandsMerged' /\ OfThisPairing'
  BY <1>1, <1>2, <1>3 DEF FlushInv, CallsAndRows, ServedHaveAsked, DemandsMerged, OfThisPairing
<1>6. HealsDone' /\ ServedAreSeen'
  BY <1>1, <1>2 DEF FlushInv, HealsDone, HealDone, ServedAreSeen, ReadDone
<1>7. conn.owner \in Runs \cup {NoRun}
  BY DEF FlushInv, FlushTypeOK, Connection
<1>8. OwnerHasRead' /\ OnlineIsOver' /\ OnlineOverReadWork'
  BY <1>1, <1>2, <1>4, <1>7
  DEF FlushInv, OwnerHasRead, OnlineIsOver, OnlineOverReadWork, Told
<1> QED
  BY <1>5, <1>6, <1>8 DEF FlushInv

\* The facade notices: of a bridge that is gone it forgets everything it shows.
LEMMA NoticeKeeps ==
  ASSUME FlushInv, FlushTypeOK', Notice
  PROVE  FlushInv'
<1>1. conn \in Connection
  BY DEF FlushInv, FlushTypeOK
<1>2. /\ Forgotten(conn).kind = "idle" /\ Forgotten(conn).owner = NoRun
      /\ Forgotten(conn).contact = NoRun
  BY <1>1 DEF Connection, Forgotten, Invalidated
<1>3. CASE paired
  BY <1>3, QuietKeeps DEF Notice, SameRows
<1>4. CASE ~paired
  <2>1. UNCHANGED <<call, row, flight, run>> /\ conn' = Forgotten(conn) /\ Told' = Told
    BY <1>4 DEF Notice, Told
  <2>2. CallsAndRows' /\ ServedHaveAsked' /\ DemandsMerged' /\ HealsDone' /\ ServedAreSeen'
    BY <2>1 DEF FlushInv, CallsAndRows, ServedHaveAsked, DemandsMerged, HealsDone,
                ServedAreSeen
  <2>3. OwnerHasRead' /\ OnlineIsOver' /\ OnlineOverReadWork' /\ OfThisPairing'
    BY <1>2, <2>1 DEF OwnerHasRead, OnlineIsOver, OnlineOverReadWork, OfThisPairing
  <2> QED
    BY <2>2, <2>3 DEF FlushInv
<1> QED
  BY <1>3, <1>4

\* The screens, the user and the native engine keep the invariant.
LEMMA WorldKeeps ==
  ASSUME FlushInv, FlushTypeOK'
  PROVE  /\ Mount \/ Unmount \/ Unpair \/ Notice \/ Pair \/ HealAges => FlushInv'
         /\ \A i \in Calls : NativeTakes(i) \/ NativeEnds(i) \/ ExpireClaim(i) => FlushInv'
<1>1. Mount \/ Unmount \/ Pair \/ HealAges => FlushInv'
  <2> SUFFICES ASSUME Mount \/ Unmount \/ Pair \/ HealAges PROVE FlushInv'
    OBVIOUS
  <2>1. UNCHANGED <<call, row, flight, run, conn>>
    BY DEF Mount, Unmount, Pair, HealAges
  <2>2. known' /\ ~paired' <=> known /\ ~paired
    BY DEF Mount, Unmount, Pair, HealAges
  <2> QED
    BY <2>1, <2>2, QuietKeeps DEF SameRows
<1>2. ASSUME NEW i \in Calls, NativeTakes(i) \/ NativeEnds(i) \/ ExpireClaim(i)
      PROVE  FlushInv'
  <2>1. row[i] \in {"queued", "native", "claimed"}
    BY <1>2 DEF NativeTakes, NativeEnds, ExpireClaim, Batch, IsHead
  <2>2. \E s \in {"native", "queued", "settled"} : row' = [row EXCEPT ![i] = s]
    BY <1>2 DEF NativeTakes, NativeEnds, ExpireClaim
  <2>3. SameRows
    BY <2>1, <2>2 DEF SameRows, FlushInv, FlushTypeOK
  <2> QED
    BY <1>2, <2>3, QuietKeeps DEF NativeTakes, NativeEnds, ExpireClaim
<1> QED
  BY <1>1, <1>2, UnpairKeeps, NoticeKeeps

\* The invariant of a cycle's promises: every reachable state has it.
THEOREM FlushInvariant == FlushSpec => []FlushInv
<1>1. FlushInit /\ FlushTypeOK => FlushInv
  <2> SUFFICES ASSUME FlushInit, FlushTypeOK PROVE FlushInv
    OBVIOUS
  <2>1. \A r \in Runs : run[r] = NotStarted
    BY DEF FlushInit
  <2>2. \A i \in Calls : call[i].at = "none" /\ row[i] = "none"
    BY DEF FlushInit
  <2>3. conn.owner = NoRun /\ conn.kind = "idle" /\ conn.contact = NoRun
    BY DEF FlushInit
  <2>4. flight.followUp = {}
    BY DEF FlushInit, NoFlight
  <2>5. CallsAndRows /\ ServedHaveAsked /\ DemandsMerged
    BY <2>1, <2>2, <2>4 DEF CallsAndRows, ServedHaveAsked, DemandsMerged, NotStarted
  <2>6. HealsDone /\ ServedAreSeen
    BY <2>1 DEF HealsDone, HealDone, ServedAreSeen, NotStarted
  <2>7. OwnerHasRead /\ OnlineIsOver /\ OnlineOverReadWork /\ OfThisPairing
    BY <2>3 DEF OwnerHasRead, OnlineIsOver, OnlineOverReadWork, OfThisPairing
  <2> QED
    BY <2>5, <2>6, <2>7 DEF FlushInv
<1>2. FlushInv /\ FlushTypeOK' /\ [FlushNext]_flushVars => FlushInv'
  <2> SUFFICES ASSUME FlushInv, FlushTypeOK', [FlushNext]_flushVars PROVE FlushInv'
    OBVIOUS
  <2>1. ASSUME NEW r \in Runs, Step(r)
        PROVE  FlushInv'
    <3>1. Moves(r)
      BY <2>1, StepMoves DEF FlushInv
    <3> QED
      BY <3>1, MovesKeep
  <2>2. CASE UNCHANGED flushVars
    BY <2>2, QuietKeeps DEF flushVars, SameRows
  <2> QED
    BY <2>1, <2>2, CallsKeep, SettleKeeps, WorldKeeps DEF FlushNext
<1> QED
  BY <1>1, <1>2, FlushTypeCorrect, PTL DEF FlushSpec

\* A caller told that its mutation's flush succeeded was served by a cycle that read the
\* outbox after the mutation was committed: a request that comes while a cycle runs waits
\* for the follow-up, whose claim finds its row.
THEOREM CallersGetTheirRead == FlushSpec => []AnsweredAfterRead
<1>1. FlushInv => AnsweredAfterRead
  BY DEF FlushInv, ServedAreSeen, ReadDone, AnsweredAfterRead
<1> QED
  BY <1>1, FlushInvariant, PTL

\* The heal demanded by any request a run absorbed was tried before its promise settles,
\* also when the sends failed (R-7).
THEOREM HealsAreServed == FlushSpec => []HealServed
<1>1. FlushInv => HealServed
  <2> SUFFICES ASSUME FlushInv, NEW r \in Runs, run[r].pc = "ended", NEW i \in run[r].serves
               PROVE  /\ Demand(call[i].reason) = Always => run[r].heal = "tried"
                      /\ Demand(call[i].reason) = IfStale => run[r].heal # "none"
    BY DEF HealServed
  <2>1. /\ run[r].demand = Always => run[r].heal = "tried"
        /\ run[r].demand = IfStale => run[r].heal # "none"
    BY DEF FlushInv, HealsDone, HealDone
  <2>2. run[r].demand \in {Never, IfStale, Always}
    BY DEF FlushInv, FlushTypeOK, Run
  <2> QED
    BY <2>1, <2>2 DEF FlushInv, DemandsMerged
<1> QED
  BY <1>1, FlushInvariant, PTL

\* `online` is never shown over a mutation the publishing cycle's claim could not see, for
\* any number of mutations told of before, during and after the cycle (R-9).
THEOREM OnlineIsHonest == FlushSpec => []OnlineOverReadWork
<1>1. FlushInv => OnlineOverReadWork
  BY DEF FlushInv
<1> QED
  BY <1>1, FlushInvariant, PTL

\* Once the facade knows of an unpairing, the evidence it shows is of the bridge paired now,
\* however long a cycle of the earlier pairing goes on (R-9).
THEOREM EvidenceIsOfThisBridge == FlushSpec => []ContactOfThisPairing
<1>1. FlushInv => ContactOfThisPairing
  BY DEF FlushInv, OfThisPairing, ContactOfThisPairing
<1> QED
  BY <1>1, FlushInvariant, PTL

=============================================================================
