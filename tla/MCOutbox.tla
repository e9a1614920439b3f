------------------------------ MODULE MCOutbox ------------------------------
(* The instances of Outbox that TLC checks.                                 *)
EXTENDS OutboxImplements

CONSTANTS a, b  \* two animes

(* A user who rated two animes and then edited one of them twice, all of it *)
(* before the first cycle: the rows a season rating leaves behind edits.    *)
RatedThenEdited ==
  [i \in RowIds |-> [AbsentRow EXCEPT
     !.status = "pending",
     !.key    = IF i = 2 THEN b ELSE a,
     !.kind   = IF i <= 2 THEN "season_rating" ELSE "update"]]

InitQueued ==
  /\ log = RatedThenEdited
  /\ token = [k \in Keys |-> 0]
  /\ cursor = 0
  /\ clock = 0
  /\ cyc = [r \in Runtimes |-> NoCycle]
  /\ bridge = [feed |-> 0, at |-> [k \in Keys |-> 0],
               last |-> [k \in Keys |-> 0], history |-> {}, shown |-> {}]
  /\ stray = {}

SpecQueued == InitQueued /\ [][Next]_vars

=============================================================================
