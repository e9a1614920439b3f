------------------------------- MODULE MCSync -------------------------------
(* A cycle on the rows of the outbox, and the dispatcher that runs cycles,   *)
(* side by side: what must finally happen to both under fairness.  The two   *)
(* models share no state, so every behaviour is one of a single component,   *)
(* which its first state chooses; where the other starts does not matter and *)
(* is fixed.                                                                 *)
EXTENDS Outbox, SyncFlush

CONSTANT a       \* an anime

VARIABLE syncs   \* the component whose behaviour this is

syncVars == <<syncs, vars, flushVars>>

SyncInit ==
  /\ syncs \in {"outbox", "flush"}
  /\ Init /\ FlushInit

SyncNext ==
  /\ UNCHANGED syncs
  /\ \/ /\ syncs = "outbox" /\ Next
        /\ UNCHANGED flushVars
     \/ /\ syncs = "flush" /\ FlushNext
        /\ UNCHANGED vars

(* The fairness of both components, while it is the one that runs.  Time     *)
(* passes, and a runtime that can take a step takes one: it is triggered     *)
(* again (R-8), every request and statement of a cycle ends in an answer, an *)
(* error or a timeout, and the JS thread runs its continuations.  Nothing is *)
(* assumed of the bridge, the user or the faults.                            *)
SyncSpec ==
  /\ SyncInit /\ [][SyncNext]_syncVars
  /\ WF_vars(syncs = "outbox" /\ Tick)
  /\ \A r \in Runtimes : WF_vars(syncs = "outbox" /\ Advance(r))
  /\ \A r \in Runs : /\ WF_flushVars(syncs = "flush" /\ Step(r))
                     /\ WF_flushVars(syncs = "flush" /\ SettleRun(r))
  /\ \A i \in Calls : WF_flushVars(syncs = "flush" /\ Tell(i))

=============================================================================
