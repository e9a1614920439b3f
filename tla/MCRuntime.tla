----------------------------- MODULE MCRuntime -----------------------------
(* What runs, side by side: the native attempts, the triggers that start    *)
(* them, the preparation of the database, the start of the app, its socket  *)
(* and the pairing screen.  The models share no state, so every behaviour   *)
(* is one of a single component, which its first state chooses; where the   *)
(* others start does not matter and is fixed.                               *)
EXTENDS NativeAttempt, BackgroundTriggers, StartupRecovery,
        WebSocketListener, SchemaRepair, DeviceSetup

VARIABLE runs    \* the component whose behaviour this is

runtimeVars == <<runs, attemptVars, triggersVars, startupVars, listenerVars, repairVars, deviceVars>>

RuntimeInit ==
  /\ runs \in {"attempt", "triggers", "startup", "listener", "repair", "setup"}
  /\ AttemptInit /\ (runs # "attempt" => schemaReady)
  /\ TriggersInit /\ (runs # "triggers" => paired /\ ~legacyWork)
  /\ StartupInit /\ (runs # "startup" => file = NoFile)
  /\ ListenerInit
  /\ RepairInit /\ (runs # "repair" => schema = {} /\ ledger = "absent")
  /\ DeviceInit /\ (runs # "setup" => configured /\ url = "none")

RuntimeNext ==
  /\ UNCHANGED runs
  /\ \/ /\ runs = "attempt" /\ AttemptNext
        /\ UNCHANGED <<triggersVars, startupVars, listenerVars, repairVars, deviceVars>>
     \/ /\ runs = "triggers" /\ TriggersNext
        /\ UNCHANGED <<attemptVars, startupVars, listenerVars, repairVars, deviceVars>>
     \/ /\ runs = "startup" /\ StartupNext
        /\ UNCHANGED <<attemptVars, triggersVars, listenerVars, repairVars, deviceVars>>
     \/ /\ runs = "listener" /\ ListenerNext
        /\ UNCHANGED <<attemptVars, triggersVars, startupVars, repairVars, deviceVars>>
     \/ /\ runs = "repair" /\ RepairNext
        /\ UNCHANGED <<attemptVars, triggersVars, startupVars, listenerVars, deviceVars>>
     \/ /\ runs = "setup" /\ DeviceNext
        /\ UNCHANGED <<attemptVars, triggersVars, startupVars, listenerVars, repairVars>>

\* The fairness of every component, while it is the one that runs.  Time passes, the
\* watchdog's thread runs and a thread that began to report goes on; of the work thread
\* nothing is assumed.  The timers of the boundary fire and its effects run; opening,
\* preparing and the ports of the reset may hang.  The reconnect timer fires, the network
\* answers one way or the other, and reading the config does not throw for ever.
RuntimeSpec ==
  /\ RuntimeInit /\ [][RuntimeNext]_runtimeVars
  /\ WF_attemptVars(runs = "attempt" /\ AttemptTick)
  /\ \A i \in AttemptIds : /\ WF_attemptVars(runs = "attempt" /\ WatchdogFires(i))
                           /\ WF_attemptVars(runs = "attempt" /\ ReplyStep(i))
  /\ WF_startupVars(runs = "startup" /\ FontsSettle("failed"))
  /\ WF_startupVars(runs = "startup" /\ ProviderMissesDeadline)
  /\ WF_startupVars(runs = "startup" /\ ReleaseOverFailure)
  /\ WF_startupVars(runs = "startup" /\ Navigate)
  /\ WF_listenerVars(runs = "listener" /\ TimerFires)
  /\ SF_listenerVars(runs = "listener" /\ ConnectOpens(session))
  /\ \A s \in SocketIds : /\ WF_listenerVars(runs = "listener" /\ SocketOpens(s))
                           /\ WF_listenerVars(runs = "listener" /\ SocketCloses(s))

\* The state of every component is of its type; a reconnect is only pending for the session
\* that is mounted (scheduleReconnect), and a reset has a stage exactly while it runs.
RuntimeTypeOK ==
  /\ AttemptTypeOK /\ TriggersTypeOK /\ StartupTypeOK /\ ListenerTypeOK
  /\ RepairTypeOK /\ DeviceTypeOK

============================================================================
