------------------------- MODULE BackgroundTriggers -------------------------
(* What wakes the background sync: the execution facade that registers and *)
(* releases the two native triggers as the bridge is paired and unpaired,  *)
(* the ticker (a persisted flag, an alarm, its PendingIntent token and the *)
(* receiver that keeps the chain alive) and the WorkManager floor with the *)
(* request of the retired Expo task next to it.                            *)
EXTENDS Naturals, Sequences, FiniteSets

CONSTANTS
  MaxGeneration,   \* bound: registrations in one run of the app
  MaxOutage        \* bound: deaths of the app, reboots, lost broadcasts, failed enqueues

ASSUME TriggersAssumption == MaxGeneration \in Nat \ {0} /\ MaxOutage \in Nat

VARIABLES
  paired,        \* the bridge is configured
  app,           \* the React runtime is up
  strategies,    \* concurrentStrategies is not empty
  generation,    \* registrationGeneration of this run of the app
  asking,        \* the registrations whose notification permission prompt is open
  floorOps,      \* the queue of the native module's AsyncFunctions
  ticking,       \* the persisted isTicking
  alarm,         \* a tick alarm is pending in the AlarmManager
  token,         \* its PendingIntent exists: ownsBackground
  missed,        \* an alarm of this chain was lost and its token, or no floor, is left
  receiver,      \* TickAlarmReceiver.onReceive
  serviceUp,     \* the foreground service runs
  floorWork,     \* the native periodic request is scheduled
  legacyWork,    \* the request of the retired Expo task is scheduled
  unconfirmed,   \* the last enqueue of the floor was not confirmed
  outages        \* counts towards MaxOutage

triggersVars == <<paired, app, strategies, generation, asking, floorOps, ticking, alarm, token,
                  missed, receiver, serviceUp, floorWork, legacyWork, unconfirmed, outages>>

facadeVars == <<strategies, generation, asking, floorOps>>
tickerVars == <<ticking, alarm, token, missed, receiver, serviceUp>>
floorVars == <<floorWork, legacyWork, unconfirmed>>

TriggersTypeOK ==
  /\ paired \in BOOLEAN /\ app \in BOOLEAN /\ strategies \in BOOLEAN
  /\ generation \in 0 .. 2 * MaxGeneration /\ asking \subseteq 1 .. 2 * MaxGeneration
  /\ floorOps \in Seq({"register", "unregister"})
  /\ ticking \in BOOLEAN /\ alarm \in BOOLEAN /\ token \in BOOLEAN /\ missed \in BOOLEAN
  /\ receiver \in {"idle", "delivered", "reArming"}
  /\ serviceUp \in BOOLEAN /\ floorWork \in BOOLEAN /\ legacyWork \in BOOLEAN
  /\ unconfirmed \in BOOLEAN /\ outages \in 0 .. MaxOutage

\* An install, or an update of one whose Expo task is still scheduled.
TriggersInit ==
  /\ paired \in BOOLEAN /\ app = FALSE
  /\ strategies = FALSE /\ generation = 0 /\ asking = {} /\ floorOps = <<>>
  /\ ticking = FALSE /\ alarm = FALSE /\ token = FALSE /\ missed = FALSE /\ receiver = "idle"
  /\ serviceUp = FALSE /\ floorWork = FALSE /\ legacyWork \in BOOLEAN
  /\ unconfirmed = FALSE /\ outages = 0

----------------------------------------------------------------------------
(* The ticker's two entry points, which JS calls synchronously.            *)

\* startTicking: a stop, the flag, the alarm, and the service unless the platform refuses it.
StartTicking ==
  /\ ticking' = TRUE /\ alarm' = TRUE /\ token' = TRUE /\ missed' = FALSE
  /\ serviceUp' \in BOOLEAN

\* stopSyncTicking: the flag, the service, then the alarm and its token.
StopTicking ==
  /\ ticking' = FALSE /\ alarm' = FALSE /\ token' = FALSE /\ missed' = FALSE
  /\ serviceUp' = FALSE

Outage == outages < MaxOutage /\ outages' = outages + 1

----------------------------------------------------------------------------
(* The facade, driven by the runtime hook's effect.                        *)

Pair ==
  /\ ~paired /\ paired' = TRUE
  /\ UNCHANGED <<app, facadeVars, tickerVars, floorVars, outages>>

Unpair ==
  /\ paired /\ paired' = FALSE
  /\ UNCHANGED <<app, facadeVars, tickerVars, floorVars, outages>>

\* registerConcurrentStrategies: the prompt opens, the floor's enqueue is queued.
RegisterStrategies ==
  /\ app /\ paired /\ ~strategies /\ generation + 2 <= 2 * MaxGeneration
  /\ strategies' = TRUE /\ generation' = generation + 1
  /\ asking' = asking \cup {generation + 1}
  /\ floorOps' = Append(floorOps, "register")
  /\ UNCHANGED <<paired, app, tickerVars, floorVars, outages>>

\* unregisterCurrentStrategy; with nothing registered in this run it does nothing.
UnregisterStrategies ==
  /\ app /\ ~paired /\ strategies
  /\ strategies' = FALSE /\ generation' = generation + 1
  /\ StopTicking
  /\ floorOps' = Append(floorOps, "unregister")
  /\ UNCHANGED <<paired, app, asking, receiver, floorVars, outages>>

\* Nobody owns the list any more: the registration of generation g completed too late.
CompletedLate(g) == g # generation /\ ~strategies

\* Mutant: a late completion is not taken back.
PermissionAnsweredKept(g) ==
  /\ asking' = asking \ {g}
  /\ StartTicking
  /\ UNCHANGED <<paired, app, strategies, generation, floorOps, receiver, floorVars, outages>>

\* The prompt of generation g is answered, whichever way; the ticker starts, and the finally
\* block stops it again when the disable came in between.
PermissionAnswered(g) ==
  /\ asking' = asking \ {g}
  /\ IF CompletedLate(g) THEN StopTicking ELSE StartTicking
  /\ UNCHANGED <<paired, app, strategies, generation, floorOps, receiver, floorVars, outages>>

----------------------------------------------------------------------------
(* The floor: one thread runs the module's operations in their order.      *)

\* register: the retired request goes only once the new one is confirmed.
FloorRegisters ==
  /\ floorOps # <<>> /\ Head(floorOps) = "register" /\ floorOps' = Tail(floorOps)
  /\ \/ /\ floorWork' = TRUE /\ legacyWork' = FALSE /\ unconfirmed' = FALSE
        /\ UNCHANGED outages
     \/ /\ Outage /\ unconfirmed' = TRUE
        /\ UNCHANGED <<floorWork, legacyWork>>
  /\ UNCHANGED <<paired, app, strategies, generation, asking, tickerVars>>

\* A tick of the floor that does not find the ticker's token runs an attempt.
FloorServes == floorWork /\ ~token

\* unregister: both requests are cancelled.
FloorUnregisters ==
  /\ floorOps # <<>> /\ Head(floorOps) = "unregister" /\ floorOps' = Tail(floorOps)
  /\ floorWork' = FALSE /\ legacyWork' = FALSE /\ unconfirmed' = FALSE
  /\ UNCHANGED <<paired, app, strategies, generation, asking, tickerVars, outages>>

----------------------------------------------------------------------------
(* The alarm and its receiver, on the main thread next to the JS thread.   *)

AlarmFires ==
  /\ alarm /\ receiver = "idle"
  /\ alarm' = FALSE /\ receiver' = "delivered"
  /\ UNCHANGED <<paired, app, facadeVars, ticking, token, missed, serviceUp, floorVars, outages>>

\* The broadcast is never delivered.
BroadcastLost ==
  /\ alarm /\ Outage
  /\ alarm' = FALSE /\ missed' = TRUE
  /\ UNCHANGED <<paired, app, facadeVars, ticking, token, receiver, serviceUp, floorVars>>

\* onReceive reads the flag ...
ReceiverReads ==
  /\ receiver = "delivered"
  /\ receiver' = IF ticking THEN "reArming" ELSE "idle"
  /\ UNCHANGED <<paired, app, facadeVars, ticking, alarm, token, missed, serviceUp, floorVars,
                 outages>>

\* Mutant: the service first, the alarm only when its start was not refused.
ReceiverReArmsLast ==
  /\ receiver = "reArming" /\ receiver' = "idle"
  /\ \/ serviceUp' = TRUE /\ alarm' = TRUE /\ token' = TRUE /\ missed' = FALSE
     \/ UNCHANGED <<serviceUp, alarm, token, missed>>
  /\ UNCHANGED <<paired, app, facadeVars, ticking, floorVars, outages>>

\* ... then re-arms, then starts the service, which the platform may refuse.
ReceiverReArms ==
  /\ receiver = "reArming" /\ receiver' = "idle"
  /\ alarm' = TRUE /\ token' = TRUE /\ missed' = FALSE
  /\ serviceUp' \in {serviceUp, TRUE}
  /\ UNCHANGED <<paired, app, facadeVars, ticking, floorVars, outages>>

----------------------------------------------------------------------------
(* The process and the device.                                             *)

\* The module's OnCreate re-arms from the persisted flag, the alarm only.
AppOpens ==
  /\ ~app /\ app' = TRUE
  /\ alarm' = (alarm \/ ticking) /\ token' = (token \/ ticking) /\ missed' = FALSE
  /\ UNCHANGED <<paired, facadeVars, ticking, receiver, serviceUp, floorVars, outages>>

RuntimeGone == strategies' = FALSE /\ generation' = 0 /\ asking' = {} /\ floorOps' = <<>>

\* The React context is torn down in order: OnDestroy stops the ticker.
AppDestroyed ==
  /\ app /\ app' = FALSE /\ Outage
  /\ RuntimeGone /\ StopTicking
  /\ UNCHANGED <<paired, receiver, floorVars>>

\* The app's process is killed: alarm, token, service and work requests are not in it.  A
\* broadcast it was handling is lost.
AppKilled ==
  /\ app /\ app' = FALSE /\ Outage
  /\ RuntimeGone
  /\ receiver' = "idle" /\ missed' = (missed \/ receiver # "idle")
  /\ UNCHANGED <<paired, ticking, alarm, token, serviceUp, floorVars>>

\* A reboot also clears the alarm and its token; the flag and WorkManager's database stay.
Reboot ==
  /\ Outage /\ app' = FALSE
  /\ RuntimeGone
  /\ alarm' = FALSE /\ token' = FALSE /\ serviceUp' = FALSE /\ receiver' = "idle"
  /\ missed' = (ticking /\ ~floorWork)
  /\ UNCHANGED <<paired, ticking, floorVars>>

ServiceKilled ==
  /\ serviceUp /\ serviceUp' = FALSE
  /\ UNCHANGED <<paired, app, facadeVars, ticking, alarm, token, missed, receiver, floorVars,
                 outages>>

TriggersNext ==
  \/ Pair \/ Unpair \/ RegisterStrategies \/ UnregisterStrategies
  \/ \E g \in asking : PermissionAnswered(g)
  \/ FloorRegisters \/ FloorUnregisters
  \/ AlarmFires \/ BroadcastLost \/ ReceiverReads \/ ReceiverReArms
  \/ AppOpens \/ AppDestroyed \/ AppKilled \/ Reboot \/ ServiceKilled

TriggersSpec == TriggersInit /\ [][TriggersNext]_triggersVars

----------------------------------------------------------------------------
(* Properties.                                                             *)

\* In a run of the app that registered the triggers once, as soon as no prompt and no
\* operation of the floor is open: they are on exactly while the bridge is paired,
\* however late a prompt of an earlier generation is answered
\* (sync-execution-facade.helpers.ts); the floor may be missing only when its enqueue was
\* not confirmed.
TriggersMatchPairing ==
  (app /\ generation > 0 /\ asking = {} /\ floorOps = <<>> /\ strategies = paired) =>
    /\ ticking = paired
    /\ paired => token /\ (floorWork \/ unconfirmed)
    /\ ~paired => ~floorWork /\ ~legacyWork

\* While the persisted flag is on, something will start the next attempt: an alarm is
\* pending, its receiver is still to re-arm it, or the floor runs without being told to
\* skip; unless a broadcast was lost since the app was opened, or the phone rebooted before
\* the floor was confirmed (TickAlarmReceiver re-arms first; the floor's gate is the token).
SomebodyTriggers == ticking => alarm \/ receiver # "idle" \/ missed \/ FloorServes

============================================================================
