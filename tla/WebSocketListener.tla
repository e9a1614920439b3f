------------------------- MODULE WebSocketListener -------------------------
(* The socket on which the bridge announces changes: one session per run   *)
(* of the effect, its connections, the backoff between them and the flush  *)
(* a reconnect asks for.  A socket outlives the session that opened it     *)
(* until its close event, and every session shares one reference to it.    *)
(* The backoff's length and the content of a message are left out.         *)
EXTENDS Naturals, FiniteSets

CONSTANTS
  MaxSession,   \* bound: runs of the effect
  MaxSocket     \* bound: sockets opened

ASSUME ListenerAssumption == MaxSession \in Nat \ {0} /\ MaxSocket \in Nat \ {0}

VARIABLES
  session,      \* the current run of the effect, 0 before the first
  enabled,      \* isWebSocketEnabled: paired, bootstrapped and in the foreground
  connecting,   \* the sessions whose connect awaits the config
  sockets,      \* of every socket its session, its state and whether it opened
  wsRef,        \* the socket the reference holds, 0 for none
  backoff,      \* the session of the pending reconnect timer, 0 for none
  opened,       \* hasOpenedInSession
  failed,       \* hadFailedAttemptInSession
  bridgeUp,     \* the bridge answers
  unheard       \* history: a change was announced that no flush of this session follows

listenerVars ==
  <<session, enabled, connecting, sockets, wsRef, backoff, opened, failed, bridgeUp, unheard>>

Sessions == 1 .. MaxSession
Unused == [session |-> 0, state |-> "unused", didOpen |-> FALSE]
SocketIds == 1 .. MaxSocket

ListenerTypeOK ==
  /\ session \in 0 .. MaxSession /\ enabled \in BOOLEAN
  /\ connecting \subseteq Sessions /\ wsRef \in 0 .. MaxSocket
  /\ sockets \in [SocketIds -> [session : 0 .. MaxSession, didOpen : BOOLEAN,
                                state : {"unused", "connecting", "open", "closing", "closed"}]]
  /\ backoff \in 0 .. MaxSession /\ (backoff # 0 => backoff = session /\ enabled)
  /\ opened \in BOOLEAN /\ failed \in BOOLEAN /\ bridgeUp \in BOOLEAN /\ unheard \in BOOLEAN

ListenerInit ==
  /\ session = 0 /\ enabled = FALSE /\ connecting = {} /\ wsRef = 0 /\ backoff = 0
  /\ sockets = [s \in SocketIds |-> Unused]
  /\ opened = FALSE /\ failed = FALSE /\ bridgeUp = TRUE /\ unheard = FALSE

\* isMounted && enabled of the closures of a session.
Mounted(n) == enabled /\ session = n

Spare == {s \in SocketIds : sockets[s].state = "unused"}

----------------------------------------------------------------------------
(* The effect and its cleanup.                                             *)

\* The effect runs: a new session, and its first attempt; the mount or resume flush runs too.
SessionStarts ==
  /\ ~enabled /\ session < MaxSession
  /\ enabled' = TRUE /\ session' = session + 1 /\ connecting' = connecting \cup {session + 1}
  /\ opened' = FALSE /\ failed' = FALSE /\ unheard' = FALSE
  /\ UNCHANGED <<sockets, wsRef, backoff, bridgeUp>>

\* disconnect: the timer is cleared and the socket of the reference closed.
SessionEnds ==
  /\ enabled /\ enabled' = FALSE /\ backoff' = 0 /\ wsRef' = 0
  /\ sockets' = [s \in SocketIds |->
       IF s = wsRef /\ sockets[s].state # "closed" THEN [sockets[s] EXCEPT !.state = "closing"]
       ELSE sockets[s]]
  /\ UNCHANGED <<session, connecting, opened, failed, bridgeUp, unheard>>

----------------------------------------------------------------------------
(* connect and its reconnects.                                             *)

\* Mutant: only a close counts as a failed attempt, a connect that throws is left.
ConnectThrowsUnscheduled(n) ==
  /\ n \in connecting /\ connecting' = connecting \ {n}
  /\ UNCHANGED <<session, enabled, sockets, wsRef, backoff, opened, failed, bridgeUp, unheard>>

\* Mutant: a connect that outlives its session schedules a reconnect of it.
ScheduleReconnectOfEnded(n) == backoff' = n /\ failed' = TRUE

\* scheduleReconnect of a session that is still mounted.
ScheduleReconnect(n) ==
  IF Mounted(n) THEN backoff' = n /\ failed' = TRUE ELSE UNCHANGED <<backoff, failed>>

\* Reading the config or opening the socket throws.
ConnectThrows(n) ==
  /\ n \in connecting /\ connecting' = connecting \ {n}
  /\ ScheduleReconnect(n)
  /\ UNCHANGED <<session, enabled, sockets, wsRef, opened, bridgeUp, unheard>>

\* The config was read: a session that is over opens nothing.
ConnectOpens(n) ==
  /\ n \in connecting /\ connecting' = connecting \ {n}
  /\ IF Mounted(n)
     THEN \E s \in Spare :
            /\ \A t \in Spare : s <= t
            /\ sockets' = [sockets EXCEPT ![s] =
                 [session |-> n, state |-> "connecting", didOpen |-> FALSE]]
            /\ wsRef' = s
     ELSE UNCHANGED <<sockets, wsRef>>
  /\ UNCHANGED <<session, enabled, backoff, opened, failed, bridgeUp, unheard>>

\* The reconnect timer: connect returns at once while a socket connects or is open.
TimerFires ==
  /\ backoff # 0 /\ backoff' = 0
  /\ connecting' = IF wsRef # 0 /\ sockets[wsRef].state \in {"connecting", "open"}
                   THEN connecting ELSE connecting \cup {backoff}
  /\ UNCHANGED <<session, enabled, sockets, wsRef, opened, failed, bridgeUp, unheard>>

\* onopen: a reconnect asks for the flush that catches up.
SocketOpens(s) ==
  /\ sockets[s].state = "connecting" /\ bridgeUp
  /\ sockets' = [sockets EXCEPT ![s].state = "open", ![s].didOpen = TRUE]
  /\ IF sockets[s].session = session
     THEN opened' = TRUE /\ unheard' = (unheard /\ ~opened /\ ~failed)
     ELSE UNCHANGED <<opened, unheard>>
  /\ UNCHANGED <<session, enabled, connecting, wsRef, backoff, failed, bridgeUp>>

\* onclose, of whatever session the socket is: the shared reference is emptied.
SocketCloses(s) ==
  /\ \/ sockets[s].state = "closing"
     \/ sockets[s].state \in {"connecting", "open"} /\ ~bridgeUp
  /\ sockets' = [sockets EXCEPT ![s].state = "closed"]
  /\ wsRef' = 0
  /\ ScheduleReconnect(sockets[s].session)
  /\ UNCHANGED <<session, enabled, connecting, opened, bridgeUp, unheard>>

----------------------------------------------------------------------------
(* The bridge.                                                             *)

BridgeGoesOrReturns ==
  /\ bridgeUp' = ~bridgeUp
  /\ UNCHANGED <<session, enabled, connecting, sockets, wsRef, backoff, opened, failed, unheard>>

\* A change is announced: every open socket asks for a flush, also one of a session that is over.
Announce ==
  /\ bridgeUp /\ unheard' = (unheard \/ \A s \in SocketIds : sockets[s].state # "open")
  /\ UNCHANGED <<session, enabled, connecting, sockets, wsRef, backoff, opened, failed, bridgeUp>>

ListenerNext ==
  \/ SessionStarts \/ SessionEnds \/ TimerFires \/ BridgeGoesOrReturns \/ Announce
  \/ \E n \in Sessions : ConnectThrows(n) \/ ConnectOpens(n)
  \/ \E s \in SocketIds : SocketOpens(s) \/ SocketCloses(s)

ListenerSpec == ListenerInit /\ [][ListenerNext]_listenerVars

----------------------------------------------------------------------------
(* Properties.                                                             *)

Listening == \E s \in SocketIds : sockets[s].session = session /\ sockets[s].state = "open"
Exhausted == Spare = {}

\* While the session lasts and the bridge stays up, the app listens again, whatever failed
\* before and whichever old socket closes late, and has asked for what it missed since
\* the session's first failure (use-websocket.ts, scheduleReconnect and onopen).
ListensAgain ==
  \A n \in Sessions :
    (Mounted(n) /\ bridgeUp) ~>
      (~Mounted(n) \/ ~bridgeUp \/ Exhausted \/ (Listening /\ (unheard => ~failed)))

============================================================================
