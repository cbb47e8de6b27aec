---------------------------- MODULE WsConnection ----------------------------
(***************************************************************************)
(* WsConnection: one logical WebSocket connection over a succession of     *)
(* sockets.  It opens a primary socket, replaces a lost one after a delay, *)
(* and renews a healthy one by opening a replacement next to it.           *)
(*                                                                         *)
(* A socket is known by its token, the position in the sequence of all     *)
(* sockets created.  Each handler of a socket event and each timer         *)
(* callback runs to its end, so each is one action; the state CLOSING      *)
(* exists only inside close() and is left out.                             *)
(*                                                                         *)
(* The rotation timer and the liveness interval are started by overwriting *)
(* the handle of the one before, so more of them run than the connection   *)
(* can clear: each kind is the number that runs, and whether the handle    *)
(* refers to one of them.                                                  *)
(***************************************************************************)
EXTENDS Integers, Sequences

CONSTANTS
  RotationMs,    \* rotationMs, 0 for no rotation timer
  StaleMs,       \* staleMs, 0 for no liveness interval
  MaxCalls,      \* bound: calls of connect, close and reconnect
  MaxStale,      \* bound: expiries of the liveness interval
  MaxRotations,  \* bound: rotations, by the timer or by rotateNow
  MaxDrops,      \* bound: sockets lost by the server or the network
  MaxRaces,      \* bound: active sockets lost while a rotation is under way
  MaxNoUrl       \* bound: attempts at a time when buildUrl() returns null

ASSUME BoundsAssumption ==
  /\ RotationMs \in Nat
  /\ StaleMs \in Nat
  /\ MaxCalls \in Nat
  /\ MaxStale \in Nat
  /\ MaxRotations \in Nat
  /\ MaxDrops \in Nat
  /\ MaxRaces \in Nat
  /\ MaxNoUrl \in Nat

VARIABLES
  state,          \* WsConnectionState
  sockets,        \* every socket created so far
  active,         \* activeSocket and activeToken, or NoSocket
  pendingSocket,  \* the replacement a rotation has opened, or NoSocket
  pendingToken,   \* its token as long as its events count, or NoSocket
  reconnectTimer, \* a reconnect is scheduled
  rotationTimer,  \* the rotation timers that run, and the handle
  livenessTimer,  \* the liveness intervals that run, and the handle
  faults          \* calls and faults so far, per kind

connection == <<active, pendingSocket, pendingToken>>
timers == <<rotationTimer, livenessTimer>>
vars == <<state, sockets, connection, reconnectTimer, timers, faults>>

NoSocket == 0

States == {"IDLE", "CONNECTING", "OPEN", "RECONNECTING", "CLOSED"}

\* A retired socket has lost its listeners and is being closed.
Phases == {"connecting", "open", "closed", "retired"}
Sockets == [phase : Phases, purpose : {"primary", "rotation"}]
FaultKinds == {"call", "stale", "rotation", "drop", "race", "nourl"}

\* A handle that is not null refers to a timer that runs.
Timers == {timer \in [running : Nat, held : BOOLEAN] : timer.held => timer.running > 0}

SocketsOK ==
  /\ state \in States
  /\ sockets \in Seq(Sockets)
  /\ active \in {NoSocket} \union DOMAIN sockets
  /\ pendingSocket \in {NoSocket} \union DOMAIN sockets
  /\ pendingToken \in {NoSocket, pendingSocket}
  /\ reconnectTimer \in BOOLEAN
  /\ faults \in [FaultKinds -> Nat]

TimersOK == rotationTimer \in Timers /\ livenessTimer \in Timers

TypeOK == SocketsOK /\ TimersOK

Init ==
  /\ state = "IDLE"
  /\ sockets = << >>
  /\ active = NoSocket
  /\ pendingSocket = NoSocket
  /\ pendingToken = NoSocket
  /\ reconnectTimer = FALSE
  /\ rotationTimer = [running |-> 0, held |-> FALSE]
  /\ livenessTimer = [running |-> 0, held |-> FALSE]
  /\ faults = [f \in FaultKinds |-> 0]

Fault(f, bound) ==
  /\ faults[f] < bound
  /\ faults' = [faults EXCEPT ![f] = @ + 1]

----------------------------------------------------------------------------
(* Sockets *)

Alive(t) == sockets[t].phase \in {"connecting", "open"}

\* retireSocket, for each socket in gone.
Retired(gone) ==
  [t \in DOMAIN sockets |->
     IF t \in gone /\ Alive(t) THEN [sockets[t] EXCEPT !.phase = "retired"]
     ELSE sockets[t]]

NewSocket(socks, purpose) ==
  sockets' = Append(socks, [phase |-> "connecting", purpose |-> purpose])

IsOpen == state = "OPEN" /\ active # NoSocket /\ sockets[active].phase = "open"

\* The events of a socket count as long as it is the active or pending one.
IsAuthorized(t) == t \in {active, pendingToken}

\* openPrimarySocket, with a URL.  A replacement in the making is not retired.
OpenPrimarySocket(socks) ==
  /\ NewSocket(socks, "primary")
  /\ active' = Len(socks) + 1
  /\ pendingToken' = NoSocket
  /\ state' = "CONNECTING"

----------------------------------------------------------------------------
(* Timers *)

\* startRotationTimer and startLivenessTimer: what the handle referred to
\* before goes on running.
Started(timer, ms) ==
  IF ms = 0 THEN timer ELSE [running |-> timer.running + 1, held |-> TRUE]

Cleared(timer) ==
  [running |-> IF timer.held THEN timer.running - 1 ELSE timer.running, held |-> FALSE]

StartTimers ==
  /\ rotationTimer' = Started(rotationTimer, RotationMs)
  /\ livenessTimer' = Started(livenessTimer, StaleMs)

\* clearTimers, the reconnect timer apart.
ClearTimers ==
  /\ rotationTimer' = Cleared(rotationTimer)
  /\ livenessTimer' = Cleared(livenessTimer)

\* A rotation timer fires and sets the handle to null, whichever it refers to.
RotationTimerExpires ==
  /\ rotationTimer.running > 0
  /\ rotationTimer' = [running |-> rotationTimer.running - 1, held |-> FALSE]

----------------------------------------------------------------------------
(* Calls and timers *)

\* No URL to connect to: openPrimarySocket returns, and the state stays.
Connect ==
  /\ state \in {"IDLE", "CLOSED"}
  /\ Fault("call", MaxCalls)
  /\ OpenPrimarySocket(sockets)
  /\ UNCHANGED <<pendingSocket, reconnectTimer, timers>>

\* Mutant: close() leaves the scheduled reconnect.
CloseKeepsTimer ==
  /\ state # "CLOSED"
  /\ Fault("call", MaxCalls)
  /\ state' = "CLOSED"
  /\ sockets' = Retired({active, pendingSocket})
  /\ active' = NoSocket
  /\ pendingSocket' = NoSocket
  /\ pendingToken' = NoSocket
  /\ ClearTimers
  /\ UNCHANGED reconnectTimer

Close ==
  /\ state # "CLOSED"
  /\ Fault("call", MaxCalls)
  /\ state' = "CLOSED"
  /\ sockets' = Retired({active, pendingSocket})
  /\ active' = NoSocket
  /\ pendingSocket' = NoSocket
  /\ pendingToken' = NoSocket
  /\ reconnectTimer' = FALSE
  /\ ClearTimers

\* Mutant: the old socket is not retired before the new one opens.
ReplaceSocketKeepsOld ==
  /\ reconnectTimer' = FALSE
  /\ ClearTimers
  /\ pendingSocket' = NoSocket
  /\ OpenPrimarySocket(Retired({pendingSocket}))

\* reconnect() in any state but CLOSED.
ReplaceSocket ==
  /\ reconnectTimer' = FALSE
  /\ ClearTimers
  /\ pendingSocket' = NoSocket
  /\ OpenPrimarySocket(Retired({active, pendingSocket}))

Reconnect ==
  /\ state # "CLOSED"
  /\ Fault("call", MaxCalls)
  /\ ReplaceSocket

\* The same without a URL: the sockets are gone, the state is what it was.
ReconnectNoUrl ==
  /\ state # "CLOSED"
  /\ Fault("nourl", MaxNoUrl)
  /\ reconnectTimer' = FALSE
  /\ ClearTimers
  /\ sockets' = Retired({active, pendingSocket})
  /\ active' = NoSocket
  /\ pendingSocket' = NoSocket
  /\ pendingToken' = NoSocket
  /\ UNCHANGED state

\* A liveness interval finds the connection quiet for too long.
Stale ==
  /\ livenessTimer.running > 0
  /\ state = "OPEN"
  /\ Fault("stale", MaxStale)
  /\ ReplaceSocket

\* rotate(), with a URL.
Rotate ==
  /\ state = "OPEN"
  /\ pendingSocket = NoSocket
  /\ Fault("rotation", MaxRotations)
  /\ NewSocket(sockets, "rotation")
  /\ pendingSocket' = Len(sockets) + 1
  /\ pendingToken' = Len(sockets) + 1
  /\ UNCHANGED <<state, active, reconnectTimer, livenessTimer>>

RotateNow == Rotate /\ UNCHANGED rotationTimer

RotationTimerFires == RotationTimerExpires /\ Rotate

\* A timer that outlived its connection, or finds a rotation under way.
RotationTimerIdle ==
  /\ RotationTimerExpires
  /\ state # "OPEN" \/ pendingSocket # NoSocket
  /\ UNCHANGED <<state, sockets, connection, reconnectTimer, livenessTimer, faults>>

\* The rotation is skipped, and no other one is scheduled.
RotationTimerNoUrl ==
  /\ RotationTimerExpires
  /\ state = "OPEN"
  /\ pendingSocket = NoSocket
  /\ Fault("nourl", MaxNoUrl)
  /\ UNCHANGED <<state, sockets, connection, reconnectTimer, livenessTimer>>

ReconnectTimerFires ==
  /\ reconnectTimer
  /\ state # "CLOSED"
  /\ reconnectTimer' = FALSE
  /\ OpenPrimarySocket(sockets)
  /\ UNCHANGED <<pendingSocket, timers, faults>>

\* Nothing schedules another attempt.
ReconnectTimerNoUrl ==
  /\ reconnectTimer
  /\ Fault("nourl", MaxNoUrl)
  /\ reconnectTimer' = FALSE
  /\ UNCHANGED <<state, sockets, connection, timers>>

----------------------------------------------------------------------------
(* Socket events *)

Moved(t, phase) == [sockets EXCEPT ![t].phase = phase]

\* The handshake of a socket nobody listens to any more.
OpensUnheard(t) ==
  /\ sockets[t].phase = "connecting"
  /\ ~IsAuthorized(t)
  /\ sockets' = Moved(t, "open")
  /\ UNCHANGED <<state, connection, reconnectTimer, timers, faults>>

PrimaryOpens(t) ==
  /\ sockets[t].phase = "connecting"
  /\ sockets[t].purpose = "primary"
  /\ IsAuthorized(t)
  /\ sockets' = Moved(t, "open")
  /\ active' = t
  /\ pendingToken' = NoSocket
  /\ pendingSocket' = NoSocket
  /\ state' = "OPEN"
  /\ StartTimers
  /\ UNCHANGED <<reconnectTimer, faults>>

\* The replacement takes over and the old socket is retired.
Rotated(t) ==
  /\ sockets[t].phase = "connecting"
  /\ sockets[t].purpose = "rotation"
  /\ IsAuthorized(t)
  /\ sockets' = [Retired({active}) EXCEPT ![t].phase = "open"]
  /\ active' = t
  /\ pendingToken' = NoSocket
  /\ pendingSocket' = NoSocket
  /\ state' = "OPEN"
  /\ StartTimers
  /\ UNCHANGED <<reconnectTimer, faults>>

LostUnheard(t) ==
  /\ Alive(t)
  /\ ~IsAuthorized(t)
  /\ sockets' = Moved(t, "closed")
  /\ UNCHANGED <<state, connection, reconnectTimer, timers, faults>>

\* Mutant: a failed replacement is handled like a lost connection.
RotationFailsReconnects(t) ==
  /\ Alive(t)
  /\ t = pendingToken
  /\ Fault("drop", MaxDrops)
  /\ sockets' = Moved(t, "closed")
  /\ pendingToken' = NoSocket
  /\ pendingSocket' = NoSocket
  /\ reconnectTimer' = TRUE
  /\ state' = "RECONNECTING"
  /\ ClearTimers
  /\ UNCHANGED active

\* Mutant: the token of the failed replacement stays.
RotationFailsKeepsToken(t) ==
  /\ Alive(t)
  /\ t = pendingToken
  /\ Fault("drop", MaxDrops)
  /\ sockets' = Moved(t, "closed")
  /\ pendingSocket' = NoSocket
  /\ rotationTimer' = Started(rotationTimer, RotationMs)
  /\ UNCHANGED <<state, active, pendingToken, reconnectTimer, livenessTimer>>

\* A replacement that fails leaves the active connection alone, and another
\* rotation is scheduled.
RotationFails(t) ==
  /\ Alive(t)
  /\ t = pendingToken
  /\ Fault("drop", MaxDrops)
  /\ sockets' = Moved(t, "closed")
  /\ pendingToken' = NoSocket
  /\ pendingSocket' = NoSocket
  /\ rotationTimer' = Started(rotationTimer, RotationMs)
  /\ UNCHANGED <<state, active, reconnectTimer, livenessTimer>>

\* Mutant: the state changes but no timer is armed.
ScheduleReconnectForgets ==
  /\ state' = "RECONNECTING"
  /\ ClearTimers
  /\ UNCHANGED reconnectTimer

\* A reconnect that is scheduled already leaves everything as it is.
ScheduleReconnect ==
  \/ /\ reconnectTimer
     /\ UNCHANGED <<state, reconnectTimer, timers>>
  \/ /\ ~reconnectTimer
     /\ reconnectTimer' = TRUE
     /\ state' = "RECONNECTING"
     /\ ClearTimers

ActiveLost(t) ==
  /\ Alive(t)
  /\ t = active
  /\ \/ pendingToken = NoSocket /\ Fault("drop", MaxDrops)
     \/ pendingToken # NoSocket /\ Fault("race", MaxRaces)
  /\ sockets' = Moved(t, "closed")
  /\ ScheduleReconnect
  /\ UNCHANGED connection

----------------------------------------------------------------------------

Opens(t) == PrimaryOpens(t) \/ Rotated(t)

SocketEvent(t) ==
  \/ OpensUnheard(t)
  \/ Opens(t)
  \/ LostUnheard(t)
  \/ RotationFails(t)
  \/ ActiveLost(t)

Next ==
  \/ Connect
  \/ Close
  \/ Reconnect
  \/ ReconnectNoUrl
  \/ Stale
  \/ RotateNow
  \/ RotationTimerFires
  \/ RotationTimerIdle
  \/ RotationTimerNoUrl
  \/ ReconnectTimerFires
  \/ ReconnectTimerNoUrl
  \/ \E t \in DOMAIN sockets : SocketEvent(t)

Spec == Init /\ [][Next]_vars

\* The reconnect timer fires, and a handshake succeeds unless the socket is
\* lost, which the server and the network do finitely often.  Nothing makes
\* the user call anything.
Fairness ==
  /\ WF_vars(ReconnectTimerFires)
  /\ WF_vars(\E t \in DOMAIN sockets : Opens(t))

FairSpec == Spec /\ Fairness

----------------------------------------------------------------------------
(* Properties *)

\* No connection was lost while its replacement was opening, and there always
\* was a URL to connect to.
Calm == faults["race"] = 0 /\ faults["nourl"] = 0

Orphaned(t) == Alive(t) /\ ~IsAuthorized(t)
NoOrphan == \A t \in DOMAIN sockets : ~Orphaned(t)

\* One socket carries the connection, and a second one exists only as the
\* replacement of a rotation: reconnects, rotations and closes in any order
\* leave no other one behind.
OneConnection == faults["race"] = 0 => NoOrphan

\* The defect the class header says it removes: "producing duplicate concurrent
\* connections" (WsConnection.ts), also when a rotation is interrupted.
NoDuplicateConnections == NoOrphan

\* An open connection is looked after: a rotation is under way or due, and a
\* liveness interval watches it.
LookedAfter ==
  /\ RotationMs > 0 => rotationTimer.running > 0 \/ pendingSocket # NoSocket
  /\ StaleMs > 0 => livenessTimer.running > 0

\* What the state says is so: OPEN has an open socket, a rotation to come and a
\* liveness check, CONNECTING a connecting socket, a reconnect is scheduled
\* exactly in RECONNECTING, and CLOSED has no socket left (close()).
StateTruthful ==
  Calm =>
    /\ state = "OPEN" => IsOpen /\ LookedAfter
    /\ state = "CONNECTING" => active # NoSocket /\ sockets[active].phase = "connecting"
    /\ reconnectTimer <=> state = "RECONNECTING"
    /\ state = "CLOSED" => \A t \in DOMAIN sockets : ~Alive(t)

\* close() "Cleans up every timer and socket" (WsConnection.ts).
TimersCleared ==
  state = "CLOSED" => ~reconnectTimer /\ rotationTimer.running = 0 /\ livenessTimer.running = 0

\* "OPEN ... close (server)" leads to RECONNECTING (WsConnection.ts): OPEN means
\* that there is an open socket, whatever was lost before.
OpenHasSocket == state = "OPEN" => IsOpen

\* An open connection stops being open only when its own socket is lost, or the
\* user or the liveness check replaces it.
StaysOpen ==
  state = "OPEN" /\ state' # "OPEN" /\ Calm =>
    \/ faults'["call"] > faults["call"]
    \/ faults'["stale"] > faults["stale"]
    \/ sockets[active].phase = "open" /\ sockets'[active].phase = "closed"

\* "switch over without a data gap": a rotation, whether it succeeds or fails,
\* never interrupts an open connection.
GaplessRotation == [][StaysOpen]_vars

\* A connection that is connecting or waiting to gets open again, or the user
\* closes it, unless an attempt found no URL.
ComesBack ==
  state \in {"CONNECTING", "RECONNECTING"} ~>
    \/ IsOpen
    \/ state = "CLOSED"
    \/ faults["nourl"] > 0
=============================================================================
