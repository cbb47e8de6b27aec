---------------------------- MODULE UserSession -----------------------------
(***************************************************************************)
(* UserStreamSession in listen-key mode and the part of ExecutionPlatform  *)
(* that starts and closes sessions, against an exchange that keeps one     *)
(* listen key per API key: keep-alive and deletion carry no payload and    *)
(* act on whichever key is valid, and creation returns the valid key or    *)
(* replaces it.                                                            *)
(*                                                                         *)
(* A REST call is two steps, its effect at the exchange and its answer;    *)
(* it may fail before or after the first.  The socket a session opens is   *)
(* always on the key the session holds (buildUrl), so the socket's key is  *)
(* the session's; its 23-hour rotation keeps the key and is left out.      *)
(***************************************************************************)
EXTENDS Integers, FiniteSets

CONSTANTS
  Sessions,           \* the UserStreamSession objects the platform may create
  KeepAliveLimit,     \* keepAliveFailuresBeforeRotation
  ReconnectLimit,     \* reconnectAttemptsBeforeRotation
  FlapLimit,          \* flapFailuresBeforeRotation
  MaxKeys,            \* bound: keys issued before creation stops replacing
  MaxFaults,          \* bound: failed calls, lost sockets and expired keys
  MaxLost             \* bound: creations whose answer, or deletions, are lost

ASSUME UserSessionAssumption ==
  /\ "none" \notin Sessions
  /\ {KeepAliveLimit, ReconnectLimit, FlapLimit, MaxKeys} \subseteq Nat \ {0}
  /\ {MaxFaults, MaxLost} \subseteq Nat

VARIABLES
  current,    \* ExecutionPlatform.sessionValue, or NoSession
  stream,     \* the session the execution manager listens to, or NoSession
  status,     \* UserSessionState
  key,        \* listenKeyValue, or NoKey
  conn,       \* WsConnectionState
  tick,       \* the keep-alive: timer armed, asking, or waiting for a rotation
  failures,   \* keepAliveFailures, reconnectAttempt and flapFailures
  create,     \* the listen-key creation under way, with the key it was given
  valid,      \* the exchange's valid key, or NoKey
  issued,     \* keys issued so far
  deletes,    \* deletions on their way
  faults,     \* faults so far, per kind
  overlapped  \* history: a session began while a closed one was still starting

sessionVars == <<status, key, conn, tick, failures, create>>
exchangeVars == <<valid, issued, deletes>>
vars == <<current, stream, sessionVars, exchangeVars, faults, overlapped>>

NoSession == "none"
NoKey == 0
Counters == {"keepalive", "reconnect", "flap"}
NoCreate == [for |-> "none", given |-> NoKey]
NoFailures == [c \in Counters |-> 0]
FaultKinds == {"fault", "lost"}

TypeOK ==
  /\ current \in Sessions \union {NoSession}
  /\ stream \in Sessions \union {NoSession}
  /\ status \in [Sessions -> {"idle", "starting", "live", "reconnecting", "closed"}]
  /\ key \in [Sessions -> Nat]
  /\ conn \in [Sessions -> {"IDLE", "CONNECTING", "OPEN", "RECONNECTING", "CLOSED"}]
  /\ tick \in [Sessions -> {"off", "armed", "asking", "rotating"}]
  /\ failures \in [Sessions -> [Counters -> Nat]]
  /\ create \in [Sessions -> [for : {"none", "start", "rotate"}, given : Nat]]
  /\ valid \in 0..issued
  /\ issued \in Nat
  /\ deletes \in Nat
  /\ faults \in [FaultKinds -> Nat]
  /\ overlapped \in BOOLEAN
  /\ \A s \in Sessions : tick[s] = "rotating" => create[s].for = "rotate"

Init ==
  /\ current = NoSession
  /\ stream = NoSession
  /\ status = [s \in Sessions |-> "idle"]
  /\ key = [s \in Sessions |-> NoKey]
  /\ conn = [s \in Sessions |-> "IDLE"]
  /\ tick = [s \in Sessions |-> "off"]
  /\ failures = [s \in Sessions |-> NoFailures]
  /\ create = [s \in Sessions |-> NoCreate]
  /\ valid = NoKey
  /\ issued = 0
  /\ deletes = 0
  /\ faults = [f \in FaultKinds |-> 0]
  /\ overlapped = FALSE

Fault(f, bound) ==
  /\ faults[f] < bound
  /\ faults' = [faults EXCEPT ![f] = @ + 1]

IsClosed(s) == status[s] = "closed"

----------------------------------------------------------------------------
(* The exchange *)

\* POST listenKey: the valid key, or a new one that replaces it.
ServeCreate(s) ==
  /\ create[s].for # "none"
  /\ create[s].given = NoKey
  /\ \/ valid # NoKey /\ UNCHANGED <<valid, issued>>
     \/ /\ valid = NoKey \/ issued < MaxKeys
        /\ issued' = issued + 1
        /\ valid' = issued'
  /\ create' = [create EXCEPT ![s].given = valid']
  /\ UNCHANGED <<current, stream, status, key, conn, tick, failures, deletes, faults, overlapped>>

\* DELETE listenKey, whichever key is valid.
ServeDelete ==
  /\ deletes > 0
  /\ deletes' = deletes - 1
  /\ valid' = NoKey
  /\ UNCHANGED <<current, stream, sessionVars, issued, faults, overlapped>>

\* The deletion is best-effort: nobody looks at its failure.
DeleteFails ==
  /\ deletes > 0
  /\ Fault("lost", MaxLost)
  /\ deletes' = deletes - 1
  /\ UNCHANGED <<current, stream, sessionVars, valid, issued, overlapped>>

Expire ==
  /\ valid # NoKey
  /\ Fault("fault", MaxFaults)
  /\ valid' = NoKey
  /\ UNCHANGED <<current, stream, sessionVars, issued, deletes, overlapped>>

----------------------------------------------------------------------------
(* The session *)

\* rotateListenKey begins, unless a rotation is under way.
BeginRotate(s) ==
  create' = IF create[s].for = "none" THEN [create EXCEPT ![s].for = "rotate"] ELSE create

\* Mutant: a keep-alive that waited for the creation is not rearmed.
CreateDoneForgets(s) ==
  /\ create' = [create EXCEPT ![s] = NoCreate]
  /\ UNCHANGED tick

\* A finished creation lets a keep-alive that waited for it arm the next one.
CreateDone(s) ==
  /\ create' = [create EXCEPT ![s] = NoCreate]
  /\ tick' = [tick EXCEPT ![s] = IF @ = "rotating" THEN "armed" ELSE @]

\* Mutant: close() during the creation is not noticed.
RotateAnsweredUnchecked(s) ==
  /\ create[s].for = "rotate" /\ create[s].given # NoKey
  /\ CreateDone(s)
  /\ key' = [key EXCEPT ![s] = create[s].given]
  /\ failures' = [failures EXCEPT ![s].keepalive = 0, ![s].reconnect = 0]
  /\ UNCHANGED <<current, stream, status, conn, exchangeVars, faults, overlapped>>

\* The session moves to the new key and its connection is replaced.
RotateAnswered(s) ==
  /\ create[s].for = "rotate" /\ create[s].given # NoKey
  /\ ~IsClosed(s)
  /\ CreateDone(s)
  /\ key' = [key EXCEPT ![s] = create[s].given]
  /\ failures' = [failures EXCEPT ![s].keepalive = 0, ![s].reconnect = 0]
  /\ conn' = [conn EXCEPT ![s] = "CONNECTING"]
  /\ UNCHANGED <<current, stream, status, exchangeVars, faults, overlapped>>

StartAnswered(s) ==
  /\ create[s].for = "start" /\ create[s].given # NoKey
  /\ ~IsClosed(s)
  /\ create' = [create EXCEPT ![s] = NoCreate]
  /\ key' = [key EXCEPT ![s] = create[s].given]
  /\ failures' = [failures EXCEPT ![s] = NoFailures]
  /\ conn' = [conn EXCEPT ![s] = "CONNECTING"]
  /\ tick' = [tick EXCEPT ![s] = "armed"]
  /\ UNCHANGED <<current, stream, status, exchangeVars, faults, overlapped>>

\* Mutant: a key that arrives after close() is forgotten.
AnsweredClosedForgets(s) ==
  /\ IsClosed(s)
  /\ create[s].given # NoKey
  /\ create' = [create EXCEPT ![s] = NoCreate]
  /\ current' = IF create[s].for = "start" THEN NoSession ELSE current
  /\ UNCHANGED <<stream, status, key, conn, tick, failures, exchangeVars, faults, overlapped>>

\* Closed while the key was created: the key is deleted.  A start rejects, and
\* startUserSession then clears sessionValue, whichever session it holds.
AnsweredClosed(s) ==
  /\ IsClosed(s)
  /\ create[s].given # NoKey
  /\ create' = [create EXCEPT ![s] = NoCreate]
  /\ deletes' = deletes + 1
  /\ current' = IF create[s].for = "start" THEN NoSession ELSE current
  /\ UNCHANGED <<stream, status, key, conn, tick, failures, valid, issued, faults, overlapped>>

\* close() of session s: everything stops, and its key is deleted.  (Nothing
\* reads the failure counts of a closed session: they are dropped here.)
CloseSession(s) ==
  /\ status' = [status EXCEPT ![s] = "closed"]
  /\ key' = [key EXCEPT ![s] = NoKey]
  /\ conn' = [conn EXCEPT ![s] = "CLOSED"]
  /\ tick' = [tick EXCEPT ![s] = "off"]
  /\ failures' = [failures EXCEPT ![s] = NoFailures]
  /\ deletes' = IF key[s] # NoKey THEN deletes + 1 ELSE deletes
  /\ stream' = NoSession

\* A creation fails.  A failed start closes the session and clears
\* sessionValue; a failed rotation waits for the next trigger.
CreateFails(s) ==
  /\ create[s].for # "none"
  /\ IF create[s].given = NoKey THEN Fault("fault", MaxFaults) ELSE Fault("lost", MaxLost)
  /\ IF create[s].for = "start"
     THEN /\ current' = NoSession
          /\ create' = [create EXCEPT ![s] = NoCreate]
          /\ IF IsClosed(s) THEN UNCHANGED <<status, key, conn, tick, failures, deletes, stream>>
             ELSE CloseSession(s)
     ELSE /\ CreateDone(s)
          /\ UNCHANGED <<current, stream, status, key, conn, failures, deletes>>
  /\ UNCHANGED <<valid, issued, overlapped>>

----------------------------------------------------------------------------
(* Keep-alive *)

KeepAliveTimer(s) ==
  /\ tick[s] = "armed"
  /\ tick' = [tick EXCEPT ![s] = "asking"]
  /\ UNCHANGED <<current, stream, status, key, conn, failures, create, exchangeVars, faults, overlapped>>

\* PUT listenKey renews whichever key is valid.
KeepAliveOk(s) ==
  /\ tick[s] = "asking"
  /\ valid # NoKey
  /\ tick' = [tick EXCEPT ![s] = "armed"]
  /\ failures' = [failures EXCEPT ![s].keepalive = 0]
  /\ UNCHANGED <<current, stream, status, key, conn, create, exchangeVars, faults, overlapped>>

\* Mutant: the failures are counted per rotation, and reset by each one tried.
KeepAliveGivesUp(s) ==
  /\ tick[s] = "asking"
  /\ IF valid = NoKey THEN UNCHANGED faults ELSE Fault("fault", MaxFaults)
  /\ failures' = [failures EXCEPT ![s].keepalive = @ + (IF @ < KeepAliveLimit + 1 THEN 1 ELSE 0)]
  /\ IF failures'[s].keepalive = KeepAliveLimit /\ create[s].for = "none"
     THEN BeginRotate(s) /\ tick' = [tick EXCEPT ![s] = "rotating"]
     ELSE UNCHANGED create /\ tick' = [tick EXCEPT ![s] = "armed"]
  /\ UNCHANGED <<current, stream, status, key, conn, exchangeVars, overlapped>>

\* The count stops at the limit, which is all that is asked of it.
KeepAliveFails(s) ==
  /\ tick[s] = "asking"
  /\ IF valid = NoKey THEN UNCHANGED faults ELSE Fault("fault", MaxFaults)
  /\ failures' = [failures EXCEPT ![s].keepalive = IF @ < KeepAliveLimit THEN @ + 1 ELSE @]
  /\ IF failures'[s].keepalive = KeepAliveLimit /\ create[s].for = "none"
     THEN BeginRotate(s) /\ tick' = [tick EXCEPT ![s] = "rotating"]
     ELSE UNCHANGED create /\ tick' = [tick EXCEPT ![s] = "armed"]
  /\ UNCHANGED <<current, stream, status, key, conn, exchangeVars, overlapped>>

----------------------------------------------------------------------------
(* The connection *)

Opens(s) ==
  /\ conn[s] = "CONNECTING"
  /\ conn' = [conn EXCEPT ![s] = "OPEN"]
  /\ status' = [status EXCEPT ![s] = "live"]
  /\ failures' = [failures EXCEPT ![s].reconnect = 0]
  /\ UNCHANGED <<current, stream, key, tick, create, exchangeVars, faults, overlapped>>

\* The socket is lost, or never opens: free of charge on a dead key.  Whether
\* it died soon after an open without a frame (flapped) is left to time.
SocketLost(s, flapped) ==
  LET flaps == IF flapped THEN failures[s].flap + 1 ELSE 0
      attempt == IF failures[s].reconnect < ReconnectLimit THEN failures[s].reconnect + 1
                 ELSE ReconnectLimit
  IN /\ IF key[s] = valid THEN Fault("fault", MaxFaults) ELSE UNCHANGED faults
     /\ conn' = [conn EXCEPT ![s] = "RECONNECTING"]
     /\ status' = [status EXCEPT ![s] = "reconnecting"]
     /\ failures' = [failures EXCEPT ![s].reconnect = attempt,
                                     ![s].flap = IF flaps = FlapLimit THEN 0 ELSE flaps]
     /\ IF flaps = FlapLimit \/ attempt = ReconnectLimit THEN BeginRotate(s) ELSE UNCHANGED create
     /\ UNCHANGED <<current, stream, key, tick, exchangeVars, overlapped>>

ConnectFails(s) == conn[s] = "CONNECTING" /\ \E flapped \in BOOLEAN : SocketLost(s, flapped)

Drops(s) == conn[s] = "OPEN" /\ \E flapped \in BOOLEAN : SocketLost(s, flapped)

ReconnectFires(s) ==
  /\ conn[s] = "RECONNECTING"
  /\ conn' = [conn EXCEPT ![s] = "CONNECTING"]
  /\ UNCHANGED <<current, stream, status, key, tick, failures, create, exchangeVars, faults, overlapped>>

\* The frame listenKeyExpired, on a socket whose key is dead.
KeyExpired(s) ==
  /\ conn[s] = "OPEN" /\ key[s] # valid
  /\ create[s].for = "none"
  /\ BeginRotate(s)
  /\ UNCHANGED <<current, stream, status, key, conn, tick, failures, exchangeVars, faults, overlapped>>

----------------------------------------------------------------------------
(* The platform *)

\* Mutant: a session is started although one is there.
StartUserSessionTwice(s) ==
  /\ status[s] = "idle"
  /\ current' = s
  /\ stream' = s
  /\ status' = [status EXCEPT ![s] = "starting"]
  /\ create' = [create EXCEPT ![s].for = "start"]
  /\ overlapped' = (overlapped \/ \E o \in Sessions : IsClosed(o) /\ create[o].for = "start")
  /\ UNCHANGED <<key, conn, tick, failures, exchangeVars, faults>>

\* A new session, unless sessionValue holds one, even a closed one.
StartUserSession(s) ==
  /\ current = NoSession
  /\ status[s] = "idle"
  /\ current' = s
  /\ stream' = s
  /\ status' = [status EXCEPT ![s] = "starting"]
  /\ create' = [create EXCEPT ![s].for = "start"]
  /\ overlapped' = (overlapped \/ \E o \in Sessions : IsClosed(o) /\ create[o].for = "start")
  /\ UNCHANGED <<key, conn, tick, failures, exchangeVars, faults>>

\* ExecutionPlatform.close(); a session its holder closed before is not closed again.
PlatformClose ==
  /\ current # NoSession
  /\ current' = NoSession
  /\ IF IsClosed(current) THEN UNCHANGED <<status, key, conn, tick, failures, deletes, stream>>
     ELSE CloseSession(current)
  /\ UNCHANGED <<create, valid, issued, faults, overlapped>>

\* The session's holder closes it: sessionValue keeps it.
HolderClose(s) ==
  /\ status[s] \notin {"idle", "closed"}
  /\ CloseSession(s)
  /\ UNCHANGED <<current, create, valid, issued, faults, overlapped>>

----------------------------------------------------------------------------

Answered(s) == StartAnswered(s) \/ RotateAnswered(s) \/ AnsweredClosed(s)

SessionStep(s) ==
  \/ ServeCreate(s) \/ CreateFails(s) \/ Answered(s)
  \/ KeepAliveTimer(s) \/ KeepAliveOk(s) \/ KeepAliveFails(s)
  \/ Opens(s) \/ ConnectFails(s) \/ Drops(s) \/ ReconnectFires(s) \/ KeyExpired(s)
  \/ StartUserSession(s) \/ HolderClose(s)

Next ==
  \/ \E s \in Sessions : SessionStep(s)
  \/ ServeDelete \/ DeleteFails \/ Expire \/ PlatformClose

Spec == Init /\ [][Next]_vars

\* A request is answered or fails, timers fire, and an attempt to connect
\* ends; that a socket on a dead key is ever dropped is not assumed.
Fairness ==
  /\ WF_vars(ServeDelete)
  /\ \A s \in Sessions :
       /\ WF_vars(ServeCreate(s))
       /\ WF_vars(Answered(s))
       /\ WF_vars(KeepAliveTimer(s))
       /\ WF_vars(KeepAliveOk(s) \/ KeepAliveFails(s))
       /\ WF_vars(Opens(s) \/ ConnectFails(s))
       /\ WF_vars(ReconnectFires(s))

FairSpec == Spec /\ Fairness

----------------------------------------------------------------------------
(* Properties *)

IsRunning(s) == status[s] \notin {"idle", "closed"}

\* A session that runs is the one the platform would close and the execution
\* manager listens to: there are never two, and none is left behind; except
\* after a session was begun while a closed one was still creating its key
\* (startUserSession then clears sessionValue for the wrong session).
SessionInCharge ==
  overlapped \/ \A s \in Sessions : IsRunning(s) => s = current /\ s = stream

\* After close() nothing of a session comes back: no key, no socket, no timer,
\* whatever it was waiting for at the time.
ClosedIsQuiet ==
  \A s \in Sessions : IsClosed(s) => key[s] = NoKey /\ conn[s] = "CLOSED" /\ tick[s] = "off"

\* When every session is closed and nothing is on its way, no key is left
\* valid at the exchange, unless an answer or a deletion was lost.
NoKeyLeak ==
  /\ \A s \in Sessions : ~IsRunning(s) /\ create[s].for = "none"
  /\ deletes = 0
  /\ faults["lost"] = 0
  => valid = NoKey

\* A running session comes to listen on the valid key, through every expiry,
\* failure of a call and loss of a socket; except when the answer of a
\* creation was lost (the keep-alive then renews the new key for a session on
\* the old one), or two sessions share the key.
KeepsDelivering ==
  \A s \in Sessions :
    IsRunning(s) ~> \/ conn[s] = "OPEN" /\ key[s] = valid
                    \/ IsClosed(s) \/ faults["lost"] > 0 \/ overlapped

=============================================================================
