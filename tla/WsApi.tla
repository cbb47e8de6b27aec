------------------------------- MODULE WsApi --------------------------------
(***************************************************************************)
(* WsApiClient with WsSession: concurrent calls over one persistent socket *)
(* that is opened by the first call, logged on after it opens when the     *)
(* client has a session, and reopened after a delay when it is lost.       *)
(*                                                                         *)
(* A handler runs to its end together with the promise callbacks it        *)
(* releases, which need no further event: a waiter is sent in the turn     *)
(* that opens the connection, and a logon rejected by the loss of its      *)
(* socket fails in the turn of the loss.  CLOSING exists only inside       *)
(* close(); REAUTHENTICATING is AUTHENTICATING under another name.         *)
(***************************************************************************)
EXTENDS Integers, FiniteSets

CONSTANTS
  Reads, Writes,  \* calls, by the category that decides their failure
  MaxPending,     \* maxPendingRequests
  MaxDrops,       \* bound: sockets lost by the server or the network
  MaxAuthDrops,   \* bound: sockets lost while their logon is unanswered
  MaxLogouts,     \* bound: calls of WsSession.logout
  MaxLogoutFails  \* bound: logouts that time out

ASSUME WsApiAssumption ==
  /\ Reads \intersect Writes = {}
  /\ IsFiniteSet(Reads \union Writes)
  /\ MaxPending \in Nat \ {0}
  /\ {MaxDrops, MaxAuthDrops, MaxLogouts, MaxLogoutFails} \subseteq Nat

VARIABLES
  session,        \* the client was given a WsSession
  state,          \* WsApiClientState
  socket,         \* the current socket; "none" when there is none
  delay,          \* a reconnect delay is running
  logon,          \* the pending session.logon as the server sees it
  logout,         \* the last session.logout of this socket
  authenticated,  \* WsSession.isAuthenticated
  authorized,     \* the server regards the socket as logged on
  call,           \* what the caller of each call sees, or where it is
  frame,          \* each call's frame at the server
  faults          \* faults and logouts so far, per kind

auth == <<logon, logout, authenticated, authorized>>
vars == <<session, state, socket, delay, auth, call, frame, faults>>

Calls == Reads \union Writes
Outcomes == {"ok", "error", "refused", "retryable", "unknown"}
States == {"IDLE", "CONNECTING", "AUTHENTICATING", "OPEN", "READY",
           "RECONNECTING", "CLOSED", "FAILED"}
FaultKinds == {"drop", "authdrop", "logout", "logoutfail"}

TypeOK ==
  /\ session \in BOOLEAN
  /\ state \in States
  /\ socket \in {"none", "connecting", "open", "closing", "dead"}
  /\ delay \in BOOLEAN
  /\ logon \in {"none", "sent", "accepted", "rejected"}
  /\ logout \in {"none", "sent", "done", "abandoned"}
  /\ authenticated \in BOOLEAN
  /\ authorized \in BOOLEAN
  /\ call \in [Calls -> {"new", "waiting", "pending"} \union Outcomes]
  /\ frame \in [Calls -> {"none", "sent", "executed", "rejected"}]
  /\ faults \in [FaultKinds -> Nat]
  /\ logon # "none" => state = "AUTHENTICATING" /\ socket \in {"open", "closing"}
  /\ delay => socket \in {"none", "dead"}

Init ==
  /\ session \in BOOLEAN
  /\ state = "IDLE"
  /\ socket = "none"
  /\ delay = FALSE
  /\ logon = "none"
  /\ logout = "none"
  /\ authenticated = FALSE
  /\ authorized = FALSE
  /\ call = [c \in Calls |-> "new"]
  /\ frame = [c \in Calls |-> "none"]
  /\ faults = [f \in FaultKinds |-> 0]

Fault(f, bound) ==
  /\ faults[f] < bound
  /\ faults' = [faults EXCEPT ![f] = @ + 1]

----------------------------------------------------------------------------
(* The pending map and the waiters *)

With(status) == {c \in Calls : call[c] = status}

PendingCount ==
  Cardinality(With("pending")) + (IF logon # "none" THEN 1 ELSE 0)
                               + (IF logout \in {"sent", "done"} THEN 1 ELSE 0)

IsDispatchable == state \in {"OPEN", "READY"} /\ socket = "open"

\* The frames of the calls in s leave the client.
Send(s) ==
  /\ call' = [c \in Calls |-> IF c \in s THEN "pending" ELSE call[c]]
  /\ frame' = [c \in Calls |-> IF c \in s THEN "sent" ELSE frame[c]]

\* Mutant: a lost order write counts as retryable.
LostRetryable(c) == "retryable"

\* What a dispatched call that gets no answer ends as.
LostOutcome(c) == IF c \in Writes THEN "unknown" ELSE "retryable"

\* Mutant: the waiters are left to the next connection.
FailPending ==
  call' = [c \in Calls |-> IF call[c] = "pending" THEN LostOutcome(c) ELSE call[c]]

\* failAllPending and failOpenWaiters.
FailEverything ==
  call' = [c \in Calls |-> CASE call[c] = "pending" -> LostOutcome(c)
                             [] call[c] = "waiting" -> "refused"
                             [] OTHER -> call[c]]

OpenSocket ==
  /\ socket' = "connecting"
  /\ state' = "CONNECTING"

----------------------------------------------------------------------------
(* Calls *)

RequestSent(c) ==
  /\ call[c] = "new"
  /\ PendingCount < MaxPending
  /\ IsDispatchable
  /\ Send({c})
  /\ UNCHANGED <<session, state, socket, delay, auth, faults>>

RequestRefused(c) ==
  /\ call[c] = "new"
  /\ \/ PendingCount >= MaxPending
     \/ state \in {"CLOSED", "FAILED"}
  /\ call' = [call EXCEPT ![c] = "refused"]
  /\ UNCHANGED <<session, state, socket, delay, auth, frame, faults>>

\* The first call opens the connection.  In OPEN or READY a call waits when
\* the socket is already closing.
RequestWaits(c) ==
  /\ call[c] = "new"
  /\ PendingCount < MaxPending
  /\ ~IsDispatchable
  /\ state \notin {"CLOSED", "FAILED"}
  /\ call' = [call EXCEPT ![c] = "waiting"]
  /\ IF state = "IDLE" THEN OpenSocket ELSE UNCHANGED <<state, socket>>
  /\ UNCHANGED <<session, delay, auth, frame, faults>>

WaitTimeout(c) ==
  /\ call[c] = "waiting"
  /\ call' = [call EXCEPT ![c] = "refused"]
  /\ UNCHANGED <<session, state, socket, delay, auth, frame, faults>>

\* Mutant: an order write, which is ambiguous anyway, is never timed out.
RequestTimeoutReads(c) ==
  /\ call[c] = "pending"
  /\ c \in Reads
  /\ call' = [call EXCEPT ![c] = "retryable"]
  /\ UNCHANGED <<session, state, socket, delay, auth, frame, faults>>

RequestTimeout(c) ==
  /\ call[c] = "pending"
  /\ call' = [call EXCEPT ![c] = LostOutcome(c)]
  /\ UNCHANGED <<session, state, socket, delay, auth, frame, faults>>

\* The exchange executes or refuses a frame, even one whose socket is gone
\* or whose call has timed out.
Serve(c) ==
  /\ frame[c] = "sent"
  /\ \E result \in {"executed", "rejected"} : frame' = [frame EXCEPT ![c] = result]
  /\ UNCHANGED <<session, state, socket, delay, auth, call, faults>>

\* handleMessage.  A late answer finds no pending call and is dropped.
Answer(c) ==
  /\ call[c] = "pending"
  /\ socket = "open"
  /\ frame[c] \in {"executed", "rejected"}
  /\ call' = [call EXCEPT ![c] = IF frame[c] = "executed" THEN "ok" ELSE "error"]
  /\ UNCHANGED <<session, state, socket, delay, auth, frame, faults>>

\* Mutant: close() does not reject the logon under way.
CloseKeepsLogon ==
  /\ state # "CLOSED"
  /\ state' = "CLOSED"
  /\ socket' = "none"
  /\ logout' = "none"
  /\ authenticated' = FALSE
  /\ authorized' = FALSE
  /\ FailEverything
  /\ UNCHANGED <<session, delay, logon, frame, faults>>

\* An application may call close() at any time, but need not.
Close ==
  /\ state # "CLOSED"
  /\ state' = "CLOSED"
  /\ socket' = "none"
  /\ logon' = "none"
  /\ logout' = "none"
  /\ authenticated' = FALSE
  /\ authorized' = FALSE
  /\ FailEverything
  /\ UNCHANGED <<session, delay, frame, faults>>

----------------------------------------------------------------------------
(* The session *)

ServeLogon ==
  /\ logon = "sent"
  /\ \/ logon' = "accepted" /\ authorized' = TRUE
     \/ logon' = "rejected" /\ UNCHANGED authorized
  /\ UNCHANGED <<session, state, socket, delay, logout, authenticated, call,
                 frame, faults>>

\* The answer to the logon: READY, and every waiter is sent in this turn.
LogonSucceeds ==
  /\ logon = "accepted"
  /\ socket = "open"
  /\ logon' = "none"
  /\ authenticated' = TRUE
  /\ state' = "READY"
  /\ Send(With("waiting"))
  /\ UNCHANGED <<session, socket, delay, logout, authorized, faults>>

\* A rejected logon, or one that timed out, whatever the server made of it.
\* The socket stays open.
LogonFails ==
  /\ logon # "none"
  /\ logon' = "none"
  /\ state' = "FAILED"
  /\ FailEverything
  /\ UNCHANGED <<session, socket, delay, logout, authenticated, authorized,
                 frame, faults>>

\* WsSession.logout on an open socket; above the limit it throws at once.
Logout ==
  /\ authenticated
  /\ logout = "none"
  /\ socket = "open"
  /\ PendingCount < MaxPending
  /\ Fault("logout", MaxLogouts)
  /\ logout' = "sent"
  /\ UNCHANGED <<session, state, socket, delay, logon, authenticated,
                 authorized, call, frame>>

ServeLogout ==
  /\ logout \in {"sent", "abandoned"}
  /\ authorized
  /\ authorized' = FALSE
  /\ logout' = IF logout = "sent" THEN "done" ELSE logout
  /\ UNCHANGED <<session, state, socket, delay, logon, authenticated, call,
                 frame, faults>>

LogoutAnswered ==
  /\ logout = "done"
  /\ socket = "open"
  /\ logout' = "none"
  /\ authenticated' = FALSE
  /\ UNCHANGED <<session, state, socket, delay, logon, authorized, call,
                 frame, faults>>

\* sendRpc rejects before logout() reaches clearSession().
LogoutTimeout ==
  /\ logout \in {"sent", "done"}
  /\ Fault("logoutfail", MaxLogoutFails)
  /\ logout' = "abandoned"
  /\ UNCHANGED <<session, state, socket, delay, logon, authenticated,
                 authorized, call, frame>>

----------------------------------------------------------------------------
(* Socket events and the reconnect delay *)

\* The pending map is empty here, so that the logon is below the limit.
SocketOpens ==
  /\ socket = "connecting"
  /\ socket' = "open"
  /\ IF session
     THEN /\ state' = "AUTHENTICATING"
          /\ logon' = "sent"
          /\ UNCHANGED <<call, frame>>
     ELSE /\ state' = "OPEN"
          /\ Send(With("waiting"))
          /\ UNCHANGED logon
  /\ UNCHANGED <<session, delay, logout, authenticated, authorized, faults>>

\* The server starts to close: no frame is sent or received any more.
SocketClosing ==
  /\ socket = "open"
  /\ faults["drop"] < MaxDrops
  /\ logon = "none" \/ faults["authdrop"] < MaxAuthDrops
  /\ socket' = "closing"
  /\ UNCHANGED <<session, state, delay, auth, call, frame, faults>>

\* Mutant: the close handler keeps the session.
ForgetNothing ==
  /\ logon' = "none"
  /\ logout' = "none"
  /\ authorized' = FALSE
  /\ UNCHANGED authenticated

\* Session authorization dies with the socket, on both sides.
ForgetSession ==
  /\ logon' = "none"
  /\ logout' = "none"
  /\ authorized' = FALSE
  /\ authenticated' = FALSE

\* Mutant: a reconnect that does not open schedules no other.
SocketLostOnce ==
  /\ socket \in {"connecting", "open", "closing"}
  /\ logon = "none"
  /\ Fault("drop", MaxDrops)
  /\ socket' = "dead"
  /\ state' = "RECONNECTING"
  /\ delay' = (socket # "connecting")
  /\ ForgetSession
  /\ FailEverything
  /\ UNCHANGED <<session, frame>>

\* The socket is gone: everything under way fails and a reconnect is
\* scheduled, in the state FAILED too.
SocketLost ==
  /\ socket \in {"connecting", "open", "closing"}
  /\ logon = "none"
  /\ Fault("drop", MaxDrops)
  /\ socket' = "dead"
  /\ state' = "RECONNECTING"
  /\ delay' = TRUE
  /\ ForgetSession
  /\ FailEverything
  /\ UNCHANGED <<session, frame>>

\* The same while the logon is unanswered: failAllPending rejects it, and
\* authenticate(), for which the lost socket is still the current one until
\* the delay is over, fails the client for good.
SocketLostInLogon ==
  /\ socket \in {"open", "closing"}
  /\ logon # "none"
  /\ Fault("authdrop", MaxAuthDrops)
  /\ socket' = "dead"
  /\ state' = "FAILED"
  /\ delay' = TRUE
  /\ ForgetSession
  /\ FailEverything
  /\ UNCHANGED <<session, frame>>

DelayEnds ==
  /\ delay
  /\ delay' = FALSE
  /\ IF state \in {"CLOSED", "FAILED"} THEN UNCHANGED <<state, socket>> ELSE OpenSocket
  /\ UNCHANGED <<session, auth, call, frame, faults>>

----------------------------------------------------------------------------
CallStep(c) ==
  \/ RequestSent(c)
  \/ RequestRefused(c)
  \/ RequestWaits(c)
  \/ WaitTimeout(c)
  \/ RequestTimeout(c)
  \/ Serve(c)
  \/ Answer(c)

SessionStep ==
  \/ ServeLogon
  \/ LogonSucceeds
  \/ LogonFails
  \/ Logout
  \/ ServeLogout
  \/ LogoutAnswered
  \/ LogoutTimeout

SocketStep ==
  \/ SocketOpens
  \/ SocketClosing
  \/ SocketLost
  \/ SocketLostInLogon
  \/ DelayEnds

Next == \/ \E c \in Calls : CallStep(c)
        \/ Close
        \/ SessionStep
        \/ SocketStep

Spec == Init /\ [][Next]_vars

\* Timers fire, and a socket that is connecting or closing gets its event.
\* Nothing is assumed of the server: it need not answer.
Fairness ==
  /\ \A c \in Calls : WF_vars(WaitTimeout(c)) /\ WF_vars(RequestTimeout(c))
  /\ WF_vars(LogonFails)
  /\ WF_vars(SocketOpens \/ (socket = "closing" /\ (SocketLost \/ SocketLostInLogon)))
  /\ WF_vars(DelayEnds)

FairSpec == Spec /\ Fairness

----------------------------------------------------------------------------
(* Properties *)

\* What a caller is told is true and final: "ok" means executed, "refused"
\* and "error" mean no effect, a call that wrote an order is never reported
\* retryable once its frame may be executed, and no frame is executed twice,
\* whatever drops, timeouts, close() and reconnects do.
RpcRefinement == INSTANCE Rpc WITH
  call <- [c \in Calls |-> IF call[c] \in {"waiting", "pending"} THEN "running" ELSE call[c]],
  effect <- {c \in Calls : frame[c] = "executed"}

ImplementsRpc == RpcRefinement!Spec

\* Every call ends, also when it waits for a connection that never comes back
\* or for an answer that is never sent.
EveryCallEnds == RpcRefinement!EveryCallEnds

\* As long as no logout is under way, a client that leaves out signatures
\* because the session is authenticated talks to a socket the server regards
\* as logged on (sendAndWait reads session.isAuthenticated at the send).
SessionTruthful == authenticated /\ logout = "none" => authorized /\ state = "READY"

\* No caller waits for a connection in a state in which nothing will resolve
\* or fail the waiters (ensureDispatchable against the open, logon, close
\* and drop handlers).
NoStrandedWaiter ==
  With("waiting") # {} =>
    \/ socket = "connecting" /\ state = "CONNECTING"
    \/ socket \in {"open", "closing"} /\ logon # "none"
    \/ socket = "closing" /\ state \in {"OPEN", "READY"}
    \/ delay /\ state = "RECONNECTING"

\* A lost connection comes back, or the client has been closed or has failed:
\* RECONNECTING and CONNECTING are never the end.
ComesBack ==
  state \in {"RECONNECTING", "CONNECTING"} ~>
    state \in {"OPEN", "READY", "CLOSED", "FAILED"}

=============================================================================
