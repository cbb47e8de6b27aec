---------------------------- MODULE WsApiProofs -----------------------------
(***************************************************************************)
(* Proofs about WsApi for every set of calls and every bound: its type     *)
(* invariant, what an authenticated session says of the server, that no    *)
(* caller waits for a connection nobody opens, and that every behaviour is *)
(* one that Rpc allows.                                                    *)
(***************************************************************************)
EXTENDS WsApi, TLAPS

\* A call that has not been sent has no frame, and what a caller has been
\* told agrees with what became of the frame.
FramesMatch ==
  \A c \in Calls :
    /\ call[c] \in {"new", "waiting", "refused"} => frame[c] = "none"
    /\ call[c] = "ok" => frame[c] = "executed"
    /\ call[c] = "error" => frame[c] = "rejected"
    /\ call[c] = "retryable" => c \in Reads
    /\ call[c] = "unknown" => c \in Writes

\* What each state of the client says of its socket, logon and delay.
StateMatchesSocket ==
  /\ state = "IDLE" => socket = "none"
  /\ state = "CONNECTING" <=> socket = "connecting"
  /\ state = "AUTHENTICATING" => logon # "none"
  /\ state \in {"OPEN", "READY"} => socket \in {"open", "closing"}
  /\ state = "RECONNECTING" => delay
  /\ delay => state \in {"RECONNECTING", "FAILED", "CLOSED"}

\* Only a client that is READY has a session to log out of, and the server
\* agrees until it serves the logout.
SessionMatches ==
  /\ authenticated \/ logout # "none" => state = "READY"
  /\ logon = "accepted" => authorized
  /\ authenticated /\ logout = "none" => authorized

\* Calls wait only in states that promise an event for them.
WaitersMatch ==
  With("waiting") # {} =>
    \/ state \in {"CONNECTING", "AUTHENTICATING", "RECONNECTING"}
    \/ state \in {"OPEN", "READY"} /\ socket = "closing"

IInv ==
  /\ TypeOK
  /\ FramesMatch
  /\ StateMatchesSocket
  /\ SessionMatches
  /\ WaitersMatch

----------------------------------------------------------------------------
(* The invariant is inductive *)

LEMMA InitIInv == Init => IInv
<1>. SUFFICES ASSUME Init PROVE IInv
  OBVIOUS
<1>1. TypeOK
  BY DEF Init, TypeOK, States, FaultKinds
<1>2. FramesMatch /\ WaitersMatch
  BY DEF Init, FramesMatch, WaitersMatch, With
<1>3. StateMatchesSocket /\ SessionMatches
  BY DEF Init, StateMatchesSocket, SessionMatches
<1>. QED
  BY <1>1, <1>2, <1>3 DEF IInv

\* A fault or logout adds one to its count.
LEMMA FaultCounts ==
  ASSUME TypeOK, NEW f \in FaultKinds, NEW bound, Fault(f, bound)
  PROVE  faults' \in [FaultKinds -> Nat]
<1>. QED
  BY DEF TypeOK, Fault

\* The end of a connection ends every call that was waiting or pending.
LEMMA FailEverythingFacts ==
  ASSUME IInv, FailEverything
  PROVE  /\ call' \in [Calls -> {"new", "waiting", "pending"} \union Outcomes]
         /\ With("waiting")' = {}
         /\ frame' = frame => FramesMatch'
<1>1. \A c \in Calls : LostOutcome(c) = IF c \in Writes THEN "unknown" ELSE "retryable"
  BY DEF LostOutcome
<1>2. call' \in [Calls -> {"new", "waiting", "pending"} \union Outcomes]
  BY <1>1 DEF IInv, TypeOK, FailEverything, Outcomes
<1>3. With("waiting")' = {}
  BY <1>1 DEF FailEverything, With
<1>4. ASSUME frame' = frame PROVE FramesMatch'
  BY <1>1, <1>4 DEF IInv, TypeOK, FramesMatch, FailEverything, Calls
<1>. QED
  BY <1>2, <1>3, <1>4

\* A call begins, waits, times out, is served or answered.
LEMMA CallIInv == ASSUME IInv, NEW c \in Calls, CallStep(c) PROVE IInv'
<1>. USE DEF IInv, TypeOK, FramesMatch, StateMatchesSocket, SessionMatches,
            WaitersMatch, With, Outcomes, auth
<1>1. CASE RequestSent(c)
  BY <1>1 DEF RequestSent, Send, IsDispatchable
<1>2. CASE RequestRefused(c)
  BY <1>2 DEF RequestRefused
<1>3. CASE RequestWaits(c)
  BY <1>3 DEF RequestWaits, IsDispatchable, OpenSocket, States
<1>4. CASE WaitTimeout(c)
  BY <1>4 DEF WaitTimeout
<1>5. CASE RequestTimeout(c)
  BY <1>5 DEF RequestTimeout, LostOutcome, Calls
<1>6. CASE Serve(c)
  BY <1>6 DEF Serve
<1>7. CASE Answer(c)
  BY <1>7 DEF Answer
<1>. QED
  BY <1>1, <1>2, <1>3, <1>4, <1>5, <1>6, <1>7 DEF CallStep

\* The session logs on and off.
LEMMA SessionIInv == ASSUME IInv, SessionStep PROVE IInv'
<1>. USE DEF IInv, TypeOK, FramesMatch, StateMatchesSocket, SessionMatches,
            WaitersMatch, With, Outcomes
<1>1. CASE ServeLogon
  BY <1>1 DEF ServeLogon
<1>2. CASE LogonSucceeds
  BY <1>2 DEF LogonSucceeds, Send, States
<1>3. CASE LogonFails
  BY FailEverythingFacts, <1>3 DEF LogonFails, States
<1>4. CASE Logout
  BY FaultCounts, <1>4 DEF Logout, FaultKinds
<1>5. CASE ServeLogout
  BY <1>5 DEF ServeLogout
<1>6. CASE LogoutAnswered
  BY <1>6 DEF LogoutAnswered
<1>7. CASE LogoutTimeout
  BY FaultCounts, <1>7 DEF LogoutTimeout, FaultKinds
<1>. QED
  BY <1>1, <1>2, <1>3, <1>4, <1>5, <1>6, <1>7 DEF SessionStep

\* The socket opens, is lost, and comes back.
LEMMA SocketIInv == ASSUME IInv, SocketStep PROVE IInv'
<1>. USE DEF IInv, TypeOK, FramesMatch, StateMatchesSocket, SessionMatches,
            WaitersMatch, With
<1>1. CASE SocketOpens
  BY <1>1 DEF SocketOpens, Send, States
<1>2. CASE SocketClosing
  BY <1>2 DEF SocketClosing, auth
<1>3. CASE SocketLost
  <2>1. faults' \in [FaultKinds -> Nat]
    BY <1>3, FaultCounts DEF SocketLost, FaultKinds
  <2>2. FramesMatch' /\ WaitersMatch'
    BY <1>3, FailEverythingFacts DEF SocketLost
  <2>3. TypeOK'
    BY <1>3, <2>1, FailEverythingFacts DEF SocketLost, ForgetSession, States
  <2>4. StateMatchesSocket' /\ SessionMatches'
    BY <1>3 DEF SocketLost, ForgetSession
  <2>. QED
    BY <2>2, <2>3, <2>4
<1>4. CASE SocketLostInLogon
  <2>1. faults' \in [FaultKinds -> Nat]
    BY <1>4, FaultCounts DEF SocketLostInLogon, FaultKinds
  <2>2. FramesMatch' /\ WaitersMatch'
    BY <1>4, FailEverythingFacts DEF SocketLostInLogon
  <2>3. TypeOK'
    BY <1>4, <2>1, FailEverythingFacts DEF SocketLostInLogon, ForgetSession, States
  <2>4. StateMatchesSocket' /\ SessionMatches'
    BY <1>4 DEF SocketLostInLogon, ForgetSession
  <2>. QED
    BY <2>2, <2>3, <2>4
<1>5. CASE DelayEnds
  BY <1>5 DEF DelayEnds, OpenSocket, States, auth
<1>. QED
  BY <1>1, <1>2, <1>3, <1>4, <1>5 DEF SocketStep

LEMMA CloseIInv == ASSUME IInv, Close PROVE IInv'
<1>. USE DEF Close, IInv
<1>1. TypeOK'
  BY FailEverythingFacts DEF TypeOK, States
<1>2. FramesMatch' /\ WaitersMatch'
  BY FailEverythingFacts DEF WaitersMatch
<1>3. StateMatchesSocket' /\ SessionMatches'
  BY DEF StateMatchesSocket, SessionMatches
<1>. QED
  BY <1>1, <1>2, <1>3

LEMMA NextIInv == IInv /\ [Next]_vars => IInv'
<1>. SUFFICES ASSUME IInv, [Next]_vars PROVE IInv'
  OBVIOUS
<1>1. CASE UNCHANGED vars
  BY <1>1 DEF vars, auth, IInv, TypeOK, FramesMatch, StateMatchesSocket,
              SessionMatches, WaitersMatch, With
<1>. QED
  BY <1>1, CallIInv, SessionIInv, SocketIInv, CloseIInv DEF Next

\* The invariant says what the runs check of every state.
LEMMA IInvImplies == IInv => TypeOK /\ SessionTruthful /\ NoStrandedWaiter
<1>. SUFFICES ASSUME IInv PROVE TypeOK /\ SessionTruthful /\ NoStrandedWaiter
  OBVIOUS
<1>1. SessionTruthful
  BY DEF IInv, SessionTruthful, SessionMatches
<1>2. NoStrandedWaiter
  BY DEF IInv, NoStrandedWaiter, WaitersMatch, StateMatchesSocket, TypeOK
<1>. QED
  BY <1>1, <1>2 DEF IInv

----------------------------------------------------------------------------
(* The refinement *)

\* What the caller of a call sees: waiting and pending look the same.
Seen == [c \in Calls |-> IF call[c] \in {"waiting", "pending"} THEN "running" ELSE call[c]]
Executed == {c \in Calls : frame[c] = "executed"}

\* A step that executes no frame is a step of Rpc, or none, if it moves each
\* call the way Progress allows.
LEMMA ProgressStep ==
  ASSUME IInv, IInv', frame' = frame \/ Executed' = Executed,
         \A c \in Calls :
           \/ call'[c] = call[c]
           \/ call[c] = "new" /\ call'[c] \in {"waiting", "pending", "refused"}
           \/ /\ call[c] \in {"waiting", "pending"}
              /\ call'[c] \in {"waiting", "pending"} \union Outcomes
  PROVE  RpcRefinement!Progress
<1>1. Executed' = Executed
  BY DEF Executed
<1>2. Seen' \in [Calls -> RpcRefinement!Statuses]
  BY DEF IInv, TypeOK, Seen, Outcomes, RpcRefinement!Statuses, RpcRefinement!Outcomes
<1>3. ASSUME NEW c \in Calls
      PROVE  \/ Seen'[c] = Seen[c]
             \/ Seen[c] = "new" /\ Seen'[c] \in {"running", "refused"}
             \/ /\ Seen[c] = "running" /\ Seen'[c] \in Outcomes
                /\ RpcRefinement!MayEnd(c, Seen'[c])
  <2>1. CASE call[c] \in {"waiting", "pending"} /\ call'[c] \in Outcomes
    <3>1. Seen[c] = "running" /\ Seen'[c] = call'[c]
      BY <2>1 DEF Seen, Outcomes
    <3>2. RpcRefinement!MayEnd(c, call'[c])
      BY <1>1, <2>1 DEF IInv, FramesMatch, Executed, Outcomes, RpcRefinement!MayEnd
    <3>. QED
      BY <2>1, <3>1, <3>2
  <2>2. CASE ~(call[c] \in {"waiting", "pending"} /\ call'[c] \in Outcomes)
    BY <2>2 DEF Seen
  <2>. QED
    BY <2>1, <2>2
<1>. QED
  BY <1>1, <1>2, <1>3 DEF Seen, Executed, Calls, Outcomes, RpcRefinement!Progress,
       RpcRefinement!Calls, RpcRefinement!Outcomes

\* The exchange executes a frame at most once, and only one whose caller has
\* not been told that there was no effect.
LEMMA ServeStep ==
  ASSUME IInv, NEW c \in Calls, Serve(c)
  PROVE  \/ RpcRefinement!Execute(c)
         \/ Seen' = Seen /\ Executed' = Executed
<1>1. Seen' = Seen
  BY DEF Serve, Seen
<1>2. CASE frame' = [frame EXCEPT ![c] = "rejected"]
  BY <1>1, <1>2 DEF IInv, TypeOK, Serve, Executed
<1>3. CASE frame' = [frame EXCEPT ![c] = "executed"]
  <2>1. c \notin Executed /\ Executed' = Executed \union {c}
    BY <1>3 DEF IInv, TypeOK, Serve, Executed
  <2>2. call[c] \in {"pending", "retryable", "unknown"}
    BY DEF IInv, TypeOK, FramesMatch, Serve, Outcomes
  <2>3. \/ Seen[c] \in {"running", "unknown"}
        \/ Seen[c] = "retryable" /\ c \in Reads
    BY <2>2 DEF IInv, FramesMatch, Seen
  <2>. QED
    BY <1>1, <2>1, <2>3 DEF Seen, Executed, RpcRefinement!Execute
<1>. QED
  BY <1>2, <1>3 DEF Serve

\* Every step is a step of Rpc or leaves what Rpc sees alone.
LEMMA RpcStep ==
  ASSUME IInv, IInv', [Next]_vars
  PROVE  [RpcRefinement!Next]_(RpcRefinement!vars)
<1>1. CASE UNCHANGED vars
  BY <1>1 DEF vars, Seen, Executed, RpcRefinement!vars
<1>2. ASSUME NEW c \in Calls, Serve(c)
      PROVE  [RpcRefinement!Next]_(RpcRefinement!vars)
  BY <1>2, ServeStep DEF Seen, Executed, Calls, RpcRefinement!Calls, RpcRefinement!Next,
       RpcRefinement!vars
<1>3. ASSUME NEW c \in Calls, CallStep(c), ~Serve(c)
      PROVE  RpcRefinement!Progress
  <2>1. \A d \in Calls : d # c => call'[d] = call[d]
    BY <1>3 DEF IInv, TypeOK, CallStep, RequestSent, RequestRefused, RequestWaits,
         WaitTimeout, RequestTimeout, Answer, Send
  <2>2. \/ call[c] = "new" /\ call'[c] \in {"waiting", "pending", "refused"}
        \/ call[c] \in {"waiting", "pending"} /\ call'[c] \in Outcomes
    BY <1>3 DEF IInv, TypeOK, CallStep, RequestSent, RequestRefused, RequestWaits,
         WaitTimeout, RequestTimeout, Answer, Send, Outcomes, LostOutcome
  <2>3. Executed' = Executed
    BY <1>3 DEF IInv, TypeOK, FramesMatch, Executed, CallStep, RequestSent, RequestRefused,
         RequestWaits, WaitTimeout, RequestTimeout, Answer, Send
  <2>. QED
    BY <2>1, <2>2, <2>3, ProgressStep
<1>4. CASE LogonSucceeds \/ SocketOpens
  <2>1. \A c \in Calls : \/ call'[c] = call[c]
                         \/ call[c] = "waiting" /\ call'[c] = "pending"
    BY <1>4 DEF LogonSucceeds, SocketOpens, Send, With
  <2>2. Executed' = Executed
    BY <1>4 DEF IInv, TypeOK, FramesMatch, LogonSucceeds, SocketOpens, Send, With, Executed
  <2>. QED
    BY <2>1, <2>2, ProgressStep DEF RpcRefinement!Next
<1>5. CASE Close \/ LogonFails \/ SocketLost \/ SocketLostInLogon
  <2>1. FailEverything /\ frame' = frame
    BY <1>5 DEF Close, LogonFails, SocketLost, SocketLostInLogon
  <2>2. \A c \in Calls : \/ call'[c] = call[c]
                         \/ call[c] \in {"waiting", "pending"} /\ call'[c] \in Outcomes
    BY <2>1 DEF FailEverything, LostOutcome, Outcomes
  <2>. QED
    BY <2>1, <2>2, ProgressStep DEF RpcRefinement!Next
<1>6. CASE ServeLogon \/ Logout \/ ServeLogout \/ LogoutAnswered \/ LogoutTimeout
           \/ SocketClosing \/ DelayEnds
  BY <1>6 DEF ServeLogon, Logout, ServeLogout, LogoutAnswered, LogoutTimeout,
       SocketClosing, DelayEnds, Seen, Executed, RpcRefinement!vars
<1>. QED
  BY <1>1, <1>2, <1>3, <1>4, <1>5, <1>6 DEF Next, SessionStep, SocketStep, RpcRefinement!Next

----------------------------------------------------------------------------
(* The theorems *)

\* Every state the client reaches satisfies the invariant.
THEOREM ClientInvariant == Spec => []IInv
<1>. QED
  BY InitIInv, NextIInv, PTL DEF Spec

\* The client's state, socket, session and calls keep their types.
THEOREM ClientTypeCorrect == Spec => []TypeOK
<1>. QED
  BY ClientInvariant, IInvImplies, PTL

\* A client that leaves out signatures talks to a socket the server regards as
\* logged on.
THEOREM TruthfulSession == Spec => []SessionTruthful
<1>. QED
  BY ClientInvariant, IInvImplies, PTL

\* No caller waits for a connection that nobody will open or fail.
THEOREM NoneStranded == Spec => []NoStrandedWaiter
<1>. QED
  BY ClientInvariant, IInvImplies, PTL

\* The client implements the remote procedure call Rpc promises: what a caller
\* is told is true and final, whatever connections, logons and timers do.
THEOREM Refinement == Spec => ImplementsRpc
<1>1. Init => RpcRefinement!Init
  BY DEF Init, Calls, RpcRefinement!Init, RpcRefinement!Calls
<1>2. IInv /\ IInv' /\ [Next]_vars => [RpcRefinement!Next]_(RpcRefinement!vars)
  BY RpcStep
<1>. QED
  BY <1>1, <1>2, ClientInvariant, PTL DEF Spec, ImplementsRpc, RpcRefinement!Spec
=============================================================================
