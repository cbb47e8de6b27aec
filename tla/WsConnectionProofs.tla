------------------------- MODULE WsConnectionProofs -------------------------
(***************************************************************************)
(* Proofs about WsConnection for every bound: its type invariant, that one *)
(* socket carries the connection, that the state tells the truth, and that *)
(* a rotation never interrupts an open connection.                         *)
(***************************************************************************)
EXTENDS WsConnection, SequenceTheorems, TLAPS

\* What holds of the sockets as long as no connection was lost while its
\* replacement was opening.
Tidy ==
  /\ NoOrphan
  /\ pendingToken = pendingSocket
  /\ pendingToken # NoSocket =>
       /\ pendingToken # active
       /\ sockets[pendingToken].phase = "connecting"
       /\ sockets[pendingToken].purpose = "rotation"
       /\ state = "OPEN"
  /\ active # NoSocket /\ sockets[active].phase = "connecting" =>
       /\ sockets[active].purpose = "primary"
       /\ state = "CONNECTING"
  /\ reconnectTimer => /\ state = "RECONNECTING"
                       /\ active # NoSocket => ~Alive(active)
  /\ state \in {"IDLE", "CLOSED"} => active = NoSocket

\* What holds of the state as long as, besides, there always was a URL.
Truthful ==
  /\ state = "OPEN" => active # NoSocket /\ sockets[active].phase = "open"
  /\ state = "CONNECTING" => active # NoSocket /\ sockets[active].phase = "connecting"
  /\ state = "RECONNECTING" => reconnectTimer

SocketInv ==
  /\ SocketsOK
  /\ faults["race"] = 0 => Tidy
  /\ Calm => Truthful

\* What holds of the timers as long as every rotation found a URL.
TimerInv ==
  /\ TimersOK
  /\ state = "OPEN" /\ faults["nourl"] = 0 => LookedAfter

IInv == SocketInv /\ TimerInv

----------------------------------------------------------------------------
(* The operators on the sequence of sockets *)

\* retireSocket changes phases only, and only of live sockets.
LEMMA RetiredFacts ==
  ASSUME NEW gone, sockets \in Seq(Sockets)
  PROVE  /\ Retired(gone) \in Seq(Sockets)
         /\ DOMAIN Retired(gone) = DOMAIN sockets
         /\ Len(Retired(gone)) = Len(sockets)
         /\ \A t \in DOMAIN sockets :
              /\ Retired(gone)[t].purpose = sockets[t].purpose
              /\ Retired(gone)[t].phase =
                   IF t \in gone /\ Alive(t) THEN "retired" ELSE sockets[t].phase
<1>. DEFINE r(t) == IF t \in gone /\ Alive(t) THEN [sockets[t] EXCEPT !.phase = "retired"]
                    ELSE sockets[t]
<1>1. DOMAIN sockets = 1 .. Len(sockets) /\ Len(sockets) \in Nat
  OBVIOUS
<1>2. \A t \in 1 .. Len(sockets) : sockets[t] \in Sockets
  BY ElementOfSeq
<1>3. \A t \in 1 .. Len(sockets) : r(t) \in Sockets
  BY <1>2 DEF Sockets, Phases
<1>4. Retired(gone) = [t \in 1 .. Len(sockets) |-> r(t)]
  BY <1>1 DEF Retired
<1>5. Retired(gone) \in Seq(Sockets)
  BY <1>1, <1>3, <1>4, IsASeq
<1>6. DOMAIN Retired(gone) = DOMAIN sockets
  BY <1>1, <1>4
<1>7. Len(Retired(gone)) = Len(sockets)
  BY <1>1, <1>5, <1>6
<1>8. \A t \in DOMAIN sockets :
        /\ Retired(gone)[t].purpose = sockets[t].purpose
        /\ Retired(gone)[t].phase =
             IF t \in gone /\ Alive(t) THEN "retired" ELSE sockets[t].phase
  BY <1>1, <1>2, <1>4 DEF Sockets
<1>. QED
  BY <1>5, <1>6, <1>7, <1>8

\* A socket event changes the phase of its socket.
LEMMA MovedFacts ==
  ASSUME sockets \in Seq(Sockets), NEW t \in DOMAIN sockets, NEW phase \in Phases
  PROVE  /\ Moved(t, phase) \in Seq(Sockets)
         /\ DOMAIN Moved(t, phase) = DOMAIN sockets
         /\ Moved(t, phase)[t].phase = phase
         /\ Moved(t, phase)[t].purpose = sockets[t].purpose
         /\ \A u \in DOMAIN sockets \ {t} : Moved(t, phase)[u] = sockets[u]
<1>1. t \in 1 .. Len(sockets) /\ DOMAIN sockets = 1 .. Len(sockets)
  OBVIOUS
<1>2. sockets[t] \in Sockets
  BY <1>1, ElementOfSeq
<1>3. [sockets[t] EXCEPT !.phase = phase] \in Sockets
  BY <1>2 DEF Sockets
<1>4. Moved(t, phase) = [sockets EXCEPT ![t] = [sockets[t] EXCEPT !.phase = phase]]
  BY DEF Moved
<1>5. Moved(t, phase) \in Seq(Sockets)
  BY <1>1, <1>3, <1>4, ExceptSeq
<1>. QED
  BY <1>1, <1>2, <1>4, <1>5 DEF Sockets

\* A new socket comes last and is connecting.
LEMMA NewSocketFacts ==
  ASSUME NEW socks \in Seq(Sockets), NEW purpose \in {"primary", "rotation"},
         NewSocket(socks, purpose)
  PROVE  /\ sockets' \in Seq(Sockets)
         /\ DOMAIN sockets' = DOMAIN socks \union {Len(socks) + 1}
         /\ Len(socks) + 1 \notin DOMAIN socks
         /\ Len(socks) + 1 # NoSocket
         /\ sockets'[Len(socks) + 1] = [phase |-> "connecting", purpose |-> purpose]
         /\ \A t \in DOMAIN socks : sockets'[t] = socks[t]
<1>. DEFINE new == [phase |-> "connecting", purpose |-> purpose]
<1>1. new \in Sockets
  BY DEF Sockets, Phases
<1>2. sockets' = Append(socks, new)
  BY DEF NewSocket
<1>. HIDE DEF new
<1>3. /\ sockets' \in Seq(Sockets)
      /\ Len(sockets') = Len(socks) + 1
      /\ sockets'[Len(socks) + 1] = new
      /\ \A t \in 1 .. Len(socks) : sockets'[t] = socks[t]
  BY <1>1, <1>2, AppendProperties
<1>4. /\ DOMAIN socks = 1 .. Len(socks)
      /\ DOMAIN sockets' = 1 .. Len(sockets')
      /\ Len(socks) \in Nat
  BY <1>3
<1>. QED
  BY <1>3, <1>4 DEF new, NoSocket

\* A fault or a call is counted under its kind.
LEMMA FaultFacts ==
  ASSUME faults \in [FaultKinds -> Nat], NEW f \in FaultKinds, NEW bound, Fault(f, bound)
  PROVE  /\ faults' \in [FaultKinds -> Nat]
         /\ faults'[f] = faults[f] + 1
         /\ \A g \in FaultKinds \ {f} : faults'[g] = faults[g]
  BY DEF Fault

\* Fewer faults before than after: what holds until the first one held before.
LEMMA FaultsGrow ==
  ASSUME faults \in [FaultKinds -> Nat], NEW f \in FaultKinds, NEW bound, Fault(f, bound)
  PROVE  /\ faults'["race"] = 0 => faults["race"] = 0 /\ f # "race"
         /\ Calm' => Calm /\ f \notin {"race", "nourl"}
<1>1. \A g \in FaultKinds : faults[g] \in Nat
  OBVIOUS
<1>. QED
  BY <1>1, FaultFacts DEF Calm, FaultKinds

\* Retiring the active and the pending socket leaves no live one.
LEMMA RetiringAll ==
  ASSUME SocketsOK, Tidy, NEW t \in DOMAIN sockets
  PROVE  Retired({active, pendingSocket})[t].phase \notin {"connecting", "open"}
<1>1. sockets \in Seq(Sockets)
  BY DEF SocketsOK
<1>2. Alive(t) => t \in {active, pendingSocket}
  BY DEF Tidy, NoOrphan, Orphaned, IsAuthorized
<1>. QED
  BY <1>1, <1>2, RetiredFacts DEF Alive

----------------------------------------------------------------------------
(* Steps that several actions share *)

\* A new primary socket keeps the types.
LEMMA OpenPrimaryType ==
  ASSUME NEW socks \in Seq(Sockets), OpenPrimarySocket(socks),
         pendingSocket' \in {NoSocket} \union DOMAIN socks,
         reconnectTimer' \in BOOLEAN,
         faults' \in [FaultKinds -> Nat]
  PROVE  SocketsOK'
<1>1. NewSocket(socks, "primary")
  BY DEF OpenPrimarySocket
<1>2. /\ sockets' \in Seq(Sockets)
      /\ DOMAIN sockets' = DOMAIN socks \union {Len(socks) + 1}
  BY <1>1, NewSocketFacts
<1>. QED
  BY <1>2 DEF SocketsOK, OpenPrimarySocket, States

\* A new primary socket next to none that is alive is the only connection.
LEMMA OpenPrimaryTidy ==
  ASSUME NEW socks \in Seq(Sockets), OpenPrimarySocket(socks),
         \A t \in DOMAIN socks : socks[t].phase \notin {"connecting", "open"},
         pendingSocket' = NoSocket,
         reconnectTimer' = FALSE
  PROVE  Tidy' /\ Truthful'
<1>1. NewSocket(socks, "primary")
  BY DEF OpenPrimarySocket
<1>. DEFINE new == Len(socks) + 1
<1>2. /\ DOMAIN sockets' = DOMAIN socks \union {new}
      /\ new # NoSocket
      /\ sockets'[new] = [phase |-> "connecting", purpose |-> "primary"]
      /\ \A t \in DOMAIN socks : sockets'[t] = socks[t]
  BY <1>1, NewSocketFacts
<1>3. active' = new /\ pendingToken' = NoSocket /\ state' = "CONNECTING"
  BY DEF OpenPrimarySocket
<1>. HIDE DEF new
<1>4. NoOrphan'
  BY <1>2, <1>3 DEF NoOrphan, Orphaned, Alive, IsAuthorized
<1>5. Tidy'
  BY <1>2, <1>3, <1>4 DEF Tidy
<1>6. Truthful'
  BY <1>2, <1>3 DEF Truthful
<1>. QED
  BY <1>5, <1>6

\* With all sockets retired and none taken over there is nothing to keep.
LEMMA AllRetired ==
  ASSUME SocketsOK,
         sockets' = Retired({active, pendingSocket}),
         active' = NoSocket, pendingSocket' = NoSocket, pendingToken' = NoSocket,
         reconnectTimer' = FALSE,
         state' \in States,
         faults' \in [FaultKinds -> Nat]
  PROVE  SocketsOK' /\ (Tidy => Tidy')
<1>1. sockets \in Seq(Sockets)
  BY DEF SocketsOK
<1>2. sockets' \in Seq(Sockets) /\ DOMAIN sockets' = DOMAIN sockets
  BY <1>1, RetiredFacts
<1>3. SocketsOK'
  BY <1>2 DEF SocketsOK
<1>4. ASSUME Tidy PROVE NoOrphan'
  BY <1>2, <1>4, RetiringAll DEF NoOrphan, Orphaned, Alive
<1>5. ASSUME Tidy PROVE Tidy'
  BY <1>4, <1>5 DEF Tidy
<1>. QED
  BY <1>3, <1>5

\* A replacement of the connection: reconnect() and the liveness interval.
LEMMA ReplaceSocketKeeps ==
  ASSUME SocketsOK, ReplaceSocket, faults' \in [FaultKinds -> Nat]
  PROVE  SocketsOK' /\ (Tidy => Tidy' /\ Truthful')
<1>. DEFINE socks == Retired({active, pendingSocket})
<1>1. sockets \in Seq(Sockets)
  BY DEF SocketsOK
<1>2. socks \in Seq(Sockets) /\ DOMAIN socks = DOMAIN sockets
  BY <1>1, RetiredFacts
<1>3. /\ OpenPrimarySocket(socks)
      /\ pendingSocket' = NoSocket
      /\ reconnectTimer' = FALSE
  BY DEF ReplaceSocket
<1>4. Tidy => \A t \in DOMAIN socks : socks[t].phase \notin {"connecting", "open"}
  BY <1>2, RetiringAll
<1>. HIDE DEF socks
<1>5. SocketsOK'
  BY <1>2, <1>3, OpenPrimaryType
<1>6. Tidy => Tidy' /\ Truthful'
  BY <1>2, <1>3, <1>4, OpenPrimaryTidy
<1>. QED
  BY <1>5, <1>6

----------------------------------------------------------------------------
(* The invariant *)

\* The connection that was never used satisfies the invariant.
LEMMA InitSocketInv == Init => SocketInv
<1>. SUFFICES ASSUME Init PROVE SocketInv
  OBVIOUS
<1>1. sockets \in Seq(Sockets) /\ DOMAIN sockets = {}
  BY EmptySeq DEF Init
<1>2. SocketsOK
  BY <1>1 DEF Init, SocketsOK, States, FaultKinds
<1>3. Tidy
  BY <1>1 DEF Init, Tidy, NoOrphan
<1>4. Truthful
  BY DEF Init, Truthful
<1>. QED
  BY <1>2, <1>3, <1>4 DEF SocketInv

\* Calls and timers keep the invariant: connect() and the reconnect timer find
\* no live socket, the others retire what they replace.
LEMMA CallSocketInv ==
  ASSUME SocketInv,
         \/ Connect \/ Close \/ Reconnect \/ ReconnectNoUrl \/ Stale \/ Rotate
         \/ RotationTimerIdle \/ RotationTimerNoUrl
         \/ ReconnectTimerFires \/ ReconnectTimerNoUrl
  PROVE  SocketInv'
<1>. USE DEF SocketInv
<1>1. SocketsOK /\ sockets \in Seq(Sockets) /\ faults \in [FaultKinds -> Nat]
  BY DEF SocketsOK
<1>2. CASE Connect
  <2>1. /\ Fault("call", MaxCalls)
        /\ OpenPrimarySocket(sockets)
        /\ state \in {"IDLE", "CLOSED"}
        /\ UNCHANGED <<pendingSocket, reconnectTimer>>
    BY <1>2 DEF Connect
  <2>2. faults' \in [FaultKinds -> Nat] /\ (faults'["race"] = 0 => faults["race"] = 0)
    BY <1>1, <2>1, FaultFacts, FaultsGrow DEF FaultKinds
  <2>3. SocketsOK'
    BY <1>1, <2>1, <2>2, OpenPrimaryType DEF SocketsOK
  <2>4. ASSUME Tidy PROVE Tidy' /\ Truthful'
    <3>1. active = NoSocket /\ pendingToken = NoSocket /\ pendingSocket = NoSocket
          /\ reconnectTimer = FALSE
      BY <1>1, <2>1, <2>4 DEF Tidy, SocketsOK
    <3>2. \A t \in DOMAIN sockets : t # NoSocket
      BY <1>1 DEF NoSocket
    <3>3. \A t \in DOMAIN sockets : sockets[t].phase \notin {"connecting", "open"}
      BY <2>4, <3>1, <3>2 DEF Tidy, NoOrphan, Orphaned, Alive, IsAuthorized
    <3>. QED
      BY <1>1, <2>1, <3>1, <3>3, OpenPrimaryTidy
  <2>. QED
    BY <2>2, <2>3, <2>4 DEF Calm
<1>3. CASE Close
  <2>1. faults' \in [FaultKinds -> Nat] /\ (faults'["race"] = 0 => faults["race"] = 0)
    BY <1>1, <1>3, FaultFacts, FaultsGrow DEF Close, FaultKinds
  <2>2. SocketsOK' /\ (Tidy => Tidy')
    BY <1>1, <1>3, <2>1, AllRetired DEF Close, States
  <2>3. Truthful'
    BY <1>3 DEF Close, Truthful
  <2>. QED
    BY <2>1, <2>2, <2>3
<1>4. CASE Reconnect
  <2>1. faults' \in [FaultKinds -> Nat] /\ (faults'["race"] = 0 => faults["race"] = 0)
    BY <1>1, <1>4, FaultFacts, FaultsGrow DEF Reconnect, FaultKinds
  <2>2. SocketsOK' /\ (Tidy => Tidy' /\ Truthful')
    BY <1>1, <1>4, <2>1, ReplaceSocketKeeps DEF Reconnect
  <2>. QED
    BY <2>1, <2>2 DEF Calm
<1>5. CASE ReconnectNoUrl
  <2>1. /\ faults' \in [FaultKinds -> Nat]
        /\ faults'["race"] = 0 => faults["race"] = 0
        /\ ~Calm'
    BY <1>1, <1>5, FaultFacts, FaultsGrow DEF ReconnectNoUrl, FaultKinds
  <2>2. SocketsOK' /\ (Tidy => Tidy')
    BY <1>1, <1>5, <2>1, AllRetired DEF ReconnectNoUrl, SocketsOK
  <2>. QED
    BY <2>1, <2>2
<1>6. CASE Stale
  <2>1. faults' \in [FaultKinds -> Nat] /\ (faults'["race"] = 0 => faults["race"] = 0)
    BY <1>1, <1>6, FaultFacts, FaultsGrow DEF Stale, FaultKinds
  <2>2. SocketsOK' /\ (Tidy => Tidy' /\ Truthful')
    BY <1>1, <1>6, <2>1, ReplaceSocketKeeps DEF Stale
  <2>. QED
    BY <2>1, <2>2 DEF Calm
<1>7. CASE Rotate
  <2>. DEFINE new == Len(sockets) + 1
  <2>1. /\ state = "OPEN"
        /\ pendingSocket = NoSocket
        /\ Fault("rotation", MaxRotations)
        /\ NewSocket(sockets, "rotation")
        /\ pendingSocket' = new
        /\ pendingToken' = new
        /\ UNCHANGED <<state, active, reconnectTimer>>
    BY <1>7 DEF Rotate
  <2>2. /\ faults' \in [FaultKinds -> Nat]
        /\ faults'["race"] = 0 => faults["race"] = 0
        /\ Calm' => Calm
    BY <1>1, <2>1, FaultFacts, FaultsGrow DEF FaultKinds
  <2>3. /\ sockets' \in Seq(Sockets)
        /\ DOMAIN sockets' = DOMAIN sockets \union {new}
        /\ new \notin DOMAIN sockets
        /\ new # NoSocket
        /\ sockets'[new] = [phase |-> "connecting", purpose |-> "rotation"]
        /\ \A t \in DOMAIN sockets : sockets'[t] = sockets[t]
    BY <1>1, <2>1, NewSocketFacts
  <2>. HIDE DEF new
  <2>4. active \in {NoSocket} \union DOMAIN sockets
    BY <1>1 DEF SocketsOK
  <2>5. SocketsOK'
    BY <1>1, <2>1, <2>2, <2>3 DEF SocketsOK
  <2>6. ASSUME Tidy PROVE Tidy'
    <3>1. pendingToken = NoSocket
      BY <1>1, <2>1, <2>6 DEF Tidy
    <3>2. \A t \in DOMAIN sockets : Alive(t) => t = active
      <4>1. \A t \in DOMAIN sockets : t # NoSocket
        BY <1>1 DEF NoSocket
      <4>. QED
        BY <2>6, <3>1, <4>1 DEF Tidy, NoOrphan, Orphaned, IsAuthorized
    <3>3. NoOrphan'
      BY <2>1, <2>3, <3>2 DEF NoOrphan, Orphaned, IsAuthorized, Alive
    <3>. QED
      BY <2>1, <2>3, <2>4, <2>6, <3>3 DEF Tidy, Alive
  <2>7. ASSUME Truthful PROVE Truthful'
    BY <2>1, <2>3, <2>4, <2>7 DEF Truthful
  <2>. QED
    BY <2>2, <2>5, <2>6, <2>7
<1>8. CASE ReconnectTimerFires
  <2>1. /\ reconnectTimer
        /\ reconnectTimer' = FALSE
        /\ OpenPrimarySocket(sockets)
        /\ UNCHANGED <<pendingSocket, faults>>
    BY <1>8 DEF ReconnectTimerFires
  <2>2. SocketsOK'
    BY <1>1, <2>1, OpenPrimaryType DEF SocketsOK
  <2>3. ASSUME Tidy PROVE Tidy' /\ Truthful'
    <3>1. /\ state = "RECONNECTING"
          /\ pendingToken = NoSocket /\ pendingSocket = NoSocket
          /\ active # NoSocket => ~Alive(active)
      BY <1>1, <2>1, <2>3 DEF Tidy
    <3>2. \A t \in DOMAIN sockets : t # NoSocket
      BY <1>1 DEF NoSocket
    <3>3. \A t \in DOMAIN sockets : sockets[t].phase \notin {"connecting", "open"}
      BY <2>3, <3>1, <3>2 DEF Tidy, NoOrphan, Orphaned, Alive, IsAuthorized
    <3>. QED
      BY <1>1, <2>1, <3>1, <3>3, OpenPrimaryTidy
  <2>. QED
    BY <2>1, <2>2, <2>3 DEF Calm
<1>9. CASE ReconnectTimerNoUrl
  <2>1. /\ faults' \in [FaultKinds -> Nat]
        /\ faults'["race"] = 0 => faults["race"] = 0
        /\ ~Calm'
    BY <1>1, <1>9, FaultFacts, FaultsGrow DEF ReconnectTimerNoUrl, FaultKinds
  <2>2. reconnectTimer' = FALSE /\ UNCHANGED <<state, sockets, active, pendingSocket, pendingToken>>
    BY <1>9 DEF ReconnectTimerNoUrl, connection
  <2>3. SocketsOK'
    BY <1>1, <2>1, <2>2 DEF SocketsOK
  <2>4. Tidy => Tidy'
    BY <2>2 DEF Tidy, NoOrphan, Orphaned, Alive, IsAuthorized
  <2>. QED
    BY <2>1, <2>3, <2>4
<1>10. CASE RotationTimerIdle
  BY <1>10 DEF RotationTimerIdle, connection, SocketsOK, Calm, Tidy, Truthful,
               NoOrphan, Orphaned, Alive, IsAuthorized
<1>11. CASE RotationTimerNoUrl
  <2>1. /\ faults' \in [FaultKinds -> Nat]
        /\ faults'["race"] = 0 => faults["race"] = 0
        /\ ~Calm'
    BY <1>1, <1>11, FaultFacts, FaultsGrow DEF RotationTimerNoUrl, FaultKinds
  <2>2. UNCHANGED <<state, sockets, active, pendingSocket, pendingToken, reconnectTimer>>
    BY <1>11 DEF RotationTimerNoUrl, connection
  <2>3. SocketsOK'
    BY <1>1, <2>1, <2>2 DEF SocketsOK
  <2>4. Tidy => Tidy'
    BY <2>2 DEF Tidy, NoOrphan, Orphaned, Alive, IsAuthorized
  <2>. QED
    BY <2>1, <2>3, <2>4
<1>. QED
  BY <1>2, <1>3, <1>4, <1>5, <1>6, <1>7, <1>8, <1>9, <1>10, <1>11

\* The events of a socket keep the invariant: a socket that is replaced while
\* it is alive is the one the rotation retires, and no other socket is heard.
LEMMA EventSocketInv ==
  ASSUME SocketInv, NEW t \in DOMAIN sockets, SocketEvent(t)
  PROVE  SocketInv'
<1>. USE DEF SocketInv
<1>1. SocketsOK /\ sockets \in Seq(Sockets) /\ faults \in [FaultKinds -> Nat]
  BY DEF SocketsOK
<1>2. t # NoSocket /\ (\A u \in DOMAIN sockets : u # NoSocket)
  BY <1>1 DEF NoSocket
<1>3. /\ Moved(t, "open") \in Seq(Sockets)
      /\ DOMAIN Moved(t, "open") = DOMAIN sockets
      /\ Moved(t, "open")[t].phase = "open"
      /\ \A u \in DOMAIN sockets \ {t} : Moved(t, "open")[u] = sockets[u]
  BY <1>1, MovedFacts DEF Phases
<1>4. /\ Moved(t, "closed") \in Seq(Sockets)
      /\ DOMAIN Moved(t, "closed") = DOMAIN sockets
      /\ Moved(t, "closed")[t].phase = "closed"
      /\ \A u \in DOMAIN sockets \ {t} : Moved(t, "closed")[u] = sockets[u]
  BY <1>1, MovedFacts DEF Phases
<1>5. CASE OpensUnheard(t)
  <2>1. /\ Alive(t) /\ ~IsAuthorized(t)
        /\ sockets' = Moved(t, "open")
        /\ UNCHANGED <<state, active, pendingSocket, pendingToken, reconnectTimer, faults>>
    BY <1>5 DEF OpensUnheard, Alive, connection
  <2>2. SocketsOK'
    BY <1>1, <1>3, <2>1 DEF SocketsOK
  <2>3. ~Tidy
    BY <2>1 DEF Tidy, NoOrphan, Orphaned
  <2>. QED
    BY <2>1, <2>2, <2>3 DEF Calm
<1>6. CASE PrimaryOpens(t)
  <2>1. /\ sockets[t].phase = "connecting"
        /\ sockets[t].purpose = "primary"
        /\ IsAuthorized(t)
        /\ sockets' = Moved(t, "open")
        /\ active' = t /\ pendingToken' = NoSocket /\ pendingSocket' = NoSocket
        /\ state' = "OPEN"
        /\ UNCHANGED <<reconnectTimer, faults>>
    BY <1>6 DEF PrimaryOpens
  <2>2. SocketsOK'
    BY <1>1, <1>3, <2>1 DEF SocketsOK, States
  <2>3. ASSUME Tidy PROVE Tidy'
    <3>1. t = active
      BY <1>2, <2>1, <2>3 DEF Tidy, IsAuthorized
    <3>2. state = "CONNECTING" /\ pendingToken = NoSocket
      BY <1>2, <2>1, <2>3, <3>1 DEF Tidy
    <3>3. NoOrphan'
      BY <1>3, <2>1, <2>3, <3>1, <3>2 DEF Tidy, NoOrphan, Orphaned, Alive, IsAuthorized, NoSocket
    <3>. QED
      BY <1>2, <1>3, <2>1, <2>3, <3>2, <3>3 DEF Tidy
  <2>4. Truthful'
    BY <1>2, <1>3, <2>1 DEF Truthful
  <2>. QED
    BY <2>1, <2>2, <2>3, <2>4
<1>7. CASE Rotated(t)
  <2>. DEFINE socks == Retired({active})
  <2>1. /\ sockets[t].phase = "connecting"
        /\ sockets[t].purpose = "rotation"
        /\ IsAuthorized(t)
        /\ sockets' = [socks EXCEPT ![t].phase = "open"]
        /\ active' = t /\ pendingToken' = NoSocket /\ pendingSocket' = NoSocket
        /\ state' = "OPEN"
        /\ UNCHANGED <<reconnectTimer, faults>>
    BY <1>7 DEF Rotated
  <2>2. /\ socks \in Seq(Sockets)
        /\ DOMAIN socks = DOMAIN sockets
        /\ \A u \in DOMAIN sockets :
             socks[u].phase = IF u = active /\ Alive(u) THEN "retired" ELSE sockets[u].phase
    BY <1>1, RetiredFacts
  <2>. HIDE DEF socks
  <2>3. sockets' = [socks EXCEPT ![t] = [socks[t] EXCEPT !.phase = "open"]]
    BY <2>1
  <2>4. t \in 1 .. Len(socks) /\ socks[t] \in Sockets
    BY <2>2, ElementOfSeq
  <2>5. [socks[t] EXCEPT !.phase = "open"] \in Sockets
    BY <2>4 DEF Sockets, Phases
  <2>6. sockets' \in Seq(Sockets)
    BY <2>2, <2>3, <2>4, <2>5, ExceptSeq
  <2>7. /\ DOMAIN sockets' = DOMAIN sockets
        /\ sockets'[t].phase = "open"
        /\ \A u \in DOMAIN sockets \ {t} : sockets'[u] = socks[u]
    BY <2>2, <2>3, <2>4 DEF Sockets
  <2>8. SocketsOK'
    BY <1>1, <2>1, <2>6, <2>7 DEF SocketsOK, States
  <2>9. ASSUME Tidy PROVE Tidy'
    <3>1. t = pendingToken /\ state = "OPEN"
      BY <1>2, <2>1, <2>9 DEF Tidy, IsAuthorized
    <3>2. NoOrphan'
      BY <2>1, <2>2, <2>7, <2>9, <3>1 DEF Tidy, NoOrphan, Orphaned, Alive, IsAuthorized
    <3>. QED
      BY <1>2, <2>1, <2>7, <2>9, <3>1, <3>2 DEF Tidy
  <2>10. Truthful'
    BY <1>2, <2>1, <2>7 DEF Truthful
  <2>. QED
    BY <2>1, <2>8, <2>9, <2>10
<1>8. CASE LostUnheard(t)
  <2>1. /\ Alive(t) /\ ~IsAuthorized(t)
        /\ sockets' = Moved(t, "closed")
        /\ UNCHANGED <<state, active, pendingSocket, pendingToken, reconnectTimer, faults>>
    BY <1>8 DEF LostUnheard, connection
  <2>2. SocketsOK'
    BY <1>1, <1>4, <2>1 DEF SocketsOK
  <2>3. ~Tidy
    BY <2>1 DEF Tidy, NoOrphan, Orphaned
  <2>. QED
    BY <2>1, <2>2, <2>3 DEF Calm
<1>9. CASE RotationFails(t)
  <2>1. /\ t = pendingToken
        /\ Fault("drop", MaxDrops)
        /\ sockets' = Moved(t, "closed")
        /\ pendingToken' = NoSocket /\ pendingSocket' = NoSocket
        /\ UNCHANGED <<state, active, reconnectTimer>>
    BY <1>9 DEF RotationFails
  <2>2. /\ faults' \in [FaultKinds -> Nat]
        /\ faults'["race"] = 0 => faults["race"] = 0
        /\ Calm' => Calm
    BY <1>1, <2>1, FaultFacts, FaultsGrow DEF FaultKinds
  <2>3. SocketsOK'
    BY <1>1, <1>4, <2>1, <2>2 DEF SocketsOK
  <2>4. ASSUME Tidy PROVE Tidy' /\ (Truthful => Truthful')
    <3>1. t # active
      BY <1>2, <2>1, <2>4 DEF Tidy
    <3>2. active \in {NoSocket} \union (DOMAIN sockets \ {t})
      BY <1>1, <3>1 DEF SocketsOK
    <3>3. NoOrphan'
      BY <1>4, <2>1, <2>4 DEF Tidy, NoOrphan, Orphaned, Alive, IsAuthorized
    <3>4. Tidy'
      BY <1>4, <2>1, <2>4, <3>2, <3>3 DEF Tidy, Alive
    <3>5. Truthful => Truthful'
      BY <1>4, <2>1, <3>2 DEF Truthful
    <3>. QED
      BY <3>4, <3>5
  <2>. QED
    BY <2>2, <2>3, <2>4 DEF Calm
<1>10. CASE ActiveLost(t)
  <2>1. /\ t = active /\ Alive(t)
        /\ sockets' = Moved(t, "closed")
        /\ ScheduleReconnect
        /\ UNCHANGED <<active, pendingSocket, pendingToken>>
    BY <1>10 DEF ActiveLost, connection
  <2>2. PICK f \in {"drop", "race"}, bound \in {MaxDrops, MaxRaces} :
           Fault(f, bound) /\ (f = "drop" => pendingToken = NoSocket)
    BY <1>10 DEF ActiveLost
  <2>3. /\ faults' \in [FaultKinds -> Nat]
        /\ faults'["race"] = 0 => faults["race"] = 0 /\ pendingToken = NoSocket
        /\ Calm' => faults'["race"] = 0
    BY <1>1, <2>2, FaultFacts, FaultsGrow DEF FaultKinds, Calm
  <2>4. SocketsOK'
    BY <1>1, <1>4, <2>1, <2>3 DEF SocketsOK, ScheduleReconnect, States
  <2>5. ASSUME Tidy, pendingToken = NoSocket PROVE Tidy' /\ Truthful'
    <3>1. reconnectTimer = FALSE
      BY <1>1, <1>2, <2>1, <2>5 DEF Tidy, SocketsOK
    <3>2. state' = "RECONNECTING" /\ reconnectTimer' = TRUE
      BY <2>1, <3>1 DEF ScheduleReconnect
    <3>3. NoOrphan'
      BY <1>4, <2>1, <2>5 DEF Tidy, NoOrphan, Orphaned, Alive, IsAuthorized
    <3>4. Tidy'
      BY <1>4, <2>1, <2>5, <3>2, <3>3 DEF Tidy, Alive
    <3>5. Truthful'
      BY <3>2 DEF Truthful
    <3>. QED
      BY <3>4, <3>5
  <2>. QED
    BY <2>3, <2>4, <2>5
<1>. QED
  BY <1>5, <1>6, <1>7, <1>8, <1>9, <1>10 DEF SocketEvent, Opens

----------------------------------------------------------------------------
(* The timers *)

\* Starting, clearing and expiring keep the handles on timers that run, and
\* what is started runs.
LEMMA TimerFacts ==
  ASSUME NEW timer \in Timers, NEW ms \in Nat
  PROVE  /\ Started(timer, ms) \in Timers
         /\ ms > 0 => Started(timer, ms).running > 0
         /\ Cleared(timer) \in Timers
         /\ timer.running > 0 => [running |-> timer.running - 1, held |-> FALSE] \in Timers
<1>1. timer.running \in Nat /\ timer.held \in BOOLEAN /\ (timer.held => timer.running > 0)
  BY DEF Timers
<1>2. Started(timer, ms) \in Timers /\ (ms > 0 => Started(timer, ms).running > 0)
  BY <1>1 DEF Started, Timers
<1>3. Cleared(timer) \in Timers
  BY <1>1 DEF Cleared, Timers
<1>4. timer.running > 0 => [running |-> timer.running - 1, held |-> FALSE] \in Timers
  BY <1>1 DEF Timers
<1>. QED
  BY <1>2, <1>3, <1>4

\* The counter of missing URLs never goes back.
LEMMA UrlFaultsGrow ==
  ASSUME faults \in [FaultKinds -> Nat], NEW f \in FaultKinds, NEW bound, Fault(f, bound)
  PROVE  faults'["nourl"] = 0 => faults["nourl"] = 0 /\ f # "nourl"
<1>1. faults["nourl"] \in Nat
  BY DEF FaultKinds
<1>. QED
  BY <1>1, FaultFacts DEF FaultKinds

\* A step that clears the timers leaves OPEN.
LEMMA ClearedTimerInv ==
  ASSUME TimersOK, ClearTimers, state' # "OPEN"
  PROVE  TimerInv'
BY TimerFacts, BoundsAssumption DEF TimersOK, ClearTimers, TimerInv

\* A step that starts both leaves an open connection looked after.
LEMMA StartedTimerInv ==
  ASSUME TimersOK, StartTimers
  PROVE  TimerInv'
BY TimerFacts, BoundsAssumption DEF TimersOK, StartTimers, TimerInv, LookedAfter

\* Every step keeps the timers: the last rotation timer goes only with a
\* rotation that is under way, with a missing URL, or with the connection.
LEMMA NextTimerInv ==
  ASSUME SocketsOK, TimerInv, Next
  PROVE  TimerInv'
<1>1. /\ TimersOK /\ rotationTimer \in Timers /\ livenessTimer \in Timers
      /\ faults \in [FaultKinds -> Nat]
      /\ RotationMs \in Nat
  BY BoundsAssumption DEF TimerInv, TimersOK, SocketsOK
<1>2. CASE Connect
  <2>1. state' = "CONNECTING" /\ UNCHANGED <<rotationTimer, livenessTimer>>
    BY <1>2 DEF Connect, OpenPrimarySocket, timers
  <2>. QED
    BY <1>1, <2>1 DEF TimerInv, TimersOK
<1>3. CASE Close
  BY <1>1, <1>3, ClearedTimerInv DEF Close
<1>4. CASE Reconnect \/ Stale
  BY <1>1, <1>4, ClearedTimerInv DEF Reconnect, Stale, ReplaceSocket, OpenPrimarySocket
<1>5. CASE ReconnectNoUrl
  <2>1. ClearTimers /\ faults'["nourl"] # 0
    BY <1>1, <1>5, UrlFaultsGrow DEF ReconnectNoUrl, FaultKinds
  <2>. QED
    BY <1>1, <2>1, TimerFacts, BoundsAssumption DEF TimersOK, ClearTimers, TimerInv
<1>6. CASE RotateNow \/ RotationTimerFires
  <2>1. /\ pendingSocket' = Len(sockets) + 1 /\ Len(sockets) \in Nat
        /\ state = "OPEN"
        /\ livenessTimer' = livenessTimer
        /\ Fault("rotation", MaxRotations)
    BY <1>6 DEF RotateNow, RotationTimerFires, Rotate, SocketsOK
  <2>2. rotationTimer' \in Timers
    BY <1>1, <1>6, TimerFacts DEF RotateNow, RotationTimerFires, RotationTimerExpires
  <2>3. pendingSocket' # NoSocket
    BY <2>1 DEF NoSocket
  <2>4. faults'["nourl"] = 0 => faults["nourl"] = 0
    BY <1>1, <2>1, UrlFaultsGrow DEF FaultKinds
  <2>. QED
    BY <1>1, <2>1, <2>2, <2>3, <2>4 DEF TimerInv, TimersOK, LookedAfter
<1>7. CASE RotationTimerIdle
  <2>1. /\ rotationTimer.running > 0
        /\ rotationTimer' = [running |-> rotationTimer.running - 1, held |-> FALSE]
        /\ state # "OPEN" \/ pendingSocket # NoSocket
        /\ UNCHANGED <<state, pendingSocket, livenessTimer, faults>>
    BY <1>7 DEF RotationTimerIdle, RotationTimerExpires, connection
  <2>2. rotationTimer' \in Timers
    BY <1>1, <2>1, TimerFacts
  <2>. QED
    BY <1>1, <2>1, <2>2 DEF TimerInv, TimersOK, LookedAfter
<1>8. CASE RotationTimerNoUrl
  <2>1. /\ rotationTimer.running > 0
        /\ rotationTimer' = [running |-> rotationTimer.running - 1, held |-> FALSE]
        /\ livenessTimer' = livenessTimer
        /\ faults'["nourl"] # 0
    BY <1>1, <1>8, UrlFaultsGrow DEF RotationTimerNoUrl, RotationTimerExpires, FaultKinds
  <2>2. rotationTimer' \in Timers
    BY <1>1, <2>1, TimerFacts
  <2>. QED
    BY <1>1, <2>1, <2>2 DEF TimerInv, TimersOK
<1>9. CASE ReconnectTimerFires
  <2>1. state' = "CONNECTING" /\ UNCHANGED <<rotationTimer, livenessTimer>>
    BY <1>9 DEF ReconnectTimerFires, OpenPrimarySocket, timers
  <2>. QED
    BY <1>1, <2>1 DEF TimerInv, TimersOK
<1>10. CASE ReconnectTimerNoUrl
  <2>1. faults'["nourl"] # 0 /\ UNCHANGED <<rotationTimer, livenessTimer>>
    BY <1>1, <1>10, UrlFaultsGrow DEF ReconnectTimerNoUrl, FaultKinds, timers
  <2>. QED
    BY <1>1, <2>1 DEF TimerInv, TimersOK
<1>11. ASSUME NEW t \in DOMAIN sockets, OpensUnheard(t) \/ LostUnheard(t) PROVE TimerInv'
  <2>1. UNCHANGED <<state, pendingSocket, rotationTimer, livenessTimer, faults>>
    BY <1>11 DEF OpensUnheard, LostUnheard, connection, timers
  <2>. QED
    BY <2>1 DEF TimerInv, TimersOK, LookedAfter
<1>12. ASSUME NEW t \in DOMAIN sockets, Opens(t) PROVE TimerInv'
  BY <1>1, <1>12, StartedTimerInv DEF Opens, PrimaryOpens, Rotated
<1>13. ASSUME NEW t \in DOMAIN sockets, RotationFails(t) PROVE TimerInv'
  <2>1. /\ rotationTimer' = Started(rotationTimer, RotationMs)
        /\ UNCHANGED <<state, livenessTimer>>
        /\ Fault("drop", MaxDrops)
    BY <1>13 DEF RotationFails
  <2>2. faults'["nourl"] = 0 => faults["nourl"] = 0
    BY <1>1, <2>1, UrlFaultsGrow DEF FaultKinds
  <2>3. rotationTimer' \in Timers /\ (RotationMs > 0 => rotationTimer'.running > 0)
    BY <1>1, <2>1, TimerFacts
  <2>. QED
    BY <1>1, <2>1, <2>2, <2>3 DEF TimerInv, TimersOK, LookedAfter
<1>14. ASSUME NEW t \in DOMAIN sockets, ActiveLost(t) PROVE TimerInv'
  <2>1. CASE ~reconnectTimer
    BY <1>1, <1>14, <2>1, ClearedTimerInv DEF ActiveLost, ScheduleReconnect
  <2>2. CASE reconnectTimer
    <3>1. UNCHANGED <<state, pendingSocket, rotationTimer, livenessTimer>>
      BY <1>14, <2>2 DEF ActiveLost, ScheduleReconnect, connection, timers
    <3>2. faults'["nourl"] = 0 => faults["nourl"] = 0
      BY <1>1, <1>14, UrlFaultsGrow DEF ActiveLost, FaultKinds
    <3>. QED
      BY <3>1, <3>2 DEF TimerInv, TimersOK, LookedAfter
  <2>. QED
    BY <2>1, <2>2
<1>. QED
  BY <1>2, <1>3, <1>4, <1>5, <1>6, <1>7, <1>8, <1>9, <1>10, <1>11, <1>12, <1>13, <1>14
     DEF Next, SocketEvent

\* A connection that was never used runs no timer.
LEMMA InitIInv == Init => IInv
<1>. SUFFICES ASSUME Init PROVE TimerInv
  BY InitSocketInv DEF IInv
<1>. QED
  BY DEF Init, TimerInv, TimersOK, Timers

\* Every step keeps the invariant.
LEMMA NextIInv == IInv /\ [Next]_vars => IInv'
<1>. SUFFICES ASSUME IInv, [Next]_vars PROVE IInv'
  OBVIOUS
<1>1. CASE UNCHANGED vars
  <2>1. SocketInv'
    BY <1>1 DEF vars, connection, IInv, SocketInv, SocketsOK, Calm, Tidy, Truthful,
                NoOrphan, Orphaned, Alive, IsAuthorized
  <2>2. TimerInv'
    BY <1>1 DEF vars, connection, timers, IInv, TimerInv, TimersOK, LookedAfter
  <2>. QED
    BY <2>1, <2>2 DEF IInv
<1>2. CASE Next
  <2>1. ASSUME NEW t \in DOMAIN sockets, SocketEvent(t) PROVE SocketInv'
    BY <2>1, EventSocketInv DEF IInv
  <2>2. ASSUME \/ Connect \/ Close \/ Reconnect \/ ReconnectNoUrl \/ Stale \/ Rotate
               \/ RotationTimerIdle \/ RotationTimerNoUrl
               \/ ReconnectTimerFires \/ ReconnectTimerNoUrl
        PROVE  SocketInv'
    BY <2>2, CallSocketInv DEF IInv
  <2>3. SocketInv'
    BY <1>2, <2>1, <2>2 DEF Next, RotateNow, RotationTimerFires
  <2>4. TimerInv'
    BY <1>2, NextTimerInv DEF IInv, SocketInv
  <2>. QED
    BY <2>3, <2>4 DEF IInv
<1>. QED
  BY <1>1, <1>2

\* The invariant says what the runs check of every state.
LEMMA IInvImplies == IInv => TypeOK /\ OneConnection /\ StateTruthful
<1>. SUFFICES ASSUME IInv PROVE TypeOK /\ OneConnection /\ StateTruthful
  OBVIOUS
<1>1. TypeOK /\ SocketsOK /\ OneConnection
  BY DEF IInv, SocketInv, TimerInv, TypeOK, OneConnection, Tidy
<1>2. ASSUME Calm PROVE Tidy /\ Truthful /\ (state = "OPEN" => LookedAfter)
  BY <1>2 DEF IInv, SocketInv, TimerInv, Calm
<1>3. ASSUME Tidy, state = "CLOSED", NEW t \in DOMAIN sockets PROVE ~Alive(t)
  <2>1. active = NoSocket /\ pendingToken = NoSocket
    BY <1>3 DEF Tidy
  <2>2. t # NoSocket
    BY <1>1 DEF SocketsOK, NoSocket
  <2>. QED
    BY <1>3, <2>1, <2>2 DEF Tidy, NoOrphan, Orphaned, IsAuthorized
<1>4. ASSUME Tidy, Truthful PROVE reconnectTimer <=> state = "RECONNECTING"
  BY <1>1, <1>4 DEF SocketsOK, Tidy, Truthful
<1>5. StateTruthful
  BY <1>2, <1>3, <1>4 DEF StateTruthful, Truthful, IsOpen
<1>. QED
  BY <1>1, <1>5

\* An open connection is interrupted by its own loss, by the user or by the
\* liveness check, and by nothing else.
LEMMA StepStaysOpen == IInv /\ [Next]_vars => [StaysOpen]_vars
<1>. SUFFICES ASSUME IInv, Next, state = "OPEN", state' # "OPEN", Calm
              PROVE  \/ faults'["call"] > faults["call"]
                     \/ faults'["stale"] > faults["stale"]
                     \/ sockets[active].phase = "open" /\ sockets'[active].phase = "closed"
  BY DEF StaysOpen
<1>1. SocketsOK /\ Tidy /\ Truthful
  BY DEF IInv, SocketInv, Calm
<1>2. faults \in [FaultKinds -> Nat] /\ \A f \in FaultKinds : faults[f] + 1 > faults[f]
  BY <1>1 DEF SocketsOK
<1>3. CASE Close \/ Reconnect
  BY <1>2, <1>3, FaultFacts DEF Close, Reconnect, FaultKinds
<1>4. CASE Stale
  BY <1>2, <1>4, FaultFacts DEF Stale, FaultKinds
<1>5. CASE \/ Connect \/ ReconnectNoUrl \/ RotateNow \/ RotationTimerFires
           \/ RotationTimerIdle \/ RotationTimerNoUrl \/ ReconnectTimerNoUrl
  BY <1>5 DEF Connect, ReconnectNoUrl, Rotate, RotateNow, RotationTimerFires,
              RotationTimerIdle, RotationTimerNoUrl, ReconnectTimerNoUrl
<1>6. CASE ReconnectTimerFires
  BY <1>1, <1>6 DEF ReconnectTimerFires, Tidy
<1>7. ASSUME NEW t \in DOMAIN sockets, SocketEvent(t)
      PROVE  sockets[active].phase = "open" /\ sockets'[active].phase = "closed"
  <2>1. ActiveLost(t)
    BY <1>7 DEF SocketEvent, Opens, OpensUnheard, PrimaryOpens, Rotated, LostUnheard, RotationFails
  <2>2. sockets \in Seq(Sockets)
    BY <1>1 DEF SocketsOK
  <2>3. sockets'[t].phase = "closed"
    BY <1>7, <2>1, <2>2, MovedFacts DEF ActiveLost, Phases
  <2>. QED
    BY <1>1, <2>1, <2>3 DEF ActiveLost, Truthful
<1>. QED
  BY <1>3, <1>4, <1>5, <1>6, <1>7 DEF Next

----------------------------------------------------------------------------
(* The theorems *)

\* Every state the connection reaches satisfies the invariant.
THEOREM ConnectionInvariant == Spec => []IInv
<1>. QED
  BY InitIInv, NextIInv, PTL DEF Spec

\* The state, the sockets and the tokens keep their types.
THEOREM ConnectionTypeCorrect == Spec => []TypeOK
<1>. QED
  BY ConnectionInvariant, IInvImplies, PTL

\* One socket carries the connection, and a second one exists only as the
\* replacement of a rotation, until a connection is lost during a rotation.
THEOREM OneSocket == Spec => []OneConnection
<1>. QED
  BY ConnectionInvariant, IInvImplies, PTL

\* state() of a connection says what its sockets and its timers are doing.
THEOREM TruthfulState == Spec => []StateTruthful
<1>. QED
  BY ConnectionInvariant, IInvImplies, PTL

\* No rotation, whether it succeeds or fails, interrupts an open connection.
THEOREM Gapless == Spec => GaplessRotation
<1>. QED
  BY ConnectionInvariant, StepStaysOpen, PTL DEF Spec, GaplessRotation
=============================================================================
