------------------------- MODULE UserSessionProofs --------------------------
(***************************************************************************)
(* Proofs about UserSession for every set of sessions and every limit and  *)
(* bound: its type invariant, that the running session is the one in       *)
(* charge, that nothing of a closed session comes back, and that no listen *)
(* key is left behind.                                                     *)
(***************************************************************************)
EXTENDS UserSession, TLAPS

\* A session that was not started has nothing.
IdleIsBlank ==
  \A s \in Sessions : status[s] = "idle" =>
    /\ key[s] = NoKey /\ conn[s] = "IDLE" /\ tick[s] = "off" /\ create[s] = NoCreate

\* Only a creation under way has been given a key.
GivenToCreation == \A s \in Sessions : create[s].for = "none" => create[s].given = NoKey

\* While a closed session is still creating its key, no session runs, unless
\* one was begun meanwhile: so the answer clears sessionValue for nobody else.
NoneBegun ==
  overlapped \/ \A o \in Sessions : IsClosed(o) /\ create[o].for = "start" =>
                  \A s \in Sessions : ~IsRunning(s)

\* The valid key is held by a session, on its way to one, or being deleted.
KeyAccounted ==
  faults["lost"] = 0 /\ valid # NoKey =>
    \/ deletes > 0
    \/ \E s \in Sessions : key[s] # NoKey \/ create[s].given # NoKey

IInv ==
  /\ TypeOK
  /\ IdleIsBlank
  /\ ClosedIsQuiet
  /\ GivenToCreation
  /\ SessionInCharge
  /\ NoneBegun
  /\ KeyAccounted
----------------------------------------------------------------------------
(* The steps of one session *)

LEMMA InitIInv == Init => IInv
<1>. SUFFICES ASSUME Init PROVE IInv
  OBVIOUS
<1>1. TypeOK
  <2>1. /\ NoFailures \in [Counters -> Nat]
        /\ NoCreate \in [for : {"none", "start", "rotate"}, given : Nat] /\ NoKey \in Nat
    BY DEF NoFailures, NoCreate, NoKey
  <2>2. /\ failures \in [Sessions -> [Counters -> Nat]]
        /\ create \in [Sessions -> [for : {"none", "start", "rotate"}, given : Nat]]
        /\ key \in [Sessions -> Nat]
    BY <2>1 DEF Init
  <2>3. valid \in 0 .. issued /\ issued \in Nat /\ deletes \in Nat
    BY DEF Init, NoKey
  <2>. QED
    BY <2>2, <2>3 DEF Init, TypeOK, FaultKinds
<1>. QED
  BY <1>1 DEF Init, IInv, IdleIsBlank, ClosedIsQuiet, GivenToCreation, SessionInCharge, NoneBegun,
       KeyAccounted, IsClosed, IsRunning, NoCreate, NoKey

\* Whatever a session does, the others' state stays.
Untouched(s) ==
  \A o \in Sessions \ {s} : /\ status'[o] = status[o] /\ key'[o] = key[o] /\ conn'[o] = conn[o]
                            /\ tick'[o] = tick[o] /\ create'[o] = create[o]

\* A session that was started goes on, or is closed already and stays so.
LEMMA SessionMoves ==
  ASSUME IInv, TypeOK', NEW s \in Sessions, Untouched(s),
         UNCHANGED <<current, stream, overlapped, deletes>>,
         status[s] # "idle",
         IsRunning(s) => status'[s] \notin {"idle", "closed"},
         IsClosed(s) => /\ status'[s] = "closed" /\ key'[s] = NoKey /\ conn'[s] = "CLOSED"
                        /\ tick'[s] = "off",
         create'[s].for = "none" => create'[s].given = NoKey,
         create'[s].for = "start" => create[s].for = "start",
         faults'["lost"] = 0 /\ valid' # NoKey =>
           \/ key'[s] # NoKey \/ create'[s].given # NoKey
           \/ /\ faults["lost"] = 0 /\ valid # NoKey
              /\ key[s] = NoKey /\ create[s].given = NoKey
  PROVE  IInv'
<1>1. \A o \in Sessions : status'[o] = "idle" => o # s /\ status[o] = "idle"
  BY DEF Untouched, IsRunning, IsClosed
<1>2. \A o \in Sessions : IsClosed(o)' <=> IsClosed(o)
  BY DEF Untouched, IsRunning, IsClosed
<1>3. \A o \in Sessions : IsRunning(o)' <=> IsRunning(o)
  BY DEF Untouched, IsRunning, IsClosed
<1>4. IdleIsBlank'
  BY <1>1 DEF IInv, IdleIsBlank, Untouched
<1>5. ClosedIsQuiet'
  <2>1. \A o \in Sessions : status'[o] = "closed" => status[o] = "closed"
    BY <1>2 DEF IsClosed
  <2>. QED
    BY <2>1 DEF IInv, ClosedIsQuiet, IsClosed, Untouched
<1>6. GivenToCreation'
  BY DEF IInv, GivenToCreation, Untouched
<1>7. SessionInCharge'
  <2>1. SessionInCharge
    BY DEF IInv
  <2>. QED
    BY <1>3, <2>1 DEF SessionInCharge, IsRunning
<1>8. NoneBegun'
  <2>1. NoneBegun
    BY DEF IInv
  <2>2. \A o \in Sessions : create'[o].for = "start" => create[o].for = "start"
    BY DEF Untouched
  <2>. QED
    BY <1>2, <1>3, <2>1, <2>2 DEF NoneBegun, IsRunning, IsClosed
<1>9. KeyAccounted'
  BY DEF IInv, KeyAccounted, Untouched
<1>. QED
  BY <1>4, <1>5, <1>6, <1>7, <1>8, <1>9 DEF IInv

\* The session in charge is closed; the creation under way goes on or, having
\* failed, ends with it.
LEMMA SessionCloses ==
  ASSUME IInv, TypeOK', NEW s \in Sessions, CloseSession(s), IsRunning(s) \/ s = current,
         UNCHANGED <<valid, overlapped>>,
         faults'["lost"] = 0 => faults["lost"] = 0,
         \/ create' = create
         \/ /\ create' = [create EXCEPT ![s] = NoCreate]
            /\ faults'["lost"] = 0 => create[s].given = NoKey
  PROVE  IInv'
<1>1. /\ status'[s] = "closed" /\ key'[s] = NoKey /\ conn'[s] = "CLOSED" /\ tick'[s] = "off"
      /\ Untouched(s)
  BY DEF CloseSession, Untouched, IInv, TypeOK
<1>2. \A o \in Sessions : status'[o] = "idle" => o # s /\ status[o] = "idle"
  BY <1>1 DEF Untouched
<1>3. IdleIsBlank'
  BY <1>1, <1>2 DEF IInv, IdleIsBlank, Untouched
<1>4. ClosedIsQuiet'
  BY <1>1 DEF IInv, ClosedIsQuiet, IsClosed, Untouched
<1>5. GivenToCreation'
  BY DEF IInv, TypeOK, GivenToCreation, NoCreate, NoKey
<1>6. overlapped \/ \A o \in Sessions : status'[o] \in {"idle", "closed"}
  <2>1. ASSUME ~overlapped, NEW o \in Sessions \ {s} PROVE ~IsRunning(o)
    BY <2>1 DEF IInv, SessionInCharge
  <2>. QED
    BY <1>1, <2>1 DEF Untouched, IsRunning
<1>7. SessionInCharge' /\ NoneBegun'
  BY <1>6 DEF SessionInCharge, NoneBegun, IsRunning
<1>8. KeyAccounted'
  <2>1. ASSUME faults'["lost"] = 0, valid' # NoKey
        PROVE  deletes' > 0 \/ \E o \in Sessions : key'[o] # NoKey \/ create'[o].given # NoKey
    <3>1. deletes > 0 \/ \E o \in Sessions : key[o] # NoKey \/ create[o].given # NoKey
      BY <2>1 DEF IInv, KeyAccounted
    <3>2. deletes \in Nat /\ deletes' = IF key[s] # NoKey THEN deletes + 1 ELSE deletes
      BY DEF IInv, TypeOK, CloseSession
    <3>3. \A o \in Sessions : create[o].given # NoKey => create'[o].given # NoKey
      BY <1>1, <2>1 DEF Untouched, IInv, TypeOK
    <3>. QED
      BY <1>1, <3>1, <3>2, <3>3 DEF Untouched
  <2>. QED
    BY <2>1 DEF KeyAccounted
<1>. QED
  BY <1>3, <1>4, <1>5, <1>7, <1>8 DEF IInv

\* Faults only grow.
LEMMA FaultFacts ==
  ASSUME TypeOK
  PROVE  \A f \in FaultKinds : \A bound : Fault(f, bound) =>
           /\ faults' \in [FaultKinds -> Nat]
           /\ faults'["lost"] = 0 => faults["lost"] = 0
           /\ f = "lost" => faults'["lost"] > 0
<1>1. \A f \in FaultKinds : faults[f] \in Nat
  BY DEF TypeOK
<1>. QED
  BY <1>1 DEF TypeOK, Fault, FaultKinds

LEMMA ServeCreateIInv ==
  ASSUME IInv, NEW s \in Sessions, ServeCreate(s)
  PROVE  IInv'
<1>1. valid' \in 0 .. issued' /\ issued' \in Nat /\ valid' # NoKey
  BY DEF ServeCreate, IInv, TypeOK, NoKey
<1>2. create' = [create EXCEPT ![s].given = valid'] /\ create[s].for # "none"
  BY DEF ServeCreate
<1>3. /\ create' \in [Sessions -> [for : {"none", "start", "rotate"}, given : Nat]]
      /\ create'[s].for = create[s].for /\ create'[s].given = valid'
      /\ \A o \in Sessions \ {s} : create'[o] = create[o]
  BY <1>1, <1>2 DEF IInv, TypeOK
<1>4. UNCHANGED <<current, stream, status, key, conn, tick, failures, deletes, faults, overlapped>>
  BY DEF ServeCreate
<1>5. TypeOK'
  BY <1>1, <1>3, <1>4 DEF IInv, TypeOK
<1>6. status[s] # "idle"
  BY <1>2 DEF IInv, IdleIsBlank, NoCreate
<1>7. Untouched(s)
  BY <1>3, <1>4 DEF Untouched
<1>. QED
  BY <1>1, <1>2, <1>3, <1>4, <1>5, <1>6, <1>7, SessionMoves DEF IInv, ClosedIsQuiet, IsRunning, IsClosed

\* What a finished creation leaves.
LEMMA CreateDoneFacts ==
  ASSUME IInv, NEW s \in Sessions, create' = [create EXCEPT ![s] = NoCreate]
  PROVE  /\ create' \in [Sessions -> [for : {"none", "start", "rotate"}, given : Nat]]
         /\ create'[s].for = "none" /\ create'[s].given = NoKey
         /\ \A o \in Sessions \ {s} : create'[o] = create[o]
  BY DEF IInv, TypeOK, NoCreate, NoKey

LEMMA RotateAnsweredIInv ==
  ASSUME IInv, NEW s \in Sessions, RotateAnswered(s)
  PROVE  IInv'
<1>1. /\ create[s].for = "rotate" /\ create[s].given # NoKey /\ ~IsClosed(s)
      /\ create' = [create EXCEPT ![s] = NoCreate]
      /\ tick' = [tick EXCEPT ![s] = IF tick[s] = "rotating" THEN "armed" ELSE tick[s]]
      /\ key' = [key EXCEPT ![s] = create[s].given]
      /\ conn' = [conn EXCEPT ![s] = "CONNECTING"]
      /\ UNCHANGED <<current, stream, status, valid, issued, deletes, faults, overlapped>>
  BY DEF RotateAnswered, CreateDone, exchangeVars
<1>2. /\ create' \in [Sessions -> [for : {"none", "start", "rotate"}, given : Nat]]
      /\ create'[s].for = "none" /\ create'[s].given = NoKey
      /\ \A o \in Sessions \ {s} : create'[o] = create[o]
  BY <1>1, CreateDoneFacts
<1>3. failures' \in [Sessions -> [Counters -> Nat]]
  BY DEF RotateAnswered, IInv, TypeOK, Counters
<1>4. /\ key' \in [Sessions -> Nat] /\ key'[s] # NoKey
      /\ tick' \in [Sessions -> {"off", "armed", "asking", "rotating"}] /\ tick'[s] # "rotating"
      /\ conn' \in [Sessions -> {"IDLE", "CONNECTING", "OPEN", "RECONNECTING", "CLOSED"}]
      /\ \A o \in Sessions \ {s} : key'[o] = key[o] /\ tick'[o] = tick[o] /\ conn'[o] = conn[o]
  BY <1>1 DEF IInv, TypeOK
<1>5. TypeOK'
  BY <1>1, <1>2, <1>3, <1>4 DEF IInv, TypeOK
<1>6. status[s] # "idle" /\ Untouched(s)
  BY <1>1, <1>2, <1>4 DEF IInv, IdleIsBlank, NoCreate, Untouched
<1>. QED
  BY <1>1, <1>2, <1>4, <1>5, <1>6, SessionMoves DEF IsRunning, IsClosed

LEMMA StartAnsweredIInv ==
  ASSUME IInv, NEW s \in Sessions, StartAnswered(s)
  PROVE  IInv'
<1>1. /\ create[s].for = "start" /\ create[s].given # NoKey /\ ~IsClosed(s)
      /\ create' = [create EXCEPT ![s] = NoCreate]
      /\ tick' = [tick EXCEPT ![s] = "armed"]
      /\ key' = [key EXCEPT ![s] = create[s].given]
      /\ conn' = [conn EXCEPT ![s] = "CONNECTING"]
      /\ UNCHANGED <<current, stream, status, valid, issued, deletes, faults, overlapped>>
  BY DEF StartAnswered, exchangeVars
<1>2. /\ create' \in [Sessions -> [for : {"none", "start", "rotate"}, given : Nat]]
      /\ create'[s].for = "none" /\ create'[s].given = NoKey
      /\ \A o \in Sessions \ {s} : create'[o] = create[o]
  BY <1>1, CreateDoneFacts
<1>3. failures' \in [Sessions -> [Counters -> Nat]]
  <2>1. NoFailures \in [Counters -> Nat]
    BY DEF NoFailures
  <2>. QED
    BY <2>1 DEF StartAnswered, IInv, TypeOK
<1>4. /\ key' \in [Sessions -> Nat] /\ key'[s] # NoKey
      /\ tick' \in [Sessions -> {"off", "armed", "asking", "rotating"}] /\ tick'[s] # "rotating"
      /\ conn' \in [Sessions -> {"IDLE", "CONNECTING", "OPEN", "RECONNECTING", "CLOSED"}]
      /\ \A o \in Sessions \ {s} : key'[o] = key[o] /\ tick'[o] = tick[o] /\ conn'[o] = conn[o]
  BY <1>1 DEF IInv, TypeOK
<1>5. TypeOK'
  BY <1>1, <1>2, <1>3, <1>4 DEF IInv, TypeOK
<1>6. status[s] # "idle" /\ Untouched(s)
  BY <1>1, <1>2, <1>4 DEF IInv, IdleIsBlank, NoCreate, Untouched
<1>. QED
  BY <1>1, <1>2, <1>4, <1>5, <1>6, SessionMoves DEF IsRunning, IsClosed

\* The keep-alive and the connection of a session that runs, or whose rotation
\* failed after it was closed: its key stays, and a rotation may begin or end.
LEMMA LocalMoves ==
  ASSUME IInv, NEW s \in Sessions,
         UNCHANGED <<current, stream, key, valid, issued, deletes, overlapped>>,
         failures' \in [Sessions -> [Counters -> Nat]], faults' \in [FaultKinds -> Nat],
         faults'["lost"] = 0 => faults["lost"] = 0,
         NEW st \in {"live", "reconnecting"},
         status' = status \/ (IsRunning(s) /\ status' = [status EXCEPT ![s] = st]),
         NEW c \in {"CONNECTING", "OPEN", "RECONNECTING"},
         conn' = conn \/ (IsRunning(s) /\ conn' = [conn EXCEPT ![s] = c]),
         NEW t \in {"armed", "asking", "rotating"},
         tick' = tick \/ (IsRunning(s) /\ tick' = [tick EXCEPT ![s] = t]),
         \/ create' = create
         \/ BeginRotate(s)
         \/ /\ create[s].for # "none" /\ create' = [create EXCEPT ![s] = NoCreate]
            /\ faults'["lost"] = 0 => create[s].given = NoKey,
         status[s] # "idle",
         tick'[s] = "rotating" => create'[s].for = "rotate"
  PROVE  IInv'
<1>1. /\ create' \in [Sessions -> [for : {"none", "start", "rotate"}, given : Nat]]
      /\ create'[s].for = "none" => create'[s].given = NoKey
      /\ create'[s].for = "start" => create[s].for = "start"
      /\ faults'["lost"] = 0 => create'[s].given = create[s].given
      /\ \A o \in Sessions \ {s} : create'[o] = create[o]
  <2>1. CASE create' = create
    BY <2>1 DEF IInv, TypeOK, GivenToCreation
  <2>2. CASE BeginRotate(s)
    <3>1. CASE create' = create
      BY <2>1, <3>1
    <3>2. CASE create' = [create EXCEPT ![s].for = "rotate"]
      BY <3>2 DEF IInv, TypeOK
    <3>. QED
      BY <2>2, <3>1, <3>2 DEF BeginRotate
  <2>3. CASE /\ create' = [create EXCEPT ![s] = NoCreate]
             /\ faults'["lost"] = 0 => create[s].given = NoKey
    BY <2>3, CreateDoneFacts
  <2>. QED
    BY <2>1, <2>2, <2>3
<1>2. /\ status' \in [Sessions -> {"idle", "starting", "live", "reconnecting", "closed"}]
      /\ conn' \in [Sessions -> {"IDLE", "CONNECTING", "OPEN", "RECONNECTING", "CLOSED"}]
      /\ tick' \in [Sessions -> {"off", "armed", "asking", "rotating"}]
      /\ \A o \in Sessions \ {s} : status'[o] = status[o] /\ conn'[o] = conn[o] /\ tick'[o] = tick[o]
  <2>1. /\ status \in [Sessions -> {"idle", "starting", "live", "reconnecting", "closed"}]
        /\ conn \in [Sessions -> {"IDLE", "CONNECTING", "OPEN", "RECONNECTING", "CLOSED"}]
        /\ tick \in [Sessions -> {"off", "armed", "asking", "rotating"}]
    BY DEF IInv, TypeOK
  <2>2. /\ status' \in [Sessions -> {"idle", "starting", "live", "reconnecting", "closed"}]
        /\ \A o \in Sessions \ {s} : status'[o] = status[o]
    BY <2>1
  <2>3. /\ conn' \in [Sessions -> {"IDLE", "CONNECTING", "OPEN", "RECONNECTING", "CLOSED"}]
        /\ \A o \in Sessions \ {s} : conn'[o] = conn[o]
    BY <2>1
  <2>4. /\ tick' \in [Sessions -> {"off", "armed", "asking", "rotating"}]
        /\ \A o \in Sessions \ {s} : tick'[o] = tick[o]
    BY <2>1
  <2>. QED
    BY <2>2, <2>3, <2>4
<1>3. TypeOK'
  BY <1>1, <1>2 DEF IInv, TypeOK
<1>4. Untouched(s)
  BY <1>1, <1>2 DEF Untouched
<1>5. IsRunning(s) => status'[s] \notin {"idle", "closed"}
  BY DEF IInv, TypeOK, IsRunning
<1>6. IsClosed(s) => /\ status'[s] = "closed" /\ key'[s] = NoKey /\ conn'[s] = "CLOSED"
                     /\ tick'[s] = "off"
  BY DEF IInv, ClosedIsQuiet, IsRunning, IsClosed
<1>7. faults'["lost"] = 0 /\ valid' # NoKey =>
        \/ key'[s] # NoKey \/ create'[s].given # NoKey
        \/ /\ faults["lost"] = 0 /\ valid # NoKey
           /\ key[s] = NoKey /\ create[s].given = NoKey
  BY <1>1
<1>8. /\ create'[s].for = "none" => create'[s].given = NoKey
      /\ create'[s].for = "start" => create[s].for = "start"
  BY <1>1
<1>9. UNCHANGED <<current, stream, overlapped, deletes>>
  OBVIOUS
<1>. QED
  BY <1>3, <1>4, <1>5, <1>6, <1>7, <1>8, <1>9, SessionMoves

\* A session with a timer, a connection or a creation was started, and one
\* with a timer or a connection runs.
LEMMA StartedFacts ==
  ASSUME IInv, NEW s \in Sessions
  PROVE  /\ tick[s] # "off" => IsRunning(s)
         /\ conn[s] \notin {"IDLE", "CLOSED"} => IsRunning(s)
         /\ create[s].for # "none" => status[s] # "idle"
         /\ IsRunning(s) => status[s] # "idle"
  BY DEF IInv, IdleIsBlank, ClosedIsQuiet, NoCreate, IsRunning, IsClosed

\* What the counters of a session become.
LEMMA CountersFacts ==
  ASSUME TypeOK, NEW s \in Sessions
  PROVE  /\ failures[s].keepalive \in Nat /\ failures[s].reconnect \in Nat /\ failures[s].flap \in Nat
         /\ \A n \in Nat :
              /\ [failures EXCEPT ![s].keepalive = n] \in [Sessions -> [Counters -> Nat]]
              /\ [failures EXCEPT ![s].reconnect = n] \in [Sessions -> [Counters -> Nat]]
         /\ \A n, m \in Nat :
              [failures EXCEPT ![s].reconnect = n, ![s].flap = m] \in [Sessions -> [Counters -> Nat]]
<1>1. failures \in [Sessions -> [Counters -> Nat]]
  BY DEF TypeOK
<1>2. failures[s].keepalive \in Nat /\ failures[s].reconnect \in Nat /\ failures[s].flap \in Nat
  BY <1>1 DEF Counters
<1>3. ASSUME NEW n \in Nat
      PROVE  /\ [failures EXCEPT ![s].keepalive = n] \in [Sessions -> [Counters -> Nat]]
             /\ [failures EXCEPT ![s].reconnect = n] \in [Sessions -> [Counters -> Nat]]
  BY <1>1 DEF Counters
<1>4. ASSUME NEW n \in Nat, NEW m \in Nat
      PROVE  [failures EXCEPT ![s].reconnect = n, ![s].flap = m] \in [Sessions -> [Counters -> Nat]]
  BY <1>1 DEF Counters
<1>. QED
  BY <1>2, <1>3, <1>4

LEMMA KeepAliveIInv ==
  ASSUME IInv, NEW s \in Sessions, KeepAliveTimer(s) \/ KeepAliveOk(s) \/ KeepAliveFails(s)
  PROVE  IInv'
<1>1. IsRunning(s) /\ status[s] # "idle"
  BY StartedFacts DEF KeepAliveTimer, KeepAliveOk, KeepAliveFails
<1>2. UNCHANGED <<current, stream, status, key, conn, valid, issued, deletes, overlapped>>
  BY DEF KeepAliveTimer, KeepAliveOk, KeepAliveFails, exchangeVars
<1>3. faults' \in [FaultKinds -> Nat] /\ (faults'["lost"] = 0 => faults["lost"] = 0)
  <2>1. UNCHANGED faults \/ Fault("fault", MaxFaults)
    BY DEF KeepAliveTimer, KeepAliveOk, KeepAliveFails
  <2>. QED
    BY <2>1, FaultFacts DEF IInv, TypeOK, FaultKinds
<1>4. CASE KeepAliveTimer(s)
  <2>1. tick' = [tick EXCEPT ![s] = "asking"] /\ create' = create /\ UNCHANGED failures
    BY <1>4 DEF KeepAliveTimer
  <2>2. tick'[s] # "rotating" /\ failures' \in [Sessions -> [Counters -> Nat]]
    BY <2>1 DEF IInv, TypeOK
  <2>. QED
    BY <1>1, <1>2, <1>3, <2>1, <2>2, LocalMoves
<1>5. CASE KeepAliveOk(s)
  <2>1. /\ tick' = [tick EXCEPT ![s] = "armed"] /\ create' = create
        /\ failures' = [failures EXCEPT ![s].keepalive = 0]
    BY <1>5 DEF KeepAliveOk
  <2>2. tick'[s] # "rotating" /\ failures' \in [Sessions -> [Counters -> Nat]]
    BY <2>1, CountersFacts DEF IInv, TypeOK
  <2>. QED
    BY <1>1, <1>2, <1>3, <2>1, <2>2, LocalMoves
<1>6. CASE KeepAliveFails(s)
  <2>1. failures' \in [Sessions -> [Counters -> Nat]]
    <3>1. PICK n \in Nat : n = IF failures[s].keepalive < KeepAliveLimit THEN failures[s].keepalive + 1
                               ELSE failures[s].keepalive
      BY CountersFacts DEF IInv
    <3>2. failures' = [failures EXCEPT ![s].keepalive = n]
      BY <1>6, <3>1 DEF KeepAliveFails
    <3>. QED
      BY <3>2, CountersFacts DEF IInv
  <2>2. CASE /\ create[s].for = "none" /\ BeginRotate(s)
             /\ tick' = [tick EXCEPT ![s] = "rotating"]
    <3>1. create'[s].for = "rotate"
      BY <2>2 DEF BeginRotate, IInv, TypeOK
    <3>. QED
      BY <1>1, <1>2, <1>3, <2>1, <2>2, <3>1, LocalMoves
  <2>3. CASE UNCHANGED create /\ tick' = [tick EXCEPT ![s] = "armed"]
    <3>1. tick'[s] # "rotating"
      BY <2>3 DEF IInv, TypeOK
    <3>. QED
      BY <1>1, <1>2, <1>3, <2>1, <2>3, <3>1, LocalMoves
  <2>. QED
    BY <1>6, <2>2, <2>3 DEF KeepAliveFails
<1>. QED
  BY <1>4, <1>5, <1>6

LEMMA OpensIInv ==
  ASSUME IInv, NEW s \in Sessions, Opens(s) \/ ReconnectFires(s)
  PROVE  IInv'
<1>1. IsRunning(s) /\ status[s] # "idle"
  BY StartedFacts DEF Opens, ReconnectFires
<1>2. UNCHANGED <<current, stream, key, tick, create, valid, issued, deletes, faults, overlapped>>
  BY DEF Opens, ReconnectFires, exchangeVars
<1>3. /\ failures' \in [Sessions -> [Counters -> Nat]] /\ faults' \in [FaultKinds -> Nat]
      /\ faults'["lost"] = 0 => faults["lost"] = 0
      /\ tick'[s] = "rotating" => create'[s].for = "rotate"
  <2>1. UNCHANGED failures \/ failures' = [failures EXCEPT ![s].reconnect = 0]
    BY DEF Opens, ReconnectFires
  <2>2. failures' \in [Sessions -> [Counters -> Nat]]
    <3>1. [failures EXCEPT ![s].reconnect = 0] \in [Sessions -> [Counters -> Nat]]
      BY CountersFacts DEF IInv
    <3>. QED
      BY <2>1, <3>1 DEF IInv, TypeOK
  <2>. QED
    BY <1>2, <2>2 DEF IInv, TypeOK
<1>4. CASE Opens(s)
  <2>1. status' = [status EXCEPT ![s] = "live"] /\ conn' = [conn EXCEPT ![s] = "OPEN"]
    BY <1>4 DEF Opens
  <2>. QED
    BY <1>1, <1>2, <1>3, <2>1, LocalMoves
<1>5. CASE ReconnectFires(s)
  <2>1. status' = status /\ conn' = [conn EXCEPT ![s] = "CONNECTING"]
    BY <1>5 DEF ReconnectFires
  <2>. QED
    BY <1>1, <1>2, <1>3, <2>1, LocalMoves
<1>. QED
  BY <1>4, <1>5

LEMMA SocketLostIInv ==
  ASSUME IInv, NEW s \in Sessions, conn[s] \in {"CONNECTING", "OPEN"},
         NEW flapped \in BOOLEAN, SocketLost(s, flapped)
  PROVE  IInv'
<1>1. IsRunning(s) /\ status[s] # "idle"
  BY StartedFacts
<1>2. /\ UNCHANGED <<current, stream, key, tick, valid, issued, deletes, overlapped>>
      /\ status' = [status EXCEPT ![s] = "reconnecting"]
      /\ conn' = [conn EXCEPT ![s] = "RECONNECTING"]
  BY DEF SocketLost, exchangeVars
<1>3. faults' \in [FaultKinds -> Nat] /\ (faults'["lost"] = 0 => faults["lost"] = 0)
  <2>1. UNCHANGED faults \/ Fault("fault", MaxFaults)
    BY DEF SocketLost
  <2>. QED
    BY <2>1, FaultFacts DEF IInv, TypeOK, FaultKinds
<1>4. failures' \in [Sessions -> [Counters -> Nat]]
  <2>. DEFINE flaps == IF flapped THEN failures[s].flap + 1 ELSE 0
  <2>1. PICK n \in Nat : n = IF failures[s].reconnect < ReconnectLimit THEN failures[s].reconnect + 1
                             ELSE ReconnectLimit
    BY CountersFacts, UserSessionAssumption DEF IInv
  <2>2. PICK m \in Nat : m = IF flaps = FlapLimit THEN 0 ELSE flaps
    BY CountersFacts DEF IInv
  <2>3. failures' = [failures EXCEPT ![s].reconnect = n, ![s].flap = m]
    BY <2>1, <2>2 DEF SocketLost
  <2>. QED
    BY <2>3, CountersFacts DEF IInv
<1>5. create' = create \/ BeginRotate(s)
  BY DEF SocketLost
<1>6. tick'[s] = "rotating" => create'[s].for = "rotate"
  BY <1>2, <1>5 DEF BeginRotate, IInv, TypeOK
<1>. QED
  BY <1>1, <1>2, <1>3, <1>4, <1>5, <1>6, LocalMoves

LEMMA KeyExpiredIInv ==
  ASSUME IInv, NEW s \in Sessions, KeyExpired(s)
  PROVE  IInv'
<1>1. IsRunning(s) /\ status[s] # "idle"
  BY StartedFacts DEF KeyExpired
<1>2. /\ UNCHANGED <<current, stream, status, key, conn, tick, failures, valid, issued, deletes,
                     faults, overlapped>>
      /\ BeginRotate(s) /\ create[s].for = "none"
  BY DEF KeyExpired, exchangeVars
<1>3. tick'[s] # "rotating"
  BY <1>2 DEF IInv, TypeOK
<1>4. failures' \in [Sessions -> [Counters -> Nat]] /\ faults' \in [FaultKinds -> Nat]
  BY <1>2 DEF IInv, TypeOK
<1>. QED
  BY <1>1, <1>2, <1>3, <1>4, LocalMoves

\* A failed rotation waits for the next trigger; a failed start closes the
\* session.
LEMMA CreateFailsIInv ==
  ASSUME IInv, NEW s \in Sessions, CreateFails(s)
  PROVE  IInv'
<1>1. /\ create[s].for # "none" /\ status[s] # "idle"
      /\ create' = [create EXCEPT ![s] = NoCreate]
      /\ UNCHANGED <<valid, issued, overlapped>>
  BY StartedFacts DEF CreateFails, CreateDone
<1>2. /\ faults' \in [FaultKinds -> Nat] /\ (faults'["lost"] = 0 => faults["lost"] = 0)
      /\ faults'["lost"] = 0 => create[s].given = NoKey
  <2>1. \/ create[s].given = NoKey /\ Fault("fault", MaxFaults)
        \/ Fault("lost", MaxLost)
    BY DEF CreateFails
  <2>. QED
    BY <2>1, FaultFacts DEF IInv, FaultKinds
<1>3. /\ create' \in [Sessions -> [for : {"none", "start", "rotate"}, given : Nat]]
      /\ create'[s].for = "none" /\ create'[s].given = NoKey
      /\ \A o \in Sessions \ {s} : create'[o] = create[o]
  BY <1>1, CreateDoneFacts
<1>4. CASE create[s].for # "start"
  <2>1. /\ UNCHANGED <<current, stream, status, key, conn, failures, deletes>>
        /\ tick' = [tick EXCEPT ![s] = IF tick[s] = "rotating" THEN "armed" ELSE tick[s]]
    BY <1>4 DEF CreateFails, CreateDone
  <2>2. tick' = tick \/ (IsRunning(s) /\ tick' = [tick EXCEPT ![s] = "armed"])
    BY <2>1, StartedFacts DEF IInv, TypeOK
  <2>3. tick'[s] # "rotating"
    BY <2>1 DEF IInv, TypeOK
  <2>4. failures' \in [Sessions -> [Counters -> Nat]] /\ status' = status /\ conn' = conn
    BY <2>1 DEF IInv, TypeOK
  <2>. QED
    BY <1>1, <1>2, <2>1, <2>2, <2>3, <2>4, LocalMoves
<1>5. CASE create[s].for = "start" /\ ~IsClosed(s)
  <2>1. CloseSession(s) /\ current' = NoSession
    BY <1>5 DEF CreateFails
  <2>2. NoFailures \in [Counters -> Nat]
    BY DEF NoFailures
  <2>3. TypeOK'
    BY <1>1, <1>2, <1>3, <2>1, <2>2 DEF CloseSession, IInv, TypeOK, NoKey, NoSession
  <2>4. IsRunning(s)
    BY <1>1, <1>5 DEF IsRunning, IsClosed
  <2>. QED
    BY <1>1, <1>2, <2>1, <2>3, <2>4, SessionCloses
<1>6. CASE create[s].for = "start" /\ IsClosed(s)
  <2>1. UNCHANGED <<status, key, conn, tick, failures, deletes, stream>> /\ current' = NoSession
    BY <1>6 DEF CreateFails
  <2>2. TypeOK'
    BY <1>1, <1>2, <1>3, <1>6, <2>1 DEF IInv, TypeOK, NoSession
  <2>3. overlapped \/ \A o \in Sessions : ~IsRunning(o)
    BY <1>6 DEF IInv, NoneBegun
  <2>4. SessionInCharge' /\ NoneBegun'
    BY <1>1, <2>1, <2>3 DEF SessionInCharge, NoneBegun, IsRunning
  <2>5. IdleIsBlank' /\ ClosedIsQuiet' /\ GivenToCreation'
    BY <1>1, <1>3, <2>1 DEF IInv, IdleIsBlank, ClosedIsQuiet, GivenToCreation, IsClosed
  <2>6. KeyAccounted'
    BY <1>1, <1>2, <1>3, <2>1 DEF IInv, KeyAccounted
  <2>. QED
    BY <2>2, <2>4, <2>5, <2>6 DEF IInv
<1>. QED
  BY <1>4, <1>5, <1>6

\* A key that arrives after close() is deleted.
LEMMA AnsweredClosedIInv ==
  ASSUME IInv, NEW s \in Sessions, AnsweredClosed(s)
  PROVE  IInv'
<1>1. /\ IsClosed(s) /\ create[s].given # NoKey
      /\ create' = [create EXCEPT ![s] = NoCreate] /\ deletes' = deletes + 1
      /\ current' = IF create[s].for = "start" THEN NoSession ELSE current
      /\ UNCHANGED <<stream, status, key, conn, tick, failures, valid, issued, faults, overlapped>>
  BY DEF AnsweredClosed
<1>2. /\ create' \in [Sessions -> [for : {"none", "start", "rotate"}, given : Nat]]
      /\ create'[s].for = "none" /\ create'[s].given = NoKey
      /\ \A o \in Sessions \ {s} : create'[o] = create[o]
  BY <1>1, CreateDoneFacts
<1>3. tick[s] = "off"
  BY <1>1 DEF IInv, ClosedIsQuiet
<1>4. TypeOK'
  BY <1>1, <1>2, <1>3 DEF IInv, TypeOK, NoSession
<1>5. IdleIsBlank' /\ ClosedIsQuiet' /\ GivenToCreation'
  BY <1>1, <1>2 DEF IInv, IdleIsBlank, ClosedIsQuiet, GivenToCreation, IsClosed
<1>6. SessionInCharge'
  BY <1>1 DEF IInv, SessionInCharge, NoneBegun, IsRunning
<1>7. NoneBegun'
  BY <1>1, <1>2 DEF IInv, NoneBegun, IsRunning, IsClosed
<1>8. KeyAccounted'
  BY <1>1 DEF IInv, TypeOK, KeyAccounted
<1>. QED
  BY <1>4, <1>5, <1>6, <1>7, <1>8 DEF IInv

LEMMA StartUserSessionIInv ==
  ASSUME IInv, NEW s \in Sessions, StartUserSession(s)
  PROVE  IInv'
<1>. DEFINE late == overlapped \/ \E o \in Sessions : IsClosed(o) /\ create[o].for = "start"
<1>1. /\ current = NoSession /\ status[s] = "idle" /\ current' = s /\ stream' = s
      /\ status' = [status EXCEPT ![s] = "starting"]
      /\ create' = [create EXCEPT ![s].for = "start"]
      /\ overlapped' = late
      /\ UNCHANGED <<key, conn, tick, failures, valid, issued, deletes, faults>>
  BY DEF StartUserSession, exchangeVars
<1>2. /\ create[s] = NoCreate /\ tick[s] = "off"
      /\ create' \in [Sessions -> [for : {"none", "start", "rotate"}, given : Nat]]
      /\ create'[s].for = "start" /\ create'[s].given = create[s].given
      /\ \A o \in Sessions \ {s} : create'[o] = create[o] /\ status'[o] = status[o]
      /\ status'[s] = "starting"
  BY <1>1 DEF IInv, TypeOK, IdleIsBlank
<1>3. late \in BOOLEAN
  BY DEF IInv, TypeOK
<1>. HIDE DEF late
<1>4. TypeOK'
  BY <1>1, <1>2, <1>3 DEF IInv, TypeOK
<1>5. IdleIsBlank' /\ ClosedIsQuiet' /\ GivenToCreation'
  BY <1>1, <1>2 DEF IInv, IdleIsBlank, ClosedIsQuiet, GivenToCreation, IsClosed
<1>6. overlapped \/ \A o \in Sessions : ~IsRunning(o)
  BY <1>1, UserSessionAssumption DEF IInv, SessionInCharge, NoSession
<1>7. overlapped => late
  BY DEF late
<1>8. SessionInCharge'
  BY <1>1, <1>2, <1>6, <1>7 DEF SessionInCharge, IsRunning
<1>9. NoneBegun'
  <2>1. ~late => \A o \in Sessions : ~(IsClosed(o) /\ create[o].for = "start")
    BY DEF late
  <2>. QED
    BY <1>1, <1>2, <2>1 DEF NoneBegun, IsClosed
<1>10. KeyAccounted'
  BY <1>1, <1>2 DEF IInv, KeyAccounted
<1>. QED
  BY <1>4, <1>5, <1>8, <1>9, <1>10 DEF IInv

LEMMA CloseTypes ==
  ASSUME IInv, NEW s \in Sessions, CloseSession(s), current' \in {current, NoSession},
         UNCHANGED <<create, valid, issued, faults, overlapped>>
  PROVE  TypeOK'
<1>1. NoFailures \in [Counters -> Nat]
  BY DEF NoFailures
<1>. QED
  BY <1>1 DEF CloseSession, IInv, TypeOK, NoKey, NoSession

LEMMA HolderCloseIInv ==
  ASSUME IInv, NEW s \in Sessions, HolderClose(s)
  PROVE  IInv'
<1>1. /\ IsRunning(s) /\ CloseSession(s)
      /\ UNCHANGED <<current, create, valid, issued, faults, overlapped>>
  BY DEF HolderClose, IsRunning
<1>2. TypeOK'
  BY <1>1, CloseTypes
<1>. QED
  BY <1>1, <1>2, SessionCloses

LEMMA PlatformCloseIInv ==
  ASSUME IInv, PlatformClose
  PROVE  IInv'
<1>1. /\ current \in Sessions /\ current' = NoSession
      /\ UNCHANGED <<create, valid, issued, faults, overlapped>>
  BY DEF PlatformClose, IInv, TypeOK
<1>2. CASE IsClosed(current)
  <2>1. UNCHANGED <<status, key, conn, tick, failures, deletes, stream>>
    BY <1>2 DEF PlatformClose
  <2>2. overlapped \/ \A s \in Sessions : ~IsRunning(s)
    BY <1>2 DEF IInv, SessionInCharge, IsRunning, IsClosed
  <2>3. TypeOK'
    BY <1>1, <2>1 DEF IInv, TypeOK, NoSession
  <2>4. SessionInCharge' /\ NoneBegun'
    BY <1>1, <2>1, <2>2 DEF SessionInCharge, NoneBegun, IsRunning
  <2>5. IdleIsBlank' /\ ClosedIsQuiet' /\ GivenToCreation' /\ KeyAccounted'
    BY <1>1, <2>1 DEF IInv, IdleIsBlank, ClosedIsQuiet, GivenToCreation, KeyAccounted, IsClosed
  <2>. QED
    BY <2>3, <2>4, <2>5 DEF IInv
<1>3. CASE ~IsClosed(current)
  <2>1. CloseSession(current)
    BY <1>3 DEF PlatformClose
  <2>2. TypeOK'
    BY <1>1, <2>1, CloseTypes
  <2>. QED
    BY <1>1, <2>1, <2>2, SessionCloses
<1>. QED
  BY <1>2, <1>3

\* The exchange deletes a key or lets it expire, or a deletion is lost.
LEMMA ExchangeIInv ==
  ASSUME IInv, ServeDelete \/ DeleteFails \/ Expire
  PROVE  IInv'
<1>1. UNCHANGED <<current, stream, status, key, conn, tick, failures, create, issued, overlapped>>
  BY DEF ServeDelete, DeleteFails, Expire, sessionVars
<1>2. /\ faults' \in [FaultKinds -> Nat] /\ (faults'["lost"] = 0 => faults["lost"] = 0)
      /\ DeleteFails => faults'["lost"] > 0
  BY FaultFacts DEF IInv, TypeOK, ServeDelete, DeleteFails, Expire, FaultKinds
<1>3. TypeOK'
  BY <1>1, <1>2 DEF IInv, TypeOK, ServeDelete, DeleteFails, Expire, NoKey
<1>4. /\ IdleIsBlank' /\ ClosedIsQuiet' /\ GivenToCreation' /\ SessionInCharge' /\ NoneBegun'
  BY <1>1 DEF IInv, IdleIsBlank, ClosedIsQuiet, GivenToCreation, SessionInCharge, NoneBegun,
       IsClosed, IsRunning
<1>5. KeyAccounted'
  BY <1>2 DEF KeyAccounted, ServeDelete, DeleteFails, Expire
<1>. QED
  BY <1>3, <1>4, <1>5 DEF IInv

LEMMA NextIInv == IInv /\ [Next]_vars => IInv'
<1>. SUFFICES ASSUME IInv, [Next]_vars PROVE IInv'
  OBVIOUS
<1>1. ASSUME NEW s \in Sessions, SessionStep(s) PROVE IInv'
  <2>1. CASE ServeCreate(s)
    BY <2>1, ServeCreateIInv
  <2>2. CASE CreateFails(s)
    BY <2>2, CreateFailsIInv
  <2>3. CASE Answered(s)
    BY <2>3, StartAnsweredIInv, RotateAnsweredIInv, AnsweredClosedIInv DEF Answered
  <2>4. CASE KeepAliveTimer(s) \/ KeepAliveOk(s) \/ KeepAliveFails(s)
    BY <2>4, KeepAliveIInv
  <2>5. CASE Opens(s) \/ ReconnectFires(s)
    BY <2>5, OpensIInv
  <2>6. CASE ConnectFails(s) \/ Drops(s)
    BY <2>6, SocketLostIInv DEF ConnectFails, Drops
  <2>7. CASE KeyExpired(s)
    BY <2>7, KeyExpiredIInv
  <2>8. CASE StartUserSession(s)
    BY <2>8, StartUserSessionIInv
  <2>9. CASE HolderClose(s)
    BY <2>9, HolderCloseIInv
  <2>. QED
    BY <1>1, <2>1, <2>2, <2>3, <2>4, <2>5, <2>6, <2>7, <2>8, <2>9 DEF SessionStep
<1>2. CASE ServeDelete \/ DeleteFails \/ Expire
  BY <1>2, ExchangeIInv
<1>3. CASE PlatformClose
  BY <1>3, PlatformCloseIInv
<1>4. CASE UNCHANGED vars
  BY <1>4 DEF IInv, TypeOK, IdleIsBlank, ClosedIsQuiet, GivenToCreation, SessionInCharge, NoneBegun,
       KeyAccounted, IsClosed, IsRunning, vars, sessionVars, exchangeVars
<1>. QED
  BY <1>1, <1>2, <1>3, <1>4 DEF Next

\* With every session closed and nothing on its way, nobody accounts for a key.
LEMMA AccountedImplies == IInv => NoKeyLeak
<1>. SUFFICES ASSUME IInv, \A s \in Sessions : ~IsRunning(s) /\ create[s].for = "none",
                     deletes = 0, faults["lost"] = 0
              PROVE  valid = NoKey
  BY DEF NoKeyLeak
<1>1. \A s \in Sessions : key[s] = NoKey /\ create[s].given = NoKey
  BY DEF IInv, IdleIsBlank, ClosedIsQuiet, GivenToCreation, IsRunning, IsClosed
<1>. QED
  BY <1>1 DEF IInv, KeyAccounted

----------------------------------------------------------------------------
(* The theorems *)

\* Every state that sessions, platform and exchange reach satisfies the
\* invariant.
THEOREM SessionInvariant == Spec => []IInv
<1>. QED
  BY InitIInv, NextIInv, PTL DEF Spec

\* Sessions and exchange keep their types, and only a rotation is waited for.
THEOREM SessionTypeCorrect == Spec => []TypeOK
<1>1. IInv => TypeOK
  BY DEF IInv
<1>. QED
  BY <1>1, SessionInvariant, PTL

\* The running session is the one the platform would close and the execution
\* manager listens to, unless one was begun while a closed one still started.
THEOREM InCharge == Spec => []SessionInCharge
<1>1. IInv => SessionInCharge
  BY DEF IInv
<1>. QED
  BY <1>1, SessionInvariant, PTL

\* Nothing of a closed session comes back, whatever it was waiting for.
THEOREM StaysQuiet == Spec => []ClosedIsQuiet
<1>1. IInv => ClosedIsQuiet
  BY DEF IInv
<1>. QED
  BY <1>1, SessionInvariant, PTL

\* Closed sessions leave no valid key at the exchange, unless an answer or a
\* deletion was lost.
THEOREM NoneLeaked == Spec => []NoKeyLeak
<1>. QED
  BY SessionInvariant, AccountedImplies, PTL
=============================================================================
