----------------------------- MODULE StreamPool -----------------------------
(***************************************************************************)
(* BaseWS on one pooled connection, with the subscription registry on top: *)
(* reference-counted Subscriptions, the desired and confirmed streams, and *)
(* the resynchronisation that brings the server in line after every open   *)
(* and rotation.  WsConnection has the life cycle of the sockets in full;  *)
(* here a socket is the server's subscriptions on it and two queues.       *)
(*                                                                         *)
(* A control request that was sent on a socket that is gone is never       *)
(* answered; only its own timer ends it.  The promise a first acquire      *)
(* waits on while the connection is down resolves in the turn that marks   *)
(* its Subscription live, so that it needs no variable.                    *)
(*                                                                         *)
(* Six things leave a stream in doubt until the next socket is compared:   *)
(*  - a join while the connection is down is told what the lost one had;   *)
(*  - the acknowledgement of a SUBSCRIBE counts for a stream released      *)
(*    since, and not for the Subscriptions that joined;                    *)
(*  - a resynchronisation unsubscribes a stream that was acquired since    *)
(*    it compared the list, while it waited for its SUBSCRIBE;             *)
(*  - its end forgets a stream confirmed meanwhile by an acknowledgement;  *)
(*  - a request times out although its socket lives;                       *)
(*  - a resynchronisation outlives its socket, and the next one joins it.  *)
(* A loss, a rotation or a replacement by itself leaves none in doubt.     *)
(***************************************************************************)
EXTENDS Integers, Sequences

CONSTANTS
  Streams,
  Subs,          \* Subscription objects; each is acquired once
  StreamOf,      \* the stream of each
  MaxFaults      \* bound: sockets lost, rotations, replacements and timeouts together

ASSUME StreamPoolAssumption ==
  /\ StreamOf \in [Subs -> Streams]
  /\ Subs \intersect {"resync", "nobody"} = {}
  /\ MaxFaults \in Nat

VARIABLES
  state,      \* WsConnectionState; LOST is OPEN without a socket
  timer,      \* a reconnect is scheduled
  next,       \* the socket being opened, with the streams in its URL
  desired,    \* BaseWS.desired, and the keys of the registry's mappings
  confirmed,  \* BaseWS.confirmed
  server,     \* the streams the active socket is subscribed to
  reqs,       \* control requests on the active socket, not yet served
  acks,       \* answers on their way back
  resync,     \* the task behind resyncPromise
  sub,        \* state of each Subscription
  doubt,      \* history: streams disturbed since the last fresh resync
  faults      \* faults so far

socketVars == <<server, reqs, acks>>
vars == <<state, timer, next, desired, confirmed, socketVars, resync, sub, doubt, faults>>

NoSocket == [purpose |-> "none", url |-> {}]
NoResync == [at |-> "none", has |-> {}, missing |-> {}, extra |-> {}]
Ops == {"LIST", "SUBSCRIBE", "UNSUBSCRIBE"}

\* by: whose continuation waits for the answer.
Requests == [op : Ops, streams : SUBSET Streams, by : Subs \union {"resync", "nobody"}]

IsOpenSub(u) == sub[u] \in {"pending", "live"}

TypeOK ==
  /\ state \in {"IDLE", "CONNECTING", "OPEN", "LOST", "RECONNECTING"}
  /\ timer \in BOOLEAN
  /\ next \in [purpose : {"none", "primary", "rotation"}, url : SUBSET Streams]
  /\ desired = {StreamOf[u] : u \in {v \in Subs : IsOpenSub(v)}}
  /\ confirmed \subseteq Streams
  /\ server \subseteq Streams
  /\ reqs \in Seq(Requests)
  /\ acks \in Seq(Requests)
  /\ resync \in [at : {"none", "list", "subscribe", "unsubscribe"},
                 has : SUBSET Streams, missing : SUBSET Streams, extra : SUBSET Streams]
  /\ sub \in [Subs -> {"none", "pending", "live", "closed"}]
  /\ doubt \subseteq Streams
  /\ faults \in Nat
  /\ state # "OPEN" => socketVars = <<{}, << >>, << >>>>

Init ==
  /\ state = "IDLE"
  /\ timer = FALSE
  /\ next = NoSocket
  /\ desired = {}
  /\ confirmed = {}
  /\ server = {}
  /\ reqs = << >>
  /\ acks = << >>
  /\ resync = NoResync
  /\ sub = [u \in Subs |-> "none"]
  /\ doubt = {}
  /\ faults = 0

Fault == faults < MaxFaults /\ faults' = faults + 1

Request(op, streams, by) == [op |-> op, streams |-> streams, by |-> by]

----------------------------------------------------------------------------
(* Acquire and release *)

\* A stream with subscribers: no request.  What was confirmed on a connection
\* that is down still counts.
Join(u) ==
  LET s == StreamOf[u] IN
  /\ sub[u] = "none"
  /\ s \in desired
  /\ sub' = [sub EXCEPT ![u] = IF s \in confirmed THEN "live" ELSE "pending"]
  /\ doubt' = IF s \in confirmed /\ state # "OPEN" THEN doubt \union {s} ELSE doubt
  /\ UNCHANGED <<state, timer, next, desired, confirmed, socketVars, resync, faults>>

\* A first subscriber.  A stream that already counts as confirmed is not
\* subscribed to again.
Acquire(u) ==
  LET s == StreamOf[u] IN
  /\ sub[u] = "none"
  /\ s \notin desired
  /\ desired' = desired \union {s}
  /\ sub' = [sub EXCEPT ![u] = IF state = "OPEN" /\ s \in confirmed THEN "live" ELSE "pending"]
  /\ reqs' = IF state = "OPEN" /\ s \notin confirmed
             THEN Append(reqs, Request("SUBSCRIBE", {s}, u)) ELSE reqs
  /\ IF state = "IDLE"
     THEN state' = "CONNECTING" /\ next' = [purpose |-> "primary", url |-> desired']
     ELSE UNCHANGED <<state, next>>
  /\ UNCHANGED <<timer, confirmed, server, acks, resync, doubt, faults>>

\* Mutant: the last release forgets to tell the server.
ReleaseQuietly(u) ==
  LET s == StreamOf[u]
      last == \A v \in Subs \ {u} : StreamOf[v] = s => ~IsOpenSub(v)
      gone == IF last THEN {s} ELSE {}
  IN
  /\ IsOpenSub(u)
  /\ sub' = [sub EXCEPT ![u] = "closed"]
  /\ desired' = desired \ gone
  /\ confirmed' = confirmed \ gone
  /\ UNCHANGED <<state, timer, next, socketVars, resync, doubt, faults>>

\* Mutant: every release ends the stream, whoever else is subscribed.
ReleaseUncounted(u) ==
  LET s == StreamOf[u] IN
  /\ IsOpenSub(u)
  /\ sub' = [sub EXCEPT ![u] = "closed"]
  /\ desired' = desired \ {s}
  /\ confirmed' = confirmed \ {s}
  /\ reqs' = IF state = "OPEN" THEN Append(reqs, Request("UNSUBSCRIBE", {s}, "nobody")) ELSE reqs
  /\ UNCHANGED <<state, timer, next, server, acks, resync, doubt, faults>>

Release(u) ==
  LET s == StreamOf[u]
      last == \A v \in Subs \ {u} : StreamOf[v] = s => ~IsOpenSub(v)
      gone == IF last THEN {s} ELSE {}
  IN
  /\ IsOpenSub(u)
  /\ sub' = [sub EXCEPT ![u] = "closed"]
  /\ desired' = desired \ gone
  /\ confirmed' = confirmed \ gone
  /\ reqs' = IF last /\ state = "OPEN"
             THEN Append(reqs, Request("UNSUBSCRIBE", {s}, "nobody")) ELSE reqs
  /\ UNCHANGED <<state, timer, next, server, acks, resync, doubt, faults>>

----------------------------------------------------------------------------
(* Control requests and the resynchronisation *)

\* The server takes requests in order; a LIST is answered with its streams.
Serve ==
  /\ reqs # << >>
  /\ LET r == Head(reqs) IN
       /\ server' = CASE r.op = "SUBSCRIBE" -> server \union r.streams
                      [] r.op = "UNSUBSCRIBE" -> server \ r.streams
                      [] OTHER -> server
       /\ acks' = Append(acks, IF r.op = "LIST" THEN [r EXCEPT !.streams = server] ELSE r)
  /\ reqs' = Tail(reqs)
  /\ UNCHANGED <<state, timer, next, desired, confirmed, resync, sub, doubt, faults>>

\* markLive for every subscriber of the streams.
MarkLive(streams) ==
  sub' = [u \in Subs |-> IF sub[u] = "pending" /\ StreamOf[u] \in streams THEN "live" ELSE sub[u]]

\* Mutant: subscribers are not told of the loss.
MarkNothing == UNCHANGED sub

\* markPending, on the way to RECONNECTING or CONNECTING.
MarkPending == sub' = [u \in Subs |-> IF sub[u] = "live" THEN "pending" ELSE sub[u]]

\* What doResynchronize does next; without an open connection every request
\* it makes fails at once.
NextPhase(r) ==
  CASE state = "OPEN" /\ r.at = "list" /\ r.missing # {} -> "subscribe"
    [] state = "OPEN" /\ r.at \in {"list", "subscribe"} /\ r.extra # {}
       /\ ~(r.at = "list" /\ r.missing # {}) -> "unsubscribe"
    [] OTHER -> "done"

\* Mutant: what is confirmed is what was missing.
ConfirmedMissing(r) == desired \intersect r.missing

\* What the resynchronisation takes for confirmed: streams the server listed,
\* and those it asked for, whatever became of the request.
ConfirmedBy(r) == desired \intersect (r.has \union r.missing)

\* The resynchronisation goes on with r after the step it was waiting in.
Proceed(r) ==
  LET phase == NextPhase(r)
      streams == IF phase = "subscribe" THEN r.missing ELSE r.extra
  IN IF phase = "done"
     THEN /\ resync' = NoResync
          /\ confirmed' = ConfirmedBy(r)
          /\ MarkLive(confirmed')
          /\ doubt' = doubt \union ((confirmed \intersect desired) \ confirmed')
          /\ UNCHANGED reqs
     ELSE /\ resync' = [r EXCEPT !.at = phase]
          /\ reqs' = Append(reqs, Request(IF phase = "subscribe" THEN "SUBSCRIBE"
                                          ELSE "UNSUBSCRIBE", streams, "resync"))
          /\ doubt' = IF phase = "unsubscribe" THEN doubt \union (streams \intersect desired)
                      ELSE doubt
          /\ UNCHANGED <<confirmed, sub>>

\* The resynchronisation with the list of the server's streams.
Listed(has) ==
  [at |-> "list", has |-> has, missing |-> desired \ has, extra |-> has \ desired]

ResyncAck ==
  /\ acks # << >>
  /\ Head(acks).by = "resync"
  /\ acks' = Tail(acks)
  /\ Proceed(IF resync.at = "list" THEN Listed(Head(acks).streams) ELSE resync)
  /\ UNCHANGED <<state, timer, next, desired, server, faults>>

\* The answer to the SUBSCRIBE of a first acquire.  A stream released since
\* then counts as confirmed all the same, and the Subscriptions that joined
\* the first one stay pending.
AcquireAck ==
  LET a == Head(acks) IN
  /\ acks # << >>
  /\ a.by \in Subs
  /\ acks' = Tail(acks)
  /\ confirmed' = confirmed \union a.streams
  /\ sub' = IF sub[a.by] = "pending" THEN [sub EXCEPT ![a.by] = "live"] ELSE sub
  /\ doubt' = IF a.streams \subseteq desired /\ \A u \in Subs : sub'[u] = "pending" => StreamOf[u] \notin a.streams
              THEN doubt ELSE doubt \union a.streams
  /\ UNCHANGED <<state, timer, next, desired, server, reqs, resync, faults>>

IgnoredAck ==
  /\ acks # << >>
  /\ Head(acks).by = "nobody"
  /\ acks' = Tail(acks)
  /\ UNCHANGED <<state, timer, next, desired, confirmed, server, reqs, resync, sub, doubt, faults>>

\* The continuation of a request that will not be answered any more: LIST
\* failed counts as an empty list, a failed step is skipped.
ResyncLost ==
  /\ resync.at # "none"
  /\ \A i \in DOMAIN reqs : reqs[i].by # "resync"
  /\ \A i \in DOMAIN acks : acks[i].by # "resync"
  /\ Proceed(IF resync.at = "list" THEN Listed({}) ELSE resync)
  /\ UNCHANGED <<state, timer, next, desired, server, acks, faults>>

\* A request times out although its socket lives; its answer comes too late.
Abandoned(q, by) ==
  [i \in DOMAIN q |-> IF q[i].by = by THEN [q[i] EXCEPT !.by = "nobody"] ELSE q[i]]

AckTimesOut ==
  \E q \in {reqs, acks} : \E i \in DOMAIN q :
    /\ q[i].by # "nobody"
    /\ Fault
    /\ reqs' = Abandoned(reqs, q[i].by)
    /\ acks' = Abandoned(acks, q[i].by)
    /\ doubt' = doubt \union (IF q[i].op = "LIST" THEN Streams ELSE q[i].streams)
    /\ UNCHANGED <<state, timer, next, desired, confirmed, server, resync, sub>>

----------------------------------------------------------------------------
(* The connection *)

\* The active socket is gone, with every request and answer on it.
ActiveGone ==
  /\ server' = {}
  /\ reqs' = << >>
  /\ acks' = << >>
  /\ doubt' = IF resync.at = "none" THEN doubt ELSE Streams

\* Mutant: what the last connection confirmed stays confirmed.
EstablishedKeeps ==
  /\ state' = "OPEN"
  /\ next' = NoSocket
  /\ server' = next.url
  /\ acks' = << >>
  /\ IF resync.at = "none"
     THEN /\ resync' = [NoResync EXCEPT !.at = "list"]
          /\ reqs' = <<Request("LIST", {}, "resync")>>
          /\ doubt' = {}
     ELSE /\ UNCHANGED resync
          /\ reqs' = << >>
          /\ doubt' = Streams
  /\ UNCHANGED confirmed

\* A new active socket: nothing is confirmed on it, and it is resynchronised,
\* unless a resynchronisation of an older socket is still running, which the
\* open or rotated handler then joins.
Established ==
  /\ state' = "OPEN"
  /\ next' = NoSocket
  /\ server' = next.url
  /\ acks' = << >>
  /\ confirmed' = {}
  /\ IF resync.at = "none"
     THEN /\ resync' = [NoResync EXCEPT !.at = "list"]
          /\ reqs' = <<Request("LIST", {}, "resync")>>
          /\ doubt' = {}
     ELSE /\ UNCHANGED resync
          /\ reqs' = << >>
          /\ doubt' = Streams

PrimaryOpens ==
  /\ next.purpose = "primary"
  /\ Established
  /\ UNCHANGED <<timer, desired, sub, faults>>

\* The replacement takes over; subscribers are told nothing.
Rotated ==
  /\ next.purpose = "rotation"
  /\ Established
  /\ UNCHANGED <<timer, desired, sub, faults>>

\* The URL carries the streams desired now, not when the socket opens.
Rotate ==
  /\ state \in {"OPEN", "LOST"}
  /\ next = NoSocket
  /\ Fault
  /\ next' = [purpose |-> "rotation", url |-> desired]
  /\ UNCHANGED <<state, timer, desired, confirmed, socketVars, resync, sub, doubt>>

RotationFails ==
  /\ next.purpose = "rotation"
  /\ Fault
  /\ next' = NoSocket
  /\ UNCHANGED <<state, timer, desired, confirmed, socketVars, resync, sub, doubt>>

\* The active socket is lost.  A replacement under way may still take over,
\* until the reconnect timer fires and forgets it.  If it is lost in turn
\* before that, a reconnect is scheduled already: the state stays OPEN, and
\* subscribers are told nothing until the timer fires.
Drop ==
  /\ state = "OPEN"
  /\ Fault
  /\ timer' = TRUE
  /\ ActiveGone
  /\ \/ ~timer /\ state' = "RECONNECTING" /\ MarkPending
     \/ timer /\ state' = "LOST" /\ UNCHANGED sub
  /\ UNCHANGED <<next, desired, confirmed, resync>>

ConnectFails ==
  /\ next.purpose = "primary"
  /\ Fault
  /\ state' = "RECONNECTING"
  /\ timer' = TRUE
  /\ next' = NoSocket
  /\ MarkPending
  /\ UNCHANGED <<desired, confirmed, socketVars, resync, doubt>>

\* openPrimarySocket, by the reconnect timer or by reconnect().
Reopen ==
  /\ state' = "CONNECTING"
  /\ timer' = FALSE
  /\ next' = [purpose |-> "primary", url |-> desired]
  /\ ActiveGone
  /\ MarkPending
  /\ UNCHANGED <<desired, confirmed, resync>>

ReconnectFires ==
  /\ timer
  /\ Reopen
  /\ UNCHANGED faults

\* The heartbeat found an open connection silent.
Replace ==
  /\ state \in {"OPEN", "LOST"}
  /\ Fault
  /\ Reopen

----------------------------------------------------------------------------
SubscriberStep == \E u \in Subs : Join(u) \/ Acquire(u) \/ Release(u)

AckStep == ResyncAck \/ AcquireAck \/ IgnoredAck

ConnectionStep ==
  \/ PrimaryOpens
  \/ Rotated
  \/ Rotate
  \/ RotationFails
  \/ Drop
  \/ ConnectFails
  \/ ReconnectFires
  \/ Replace

Next == SubscriberStep \/ Serve \/ AckStep \/ ResyncLost \/ AckTimesOut \/ ConnectionStep

Spec == Init /\ [][Next]_vars

\* The server answers on a socket that lives, timers fire, and a socket that
\* is being opened opens or fails.  Subscribers need not do anything.
Fairness ==
  /\ WF_vars(Serve)
  /\ WF_vars(AckStep)
  /\ WF_vars(ResyncLost)
  /\ WF_vars(PrimaryOpens \/ ConnectFails)
  /\ WF_vars(Rotated \/ RotationFails)
  /\ WF_vars(ReconnectFires)

FairSpec == Spec /\ Fairness

----------------------------------------------------------------------------
(* Properties *)

Queued(op, s) ==
  \/ \E i \in DOMAIN reqs : reqs[i].op = op /\ s \in reqs[i].streams

\* A live Subscription is delivered, or about to be: the server has its
\* stream on the active socket, or a SUBSCRIBE for it is on the way, or the
\* resynchronisation has still to compare the server's list (after a
\* rotation), or the socket is lost and the reconnect that replaces it, and
\* tells the subscribers, is scheduled.
LiveIsDelivered ==
  \A u \in Subs : sub[u] = "live" /\ StreamOf[u] \notin doubt =>
    \/ /\ state = "OPEN"
       /\ \/ StreamOf[u] \in server
          \/ Queued("SUBSCRIBE", StreamOf[u])
          \/ resync.at = "list"
    \/ state = "LOST" /\ timer

\* A stream counts as confirmed only if the active socket carries it.
ConfirmedTruthful ==
  \A s \in confirmed \ doubt :
    state = "OPEN" => s \in server \/ Queued("SUBSCRIBE", s)

\* When nothing is under way the server, the desired and the confirmed
\* streams agree and every Subscription is live, but for doubted streams.
Quiet ==
  /\ state = "OPEN"
  /\ reqs = << >> /\ acks = << >>
  /\ resync.at = "none"

Converged ==
  Quiet =>
    \A s \in Streams \ doubt :
      /\ s \in server <=> s \in desired
      /\ s \in confirmed <=> s \in desired
      /\ \A u \in Subs : StreamOf[u] = s => sub[u] # "pending"

\* "verified with LIST_SUBSCRIPTIONS and repaired" (BaseWS.ts): the repair of
\* the subscriptions does not unsubscribe a stream that is desired.
RepairDropsNothing ==
  [][resync.at = "subscribe" /\ resync'.at = "unsubscribe" => resync.extra \intersect desired = {}]_vars

\* "Streams the server confirmed on the current connection" (BaseWS.ts): the
\* end of a resynchronisation forgets no stream the socket carries.
RepairForgetsNothing ==
  [][resync.at # "none" /\ resync'.at = "none" =>
       confirmed \intersect desired \intersect server \subseteq confirmed']_vars

\* A Subscription does not stay pending, whatever happens to its connection.
GoesLive ==
  \A u \in Subs :
    sub[u] = "pending" ~> sub[u] \in {"live", "closed"} \/ StreamOf[u] \in doubt
=============================================================================
