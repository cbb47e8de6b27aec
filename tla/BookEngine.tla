----------------------------- MODULE BookEngine -----------------------------
(***************************************************************************)
(* BookEngine for one symbol (books of different symbols share no state),  *)
(* with the exchange it follows: the depth stream that carries diffs, the  *)
(* REST snapshot route, and the pooled subscription in between.            *)
(*                                                                         *)
(* Every await of the code is a point where another step may run: a watch  *)
(* is suspended in family().subscribe and in the snapshot request, the     *)
(* resync task in its delay and in its snapshot request.                   *)
(***************************************************************************)
EXTENDS OrderBook, FiniteSets

CONSTANTS Watches,       \* the calls of watch(); each creates at most one book
          Products,      \* the values of BookEngineOptions.product to consider
          MaxUpdateId,   \* bound: updates the exchange makes
          MaxDrops,      \* bound: connection drops
          MaxCloses,     \* bound: closes of the WS platform
          MaxRotations,  \* bound: connection renewals
          MaxErrors      \* bound: failing snapshot requests and subscribes

ASSUME ProductsAssumption == Products \subseteq {"usdm", "spot"} /\ Products # {}
ASSUME BoundsAssumption == /\ MaxUpdateId \in Nat
                           /\ MaxDrops \in Nat
                           /\ MaxCloses \in Nat
                           /\ MaxRotations \in Nat
                           /\ MaxErrors \in Nat

None == "none"
ASSUME WatchesAssumption == None \notin Watches /\ IsFiniteSet(Watches)

VARIABLES
  product,    \* the engine's product, fixed at construction
  exId,       \* exchange: id of the last update of the symbol's book
  exPub,      \* exchange: final id of the last diff event
  chan,       \* diffs on their way to the client, oldest first
  online,     \* the server delivers the stream on the connection
  faults,     \* faults so far, per kind
  registered, \* watches whose Subscription is in the registry's mapping
  listening,  \* watches whose Subscription has the engine's listeners
  confirmed,  \* watches whose Subscription is in the state live
  cur,        \* books: the watch that created the book in the map, or None
  mb,         \* that ManagedBook
  sub,        \* subscriptions: the watch whose Subscription is in the map
  closed,     \* the engine's closed flag
  watch,      \* per watch call: where it is suspended and what it fetches
  resync      \* the resync task of the symbol (its presence is resyncing)

exchange == <<product, exId, exPub>>
stream == <<chan, online, registered, confirmed>>
engine == <<listening, cur, mb, sub, closed>>
vars == <<exchange, stream, engine, faults, watch, resync>>

\* subscribing: first subscriber, awaits the server's ack; joining: the stream
\* has a subscriber already, so subscribe() resolves without one.
WatchPcs == {"idle", "subscribing", "joining", "fetching", "resolved", "rejected"}
FaultKinds == {"drop", "close", "rotation", "error"}
ResyncPcs == {"idle", "delay", "fetching"}

\* A task suspended on its snapshot request knows the book it looked up
\* before the await and the update id the exchange was at.
Tasks(pcs) == [pc : pcs, book : Watches \union {None}, asked : Nat]
Task(pc, b, id) == [pc |-> pc, book |-> b, asked |-> id]
NoTask(pc) == Task(pc, None, 0)

TypeOK ==
  /\ product \in Products
  /\ exId \in Nat
  /\ exPub \in Nat
  /\ exPub <= exId
  /\ chan \in Seq(Diffs)
  /\ online \in BOOLEAN
  /\ faults \in [FaultKinds -> Nat]
  /\ registered \in SUBSET Watches
  /\ listening \in SUBSET registered
  /\ confirmed \in SUBSET registered
  /\ cur \in Watches \union {None}
  /\ mb \in ManagedBooks
  /\ sub \in Watches \union {None}
  /\ closed \in BOOLEAN
  /\ watch \in [Watches -> Tasks(WatchPcs)]
  /\ resync \in Tasks(ResyncPcs)

Init ==
  /\ product \in Products
  /\ exId = 0
  /\ exPub = 0
  /\ chan = << >>
  /\ online = FALSE
  /\ faults = [f \in FaultKinds |-> 0]
  /\ registered = {}
  /\ listening = {}
  /\ confirmed = {}
  /\ cur = None
  /\ mb = ClosedBook
  /\ sub = None
  /\ closed = FALSE
  /\ watch = [w \in Watches |-> NoTask("idle")]
  /\ resync = NoTask("idle")

----------------------------------------------------------------------------
(* The exchange and the pooled connection (external) *)

Fault(f, bound) ==
  /\ faults[f] < bound
  /\ faults' = [faults EXCEPT ![f] = @ + 1]

\* The symbol's book changes.
Trade ==
  /\ exId < MaxUpdateId
  /\ exId' = exId + 1
  /\ UNCHANGED <<product, exPub, stream, engine, faults, watch, resync>>

\* The exchange batches the changes since the last event into one diff; only
\* a client it delivers to gets it.
Publish ==
  /\ exPub < exId
  /\ exPub' = exId
  /\ LET d == [U |-> exPub + 1, u |-> exId,
               pu |-> IF product = "usdm" THEN exPub ELSE NoPu]
     IN  chan' = IF online THEN Append(chan, d) ELSE chan
  /\ UNCHANGED <<product, exId, online, registered, confirmed, engine, faults,
                 watch, resync>>

\* The connection is back and carries the stream again; what was published
\* meanwhile is gone.
Reconnect ==
  /\ ~online
  /\ registered # {}
  /\ \A w \in registered : watch[w].pc # "subscribing"
  /\ online' = TRUE
  /\ confirmed' = registered
  /\ UNCHANGED <<exchange, chan, registered, engine, faults, watch, resync>>

\* The connection is replaced by a fresh one.  The stream goes on, no
\* subscription is interrupted, and the oldest diffs in flight on the old
\* socket are lost.
Rotate ==
  /\ online
  /\ Fault("rotation", MaxRotations)
  /\ \E k \in 1..Len(chan) : chan' = SubSeq(chan, k + 1, Len(chan))
  /\ UNCHANGED <<exchange, online, registered, confirmed, engine, watch, resync>>

----------------------------------------------------------------------------
(* The desync listener *)

\* book.on('desync', ...) -> scheduleResync: m is the book that desynced.
\* A resync in flight swallows the event.
ScheduleResync(desyncs, m) ==
  resync' = IF /\ desyncs
               /\ resync.pc = "idle"
               /\ ~closed
               /\ m.st = "desynced"
            THEN NoTask("delay") ELSE resync

\* receiveDiff loses the sequence: the step in which it emits desync.
LosesSync(m, next) == IsSynced(m.book) /\ ~IsSynced(next.book)

\* The watch that created the current book hears of its own subscription.
InterruptBook(heard) ==
  IF cur \in heard
  THEN /\ mb' = MarkInterrupted(mb)
       /\ ScheduleResync(mb.st = "live", mb')
  ELSE UNCHANGED <<mb, resync>>

\* The connection drops: the subscriptions that were live are interrupted.
Interrupt ==
  /\ online
  /\ Fault("drop", MaxDrops)
  /\ online' = FALSE
  /\ chan' = << >>
  /\ confirmed' = {}
  /\ InterruptBook(listening \intersect confirmed)
  /\ UNCHANGED <<exchange, registered, listening, cur, sub, closed, watch>>

\* The WS platform is closed under the engine: every subscription closes.
StreamClosed ==
  /\ registered # {}
  /\ Fault("close", MaxCloses)
  /\ online' = FALSE
  /\ chan' = << >>
  /\ registered' = {}
  /\ confirmed' = {}
  /\ InterruptBook(listening)
  /\ listening' = {}
  /\ UNCHANGED <<exchange, cur, sub, closed, watch>>

\* One frame reaches the engine through every listening subscription.
Deliver ==
  /\ chan # << >>
  /\ chan' = Tail(chan)
  /\ IF closed \/ cur = None
     THEN UNCHANGED <<mb, resync>>
     ELSE /\ mb' = ReceiveTimes(mb, Head(chan), Cardinality(listening))
          /\ ScheduleResync(LosesSync(mb, mb'), mb')
  /\ UNCHANGED <<exchange, online, registered, confirmed, listening, cur, sub,
                 closed, faults, watch>>

----------------------------------------------------------------------------
(* unwatch and close *)

\* Mutant: the listeners outlive the subscription.
ReleaseKeepsListeners(gone) ==
  /\ registered' = registered \ gone
  /\ confirmed' = confirmed \ gone
  /\ IF registered' = {}
     THEN online' = FALSE /\ chan' = << >>
     ELSE UNCHANGED <<online, chan>>
  /\ UNCHANGED listening

\* Subscription.close() of the watches in gone: the last release stops the
\* stream.
Release(gone) ==
  /\ registered' = registered \ gone
  /\ listening' = listening \ gone
  /\ confirmed' = confirmed \ gone
  /\ IF registered' = {}
     THEN online' = FALSE /\ chan' = << >>
     ELSE UNCHANGED <<online, chan>>

\* The body of unwatch(): it runs to its end without an await.
DropBook ==
  /\ cur' = None
  /\ mb' = ClosedBook
  /\ sub' = None
  /\ Release({sub})

Unwatch ==
  /\ cur # None \/ sub # None
  /\ DropBook
  /\ UNCHANGED <<exchange, closed, faults, watch, resync>>

Close ==
  /\ ~closed
  /\ closed' = TRUE
  /\ DropBook
  /\ UNCHANGED <<exchange, faults, watch, resync>>

----------------------------------------------------------------------------
(* watch *)

\* A live symbol returns its existing book, whatever its sync state.
WatchExisting(w) ==
  /\ watch[w].pc = "idle"
  /\ cur # None
  /\ watch' = [watch EXCEPT ![w] = Task("resolved", cur, 0)]
  /\ UNCHANGED <<exchange, stream, engine, faults, resync>>

WatchRefused(w) ==
  /\ watch[w].pc = "idle"
  /\ cur = None
  /\ closed
  /\ watch' = [watch EXCEPT ![w] = NoTask("rejected")]
  /\ UNCHANGED <<exchange, stream, engine, faults, resync>>

\* Up to the first await: the book is in the map, the stream is asked for.
WatchStart(w) ==
  /\ watch[w].pc = "idle"
  /\ cur = None
  /\ ~closed
  /\ cur' = w
  /\ mb' = NewBook
  /\ registered' = registered \union {w}
  /\ confirmed' = IF online THEN confirmed \union {w} ELSE confirmed
  /\ watch' = [watch EXCEPT ![w] =
                 NoTask(IF registered = {} THEN "subscribing" ELSE "joining")]
  /\ UNCHANGED <<exchange, chan, online, listening, sub, closed, faults, resync>>

\* The subscribe resolves; the listeners attach, and snapshot() looks the
\* symbol's book up before its request.
AttachAndFetch(w) ==
  /\ listening' = listening \union ({w} \intersect registered)
  /\ sub' = w
  /\ watch' = [watch EXCEPT ![w] =
                 IF cur = None THEN Task("resolved", w, 0)
                 ELSE Task("fetching", cur, exId)]
  /\ UNCHANGED <<exchange, chan, registered, cur, mb, closed, faults, resync>>

\* The server acks the stream.  Only the acked Subscription is marked live,
\* unless the ack came with the connection's opening, which refreshes all.
WatchAcked(w) ==
  /\ watch[w].pc = "subscribing"
  /\ w \in registered
  /\ online' = TRUE
  /\ confirmed' \in {confirmed \union {w}, registered}
  /\ AttachAndFetch(w)

WatchJoined(w) ==
  /\ watch[w].pc = "joining"
  /\ UNCHANGED <<online, confirmed>>
  /\ AttachAndFetch(w)

\* subscribe rejects (the registry keeps the registration) or the snapshot
\* request fails: the catch block unwatches the symbol and rethrows.
WatchFails(w) ==
  /\ \/ watch[w].pc \in {"subscribing", "fetching"} /\ Fault("error", MaxErrors)
     \/ watch[w].pc = "subscribing" /\ w \notin registered /\ UNCHANGED faults
  /\ DropBook
  /\ watch' = [watch EXCEPT ![w] = NoTask("rejected")]
  /\ UNCHANGED <<exchange, closed, resync>>

\* The snapshot answer: the exchange's book at some moment since the request.
\* It goes to the book looked up before the request; if that one is closed by
\* now, it is ignored.
WatchSnapshot(w) ==
  /\ watch[w].pc = "fetching"
  /\ IF cur = watch[w].book
     THEN \E n \in watch[w].asked .. exId :
            /\ mb' = ApplySnapshot(mb, n)
            /\ ScheduleResync(TRUE, mb')
     ELSE UNCHANGED <<mb, resync>>
  /\ watch' = [watch EXCEPT ![w] = Task("resolved", w, 0)]
  /\ UNCHANGED <<exchange, stream, listening, cur, sub, closed, faults>>

----------------------------------------------------------------------------
(* The resync task *)

\* Mutant: the second look is inverted.
ResyncWakesInverted ==
  /\ resync.pc = "delay"
  /\ resync' = IF closed \/ cur = None \/ mb.st # "live"
               THEN NoTask("idle") ELSE Task("fetching", cur, exId)
  /\ UNCHANGED <<exchange, stream, engine, faults, watch>>

\* The delay is over: look again, then request a snapshot or give up.
ResyncWakes ==
  /\ resync.pc = "delay"
  /\ resync' = IF closed \/ cur = None \/ mb.st = "live"
               THEN NoTask("idle") ELSE Task("fetching", cur, exId)
  /\ UNCHANGED <<exchange, stream, engine, faults, watch>>

\* The snapshot is applied while resyncing still holds the symbol, so a
\* desync raised by its own tail is swallowed; then the task ends.
ResyncSnapshot ==
  /\ resync.pc = "fetching"
  /\ IF cur = resync.book
     THEN \E n \in resync.asked .. exId : mb' = ApplySnapshot(mb, n)
     ELSE UNCHANGED mb
  /\ resync' = NoTask("idle")
  /\ UNCHANGED <<exchange, stream, listening, cur, sub, closed, faults, watch>>

ResyncFails ==
  /\ resync.pc = "fetching"
  /\ Fault("error", MaxErrors)
  /\ resync' = NoTask("idle")
  /\ UNCHANGED <<exchange, stream, engine, watch>>

----------------------------------------------------------------------------

WatchStep(w) ==
  \/ WatchExisting(w)
  \/ WatchRefused(w)
  \/ WatchStart(w)
  \/ WatchAcked(w)
  \/ WatchJoined(w)
  \/ WatchFails(w)
  \/ WatchSnapshot(w)

Next ==
  \/ Trade
  \/ Publish
  \/ Reconnect
  \/ Rotate
  \/ Interrupt
  \/ StreamClosed
  \/ Deliver
  \/ Unwatch
  \/ Close
  \/ \E w \in Watches : WatchStep(w)
  \/ ResyncWakes
  \/ ResyncSnapshot
  \/ ResyncFails

Spec == Init /\ [][Next]_vars

\* The exchange publishes what changed, frames and REST answers arrive, the
\* resync timer fires, a dropped connection comes back, and a subscribe whose
\* Subscription was closed rejects.  Nothing makes the user call watch, unwatch
\* or close.
Fairness ==
  /\ WF_vars(Publish)
  /\ WF_vars(Reconnect)
  /\ WF_vars(Deliver)
  /\ WF_vars(ResyncWakes)
  /\ WF_vars(ResyncSnapshot)
  /\ \A w \in Watches : WF_vars(WatchAcked(w) \/ WatchJoined(w) \/ WatchSnapshot(w))
  /\ \A w \in Watches : WF_vars(w \notin registered /\ WatchFails(w))

FairSpec == Spec /\ Fairness

----------------------------------------------------------------------------
(* Properties *)

\* A book that is in sync carries every update up to its lastUpdateId and
\* nothing else: no diff was skipped, applied twice over a newer level or
\* applied across a hole, whatever was dropped, buffered or replayed.  A book
\* shown as live is in sync in this sense (ManagedBook.isSynced: "True while
\* the local book mirrors the exchange book").
BookExact ==
  /\ IsSynced(mb.book) => mb.book.content = 1 .. mb.book.last
  /\ mb.st = "live" => IsSynced(mb.book)
  /\ mb.book.last <= exId

\* A book that is live after a frame includes that frame.  Over an
\* interruption this is the claim of applyLiveDiff that a diff which applies
\* cleanly proves that nothing was missed, also when the diff is stale or
\* several listeners hand the frame over.
LiveAfterFrame ==
  [][Deliver /\ listening # {} /\ mb'.st = "live"
       => mb'.book.last >= Head(chan).u]_vars

\* The buffer has no hole and reaches back to update id n.
GapFree(buf, n) ==
  \A i \in DOMAIN buf : buf[i].U <= (IF i = 1 THEN n ELSE buf[i - 1].u) + 1

SeedsFrom(t) == t.pc = "fetching" /\ t.book = cur /\ GapFree(mb.buf, t.asked)

SeedStep ==
  \/ \E w \in Watches : SeedsFrom(watch[w]) /\ watch'[w].pc = "resolved"
  \/ SeedsFrom(resync) /\ resync'.pc = "idle" /\ faults' = faults

OverlapApplied ==
  SeedStep => /\ mb'.st = "live"
              /\ \A i \in DOMAIN mb.buf : mb.buf[i].u <= mb'.book.last

\* "the tail that overlaps the snapshot applies on top of it - no blind
\* window" (BookEngine.ts): a snapshot that arrives over a buffer without a
\* hole leaves the book live and with every buffered diff in it.
OverlapGoesLive == [][OverlapApplied]_vars

\* The same for spot, whose diffs carry no pu.
SpotOverlapGoesLive == [][product = "spot" => OverlapApplied]_vars

\* A desynced book that nothing will repair any more.
Abandoned == cur # None /\ mb.st = "desynced" /\ resync.pc = "idle"
GivesUp == resync.pc = "fetching" /\ resync'.pc = "idle"

\* "A failed resync retries on the next desync event" (BookEngine.ts), but a
\* book that is out of sync raises none.  So a watched book goes live or is
\* dropped, unless a resync ends without repairing it: its request fails, its
\* snapshot's own tail has a hole, or its book was replaced meanwhile.  Nothing
\* else, no drop, rotation, frame or early wake-up, leaves a desynced book
\* without a resync under way.
LiveOrGivenUp ==
  /\ (cur # None) ~> (cur = None \/ mb.st = "live" \/ Abandoned)
  /\ [][~Abandoned /\ Abandoned' => GivesUp]_vars

\* "an interrupted subscription marks the book desynced immediately and a
\* resync with backoff repairs it" (BookEngine.ts): a watched book goes live
\* unless it is dropped.
BookRecovers == (cur # None) ~> (cur = None \/ mb.st = "live")
=============================================================================
