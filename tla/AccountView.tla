----------------------------- MODULE AccountView -----------------------------
(***************************************************************************)
(* The execution platform's view of an account: OrderTracker and           *)
(* PositionTracker, fed by the frames of the user stream and by            *)
(* reconcile(), which folds a REST snapshot of the open orders and then    *)
(* one of the positions (USD-M, one symbol, one-way mode).                 *)
(*                                                                         *)
(* The stream delivers its frames in order while it is connected; those of *)
(* a gap are lost.  Between a snapshot and its fold anything may happen.   *)
(* Amounts are whole lots; prices and quote quantities are left out.       *)
(***************************************************************************)
EXTENDS Integers, Sequences, FiniteSets

CONSTANTS
  Orders,      \* the account's orders, by client order id
  Sells,       \* those of them that sell
  Lots,        \* what every order asks for
  MaxRecords,  \* maxRecords of the order tracker
  MaxGaps,     \* bound: lost connections
  MaxPasses    \* bound: reconciliation passes

ASSUME AccountViewAssumption ==
  /\ IsFiniteSet(Orders)
  /\ Sells \subseteq Orders
  /\ {Lots, MaxRecords} \subseteq Nat \ {0}
  /\ {MaxGaps, MaxPasses} \subseteq Nat

VARIABLES
  order,      \* the exchange's orders: status and executed lots
  position,   \* the exchange's position
  connected,  \* the user stream is up
  frames,     \* user-data frames on their way
  records,    \* OrderTracker.records: status, executed lots, trade ids of fills
  recency,    \* the keys of records, in insertion order
  shown,      \* PositionTracker's amount
  pass,       \* the reconciliation pass under way
  gaps,       \* connections lost so far
  passes,     \* passes begun so far
  missed,     \* history: orders a frame of which was lost, or a record evicted
  evicted,    \* history: orders a record of which was evicted
  current     \* history: a pass has brought the view up to date since the last gap

exchangeVars == <<order, position>>
viewVars == <<records, recency, shown>>
vars == <<exchangeVars, connected, frames, viewVars, pass, gaps, passes, missed, evicted, current>>

Open == {"NEW", "PARTIALLY_FILLED"}
Terminal == {"FILLED", "CANCELED"}
Statuses == Open \union Terminal

Absent == [status |-> "absent", executed |-> 0, fills |-> {}]
Idle == [at |-> "idle", open |-> << >>, amount |-> 0, clean |-> FALSE]
Tracked(o) == records[o] # Absent
Amounts == (0 - Cardinality(Sells) * Lots)..(Cardinality(Orders) * Lots)

TypeOK ==
  /\ order \in [Orders -> [status : Statuses \union {"none"}, executed : 0..Lots]]
  /\ position \in Amounts /\ shown \in Amounts
  /\ connected \in BOOLEAN
  /\ records \in [Orders -> [status : Statuses \union {"absent"}, executed : 0..Lots,
                             fills : SUBSET (1..Lots)]]
  /\ \A o \in Orders : Tracked(o) <=> \E i \in DOMAIN recency : recency[i] = o
  /\ Len(recency) = Cardinality({o \in Orders : Tracked(o)})
  /\ Len(recency) <= MaxRecords
  /\ pass.at \in {"idle", "orders", "ordersServed", "positions", "positionsServed"}
  /\ missed \subseteq Orders /\ evicted \subseteq missed
  /\ current => connected

Init ==
  /\ order = [o \in Orders |-> [status |-> "none", executed |-> 0]]
  /\ position = 0
  /\ connected = FALSE
  /\ frames = << >>
  /\ records = [o \in Orders |-> Absent]
  /\ recency = << >>
  /\ shown = 0
  /\ pass = Idle
  /\ gaps = 0
  /\ passes = 0
  /\ missed = {}
  /\ evicted = {}
  /\ current = FALSE

----------------------------------------------------------------------------
(* The exchange *)

OrderFrame(o, status, executed, trade) ==
  [kind |-> "order", o |-> o, status |-> status, executed |-> executed, trade |-> trade]

NoTrade == 0

\* The order changes; its frames go out, or are lost when nobody listens.
Changes(o, status, executed, trade) ==
  LET moved == IF trade = NoTrade THEN position
               ELSE IF o \in Sells THEN position - 1 ELSE position + 1
      account == IF trade = NoTrade THEN << >> ELSE <<[kind |-> "account", amount |-> moved]>>
  IN /\ order' = [order EXCEPT ![o] = [status |-> status, executed |-> executed]]
     /\ position' = moved
     /\ IF connected
        THEN frames' = Append(frames \o account, OrderFrame(o, status, executed, trade)) /\ UNCHANGED missed
        ELSE missed' = missed \union {o} /\ UNCHANGED frames
     /\ UNCHANGED <<connected, viewVars, pass, gaps, passes, evicted, current>>

Place(o) == order[o].status = "none" /\ Changes(o, "NEW", 0, NoTrade)

Trade(o) ==
  LET executed == order[o].executed + 1
  IN /\ order[o].status \in Open
     /\ Changes(o, IF executed = Lots THEN "FILLED" ELSE "PARTIALLY_FILLED", executed, executed)

Cancel(o) == order[o].status \in Open /\ Changes(o, "CANCELED", order[o].executed, NoTrade)

----------------------------------------------------------------------------
(* The trackers *)

\* Mutant: the fills of a record are those of the last observation.
FoldOrderUpdateFresh(r, u) ==
  [status |-> u.status, executed |-> u.executed,
   fills |-> IF u.trade = NoTrade THEN {} ELSE {u.trade}]

\* foldOrderUpdate: status and executed quantity are those of the observation,
\* whenever it was made; its fill is added once.
FoldOrderUpdate(r, u) ==
  [status |-> u.status, executed |-> u.executed,
   fills |-> IF u.trade = NoTrade THEN r.fills ELSE r.fills \union {u.trade}]

\* The tracker, as a value, and applyUpdate on it: a terminal record stays as
\* it is; a new one may push the oldest out.
Tracker == [records |-> records, recency |-> recency, evicted |-> {}]

\* Mutant: an update moves its record to the end, as if it were new.
ApplyUpdateReorders(t, u) ==
  LET r == [t.records EXCEPT ![u.o] = FoldOrderUpdate(@, u)]
      q == Append(t.recency, u.o)
  IN IF t.records[u.o].status \in Terminal THEN t
     ELSE IF Len(q) > MaxRecords
     THEN [records |-> [r EXCEPT ![Head(q)] = Absent], recency |-> Tail(q),
           evicted |-> t.evicted \union {Head(q)}]
     ELSE [t EXCEPT !.records = r, !.recency = q]

ApplyUpdate(t, u) ==
  LET r == [t.records EXCEPT ![u.o] = FoldOrderUpdate(@, u)]
      known == t.records[u.o] # Absent
      q == IF known THEN t.recency ELSE Append(t.recency, u.o)
  IN IF t.records[u.o].status \in Terminal THEN t
     ELSE IF Len(q) > MaxRecords
     THEN [records |-> [r EXCEPT ![Head(q)] = Absent], recency |-> Tail(q),
           evicted |-> t.evicted \union {Head(q)}]
     ELSE [t EXCEPT !.records = r, !.recency = q]

BecomesTracker(t) ==
  /\ records' = t.records
  /\ recency' = t.recency
  /\ evicted' = evicted \union t.evicted
  /\ missed' = missed \union t.evicted

\* applyUserEvent of both trackers; the amount of a position is the frame's.
Deliver ==
  /\ frames # << >>
  /\ LET f == Head(frames)
     IN IF f.kind = "order"
        THEN BecomesTracker(ApplyUpdate(Tracker, f)) /\ UNCHANGED shown
        ELSE shown' = f.amount /\ UNCHANGED <<records, recency, evicted, missed>>
  /\ frames' = Tail(frames)
  /\ pass' = [pass EXCEPT !.clean = @ /\ pass.at \notin {"ordersServed", "positionsServed"}]
  /\ UNCHANGED <<exchangeVars, connected, gaps, passes, current>>

----------------------------------------------------------------------------
(* The user stream *)

Connect ==
  /\ ~connected
  /\ connected' = TRUE
  /\ UNCHANGED <<exchangeVars, frames, viewVars, pass, gaps, passes, missed, evicted, current>>

Drop ==
  /\ connected
  /\ gaps < MaxGaps
  /\ gaps' = gaps + 1
  /\ connected' = FALSE
  /\ frames' = << >>
  /\ missed' = missed \union {frames[i].o : i \in {j \in DOMAIN frames : frames[j].kind = "order"}}
  /\ pass' = [pass EXCEPT !.clean = FALSE]
  /\ current' = FALSE
  /\ UNCHANGED <<exchangeVars, viewVars, passes, evicted>>

----------------------------------------------------------------------------
(* reconcile() *)

Reconcile ==
  /\ pass.at = "idle"
  /\ passes < MaxPasses
  /\ passes' = passes + 1
  /\ pass' = [Idle EXCEPT !.at = "orders", !.clean = connected]
  /\ UNCHANGED <<exchangeVars, connected, frames, viewVars, gaps, missed, evicted, current>>

\* GET openOrders is served: the orders open now, in any order.
OrdersServed ==
  /\ pass.at = "orders"
  /\ \E q \in [1..Cardinality({o \in Orders : order[o].status \in Open}) -> Orders] :
       /\ {q[i] : i \in DOMAIN q} = {o \in Orders : order[o].status \in Open}
       /\ pass' = [pass EXCEPT !.at = "ordersServed",
            !.open = [i \in DOMAIN q |-> OrderFrame(q[i], order[q[i]].status, order[q[i]].executed, NoTrade)]]
  /\ UNCHANGED <<exchangeVars, connected, frames, viewVars, gaps, passes, missed, evicted, current>>

\* Mutant: an order the tracker knows is not folded again.
OrdersFoldedNew ==
  /\ pass.at = "ordersServed"
  /\ LET step[i \in 0..Len(pass.open)] ==
           IF i = 0 THEN Tracker
           ELSE IF Tracked(pass.open[i].o) THEN step[i - 1]
           ELSE ApplyUpdate(step[i - 1], pass.open[i])
     IN BecomesTracker(step[Len(pass.open)])
  /\ pass' = [pass EXCEPT !.at = "positions", !.open = << >>]
  /\ UNCHANGED <<exchangeVars, connected, frames, shown, gaps, passes, current>>

\* The answer is folded, row by row, over whatever the trackers hold by now.
OrdersFolded ==
  /\ pass.at = "ordersServed"
  /\ LET step[i \in 0..Len(pass.open)] ==
           IF i = 0 THEN Tracker ELSE ApplyUpdate(step[i - 1], pass.open[i])
     IN BecomesTracker(step[Len(pass.open)])
  /\ pass' = [pass EXCEPT !.at = "positions", !.open = << >>]
  /\ UNCHANGED <<exchangeVars, connected, frames, shown, gaps, passes, current>>

\* GET positionRisk is served.
PositionsServed ==
  /\ pass.at = "positions"
  /\ pass' = [pass EXCEPT !.at = "positionsServed", !.amount = position]
  /\ UNCHANGED <<exchangeVars, connected, frames, viewVars, gaps, passes, missed, evicted, current>>

PositionsFolded ==
  /\ pass.at = "positionsServed"
  /\ shown' = pass.amount
  /\ pass' = Idle
  /\ current' = pass.clean
  /\ UNCHANGED <<exchangeVars, connected, frames, records, recency, gaps, passes, missed, evicted>>

\* Either request may fail; what was folded stays.
PassFails ==
  /\ pass.at \in {"orders", "ordersServed", "positions", "positionsServed"}
  /\ pass' = Idle
  /\ current' = (current /\ pass.clean)
  /\ UNCHANGED <<exchangeVars, connected, frames, viewVars, gaps, passes, missed, evicted>>

Next ==
  \/ \E o \in Orders : Place(o) \/ Trade(o) \/ Cancel(o)
  \/ Deliver \/ Connect \/ Drop
  \/ Reconcile \/ OrdersServed \/ OrdersFolded \/ PositionsServed \/ PositionsFolded \/ PassFails

Spec == Init /\ [][Next]_vars

----------------------------------------------------------------------------
(* Properties *)

Quiet == connected /\ frames = << >> /\ pass.at = "idle"

\* Once a pass ran on a connected stream, undisturbed by a frame between a
\* snapshot and its fold, the view of what is open is the exchange's whenever
\* no frame is on its way: every open order has a record with its status and
\* executed quantity, unless evicted, and the position is the exchange's.
ViewCurrent ==
  current /\ Quiet =>
    /\ shown = position
    /\ \A o \in Orders : order[o].status \in Open =>
         IF Tracked(o)
         THEN records[o].status = order[o].status /\ records[o].executed = order[o].executed
         ELSE o \in evicted

\* A terminal record tells the order's true end, and all its fills when no
\* frame of it was lost: what waitForTerminal resolves with is final, whatever
\* snapshots of REST, old or new, were folded before.
TerminalExact ==
  \A o \in Orders : records[o].status \in Terminal =>
    /\ records[o].status = order[o].status
    /\ records[o].executed = order[o].executed
    /\ o \notin missed => records[o].fills = 1..order[o].executed

\* What the comment of reconcile() promises after a partition: once a clean
\* pass is through and nothing is on its way, no order that the exchange has
\* closed is still shown as open.
GapClosed ==
  current /\ Quiet =>
    \A o \in Orders : records[o].status \in Open => order[o].status \in Open

=============================================================================
