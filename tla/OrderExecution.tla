--------------------------- MODULE OrderExecution ---------------------------
(***************************************************************************)
(* ExecutionManager: idempotent order placement over a network that loses  *)
(* answers, with the matching engine it talks to, the user-data stream     *)
(* that reports executions, and the risk gateway it feeds.                 *)
(*                                                                         *)
(* Every order is a limit order of notional 1 that fills in one trade.  A  *)
(* request, its effect at the engine and its answer are separate steps:    *)
(* each await of the code is where other steps may come in between.        *)
(***************************************************************************)
EXTENDS Integers, Sequences, FiniteSets

CONSTANTS
  Intents,          \* intent ids of placeOrder
  Cancels,          \* intent ids of cancelOrder
  Ids,              \* client order ids
  ClientId,         \* the client order id of each placement intent
  AckCarriesFills,  \* the acknowledgement lists its fills (spot) or not
  MaxPolls,         \* options.reconcileMaxAttempts
  MaxRetries,       \* HttpClient: maxRetries
  MaxLedger,        \* options.maxLedgerSize
  MaxOpen,          \* gateway: maxOpenNotional, in orders
  MaxFailures,      \* gateway: maxConsecutiveFailures
  MaxRequests,      \* bound: create requests per client order id
  MaxLookups,       \* bound: calls of cancelOrder and reconcile
  MaxRepeats,       \* bound: frames delivered more than once
  MaxLost,          \* bound: frames lost by the user stream
  MaxLate,          \* bound: create requests that arrive after their timeout
  MaxServerErrors   \* bound: 5xx answers, with a body, to an executed request

ASSUME NamesAssumption ==
  /\ Intents \intersect Cancels = {}
  /\ IsFiniteSet(Intents \union Cancels)
  /\ "none" \notin Intents \union Cancels
  /\ IsFiniteSet(Ids) /\ Ids # {}
  /\ ClientId \in [Intents -> Ids]
  /\ AckCarriesFills \in BOOLEAN
ASSUME LimitsAssumption ==
  /\ MaxPolls \in Nat \ {0}
  /\ MaxRetries \in Nat
  /\ MaxLedger \in Nat \ {0}
  /\ MaxOpen \in Nat
  /\ MaxFailures \in Nat \ {0}
ASSUME BoundsAssumption ==
  /\ MaxRequests \in Nat
  /\ MaxLookups \in Nat
  /\ MaxRepeats \in Nat
  /\ MaxLost \in Nat
  /\ MaxLate \in Nat
  /\ MaxServerErrors \in Nat

VARIABLES
  orders,  \* engine: per client order id, the state of each order placed under it
  wire,    \* create requests on their way to the engine
  sent,    \* per client order id, the create requests the gateway has let pass
  stream,  \* execution reports on their way to the client, oldest first
  ledger,  \* the ledger's executions in insertion order, one per intent
  byId,    \* byClientOrderId: the intent a client order id leads to
  task,    \* per client order id, the placement in flight
  call,    \* per intent, the cancelOrder or reconcile call in flight
  risk,    \* the gateway: open notional, failure streak, breaker
  faults   \* faults and calls so far, per kind

vars == <<orders, wire, sent, stream, ledger, byId, task, call, risk, faults>>
engine == <<orders, stream>>
books == <<ledger, byId, risk>>

None == "none"
OrderStates == {"NEW", "FILLED", "CANCELED"}
Statuses == OrderStates \union {"REJECTED", "UNKNOWN"}
ReconciliationStates == {"acked", "reconciled", "rejected", "unknown"}
Keys == Intents \union Cancels

\* fills holds the trade ids (the number of the order that traded); NoTrade
\* stands for a fill that carries none.  sized: requestedQuantity and
\* requestedPrice are known.
NoTrade == 0
Executions == [intent : Keys, id : Ids, state : ReconciliationStates,
               status : Statuses, fills : Seq(Nat), sized : BOOLEAN]

\* A step of placement: submission 1 or 2, its request, which the gateway has let
\* pass and which waits to leave (limiter, throttle, back-off) or has left, how
\* often it was sent again, and the answer on its way back, which may still get
\* lost.  ApiError is a BinanceApiError, Missing its -2013.
Replies == OrderStates \union {None, "ApiError", "Missing"}
Tasks == [pc : {"idle", "admitted", "submitting", "polling"},
          intent : Intents \union {None}, submission : 0..2, polls : 0..MaxPolls,
          req : Nat, attempt : 0..MaxRetries, reply : Replies]
IdleTask == [pc |-> "idle", intent |-> None, submission |-> 0, polls |-> 0,
             req |-> 0, attempt |-> 0, reply |-> None]

CallPcs == {"idle", "canceling", "canceled", "asked", "answered"}
Calls == [pc : CallPcs, id : Ids \union {None}, reply : OrderStates \union {None, "Missing"}]
IdleCall == [pc |-> "idle", id |-> None, reply |-> None]

Reports == [id : Ids, order : Nat, status : OrderStates]
FaultKinds == {"lookup", "repeat", "lost", "late", "server"}

TypeOK ==
  /\ orders \in [Ids -> Seq(OrderStates)]
  /\ wire \subseteq [id : Ids, req : Nat]
  /\ sent \in [Ids -> Nat]
  /\ stream \in Seq(Reports)
  /\ ledger \in Seq(Executions)
  /\ Len(ledger) <= MaxLedger
  /\ \A j, k \in DOMAIN ledger : ledger[j].intent = ledger[k].intent => j = k
  /\ byId \in [Ids -> Keys \union {None}]
  /\ task \in [Ids -> Tasks]
  /\ call \in [Keys -> Calls]
  /\ risk \in [open : Int, failures : Nat, tripped : BOOLEAN]
  /\ faults \in [FaultKinds -> Nat]

Init ==
  /\ orders = [c \in Ids |-> << >>]
  /\ wire = {}
  /\ sent = [c \in Ids |-> 0]
  /\ stream = << >>
  /\ ledger = << >>
  /\ byId = [c \in Ids |-> None]
  /\ task = [c \in Ids |-> IdleTask]
  /\ call = [t \in Keys |-> IdleCall]
  /\ risk = [open |-> 0, failures |-> 0, tripped |-> FALSE]
  /\ faults = [f \in FaultKinds |-> 0]

Fault(f, bound) ==
  /\ faults[f] < bound
  /\ faults' = [faults EXCEPT ![f] = @ + 1]

----------------------------------------------------------------------------
(* The ledger and the risk gateway *)

Recorded(t) == \E k \in DOMAIN ledger : ledger[k].intent = t
Entry(t) == ledger[CHOOSE k \in DOMAIN ledger : ledger[k].intent = t]

\* Mutant: an intent that is there already gets a second entry.
SetEntryTwice(led, e) == Append(led, e)

\* Map.set: an intent that is there already keeps its place.
SetEntry(led, e) ==
  IF \E k \in DOMAIN led : led[k].intent = e.intent
  THEN [k \in DOMAIN led |-> IF led[k].intent = e.intent THEN e ELSE led[k]]
  ELSE Append(led, e)

EvictOldest(led) == IF Len(led) > MaxLedger THEN Tail(led) ELSE led

Terminal(status) == status \in {"FILLED", "CANCELED", "REJECTED"}

\* The executed quote value, else the requested one, else nothing is known.
HasNotional(e) == e.sized \/ e.status = "FILLED"

GatewayAllows == ~risk.tripped /\ risk.open + 1 <= MaxOpen

RecordFailure ==
  LET streak == risk.failures + 1
  IN  [risk EXCEPT !.failures = streak, !.tripped = @ \/ streak >= MaxFailures]

\* Each call records a new execution object, so the sets of objects already
\* registered or released never hold it.
UpdatedRisk(e) ==
  IF e.state = "rejected" \/ e.status = "REJECTED" THEN RecordFailure
  ELSE [risk EXCEPT !.failures = 0,
                    !.open = IF ~HasNotional(e) THEN @
                             ELSE IF Terminal(e.status) THEN @ - 1
                             ELSE @ + 1]

Record(e) ==
  /\ ledger' = EvictOldest(SetEntry(ledger, e))
  /\ byId' = [byId EXCEPT ![e.id] = e.intent]
  /\ risk' = UpdatedRisk(e)

Execution(t, c, state, status, fills) ==
  [intent |-> t, id |-> c, state |-> state, status |-> status, fills |-> fills,
   sized |-> t \in Intents]

ResetBreaker ==
  /\ risk.tripped
  /\ risk' = [risk EXCEPT !.tripped = FALSE, !.failures = 0]
  /\ UNCHANGED <<engine, wire, sent, ledger, byId, task, call, faults>>

----------------------------------------------------------------------------
(* The matching engine (external) *)

Report(c, k, status) == [id |-> c, order |-> k, status |-> status]

Awaits(c, r) == task[c].pc = "submitting" /\ task[c].req = r /\ task[c].reply = None

\* The answer reaches the client that still waits for it, or nobody.
Answer(c, r, reply) ==
  task' = IF Awaits(c, r) THEN [task EXCEPT ![c].reply = reply] ELSE task

\* The engine takes the order, which rests or trades at once.  Uniqueness of
\* the client order id is not enforced.
Accept(m) ==
  /\ m \in wire
  /\ wire' = wire \ {m}
  /\ \E status \in {"NEW", "FILLED"} :
       /\ orders' = [orders EXCEPT ![m.id] = Append(@, status)]
       /\ stream' = Append(stream, Report(m.id, Len(orders[m.id]) + 1, status))
       /\ \/ Answer(m.id, m.req, status) /\ UNCHANGED faults
          \/ /\ Awaits(m.id, m.req)
             /\ Answer(m.id, m.req, "ApiError")
             /\ Fault("server", MaxServerErrors)
  /\ UNCHANGED <<sent, books, call>>

Refuse(m) ==
  /\ m \in wire
  /\ wire' = wire \ {m}
  /\ Answer(m.id, m.req, "ApiError")
  /\ UNCHANGED <<engine, sent, books, call, faults>>

\* Too many requests (429, 418): not processed, so a request somebody awaits is
\* sent again after a back-off, without asking the gateway again.  The last one
\* is a RateLimitError, a BinanceApiError: Refuse.
Throttled(m) ==
  /\ m \in wire
  /\ Awaits(m.id, m.req)
  /\ task[m.id].attempt < MaxRetries
  /\ wire' = wire \ {m}
  /\ task' = [task EXCEPT ![m.id].pc = "admitted", ![m.id].attempt = @ + 1]
  /\ UNCHANGED <<engine, sent, books, call, faults>>

Trade(c, k) ==
  /\ k \in DOMAIN orders[c]
  /\ orders[c][k] = "NEW"
  /\ orders' = [orders EXCEPT ![c][k] = "FILLED"]
  /\ stream' = Append(stream, Report(c, k, "FILLED"))
  /\ UNCHANGED <<wire, sent, books, task, call, faults>>

\* What GET order answers: the state of the last order under the id.
Lookup(c) == IF orders[c] = << >> THEN "Missing" ELSE orders[c][Len(orders[c])]

----------------------------------------------------------------------------
(* placeOrder *)

\* The gateway has let a create request pass; it has not left yet.
Admit(c, i, n) ==
  /\ sent' = [sent EXCEPT ![c] = @ + 1]
  /\ task' = [task EXCEPT ![c] = [IdleTask EXCEPT !.pc = "admitted", !.intent = i,
                                    !.submission = n, !.req = sent[c] + 1]]

\* The limiter, the throttle or the back-off lets the request go.  Nobody asks
\* the gateway again.
Send(c) ==
  /\ task[c].pc = "admitted"
  /\ wire' = wire \union {[id |-> c, req |-> task[c].req]}
  /\ task' = [task EXCEPT ![c].pc = "submitting"]
  /\ UNCHANGED <<engine, sent, books, call, faults>>

Settle(c) == task' = [task EXCEPT ![c] = IdleTask]

\* Mutant: the open notional is not checked.
PlaceOrderUnbudgeted(i) ==
  LET c == ClientId[i]
  IN  /\ ~Recorded(i)
      /\ task[c].pc = "idle"
      /\ ~risk.tripped
      /\ sent[c] + 2 <= MaxRequests
      /\ Admit(c, i, 1)
      /\ UNCHANGED <<engine, wire, books, call, faults>>

\* An intent that is in the ledger, or whose client order id is in flight,
\* returns what is there; one the gateway denies throws.  Neither changes
\* anything.
PlaceOrder(i) ==
  LET c == ClientId[i]
  IN  /\ ~Recorded(i)
      /\ task[c].pc = "idle"
      /\ GatewayAllows
      /\ sent[c] + 2 <= MaxRequests
      /\ Admit(c, i, 1)
      /\ UNCHANGED <<engine, wire, books, call, faults>>

\* The fills an acknowledgement lists come without their trade id.
AckFills(status) ==
  IF AckCarriesFills /\ status = "FILLED" THEN << NoTrade >> ELSE << >>

Acknowledged(c) ==
  /\ task[c].pc = "submitting"
  /\ task[c].reply \in OrderStates
  /\ Record(Execution(task[c].intent, c, "acked", task[c].reply, AckFills(task[c].reply)))
  /\ Settle(c)
  /\ UNCHANGED <<engine, wire, sent, call, faults>>

\* A BinanceApiError counts as a definitive rejection, whatever its status.
Rejected(c) ==
  /\ task[c].pc = "submitting"
  /\ task[c].reply = "ApiError"
  /\ Record(Execution(task[c].intent, c, "rejected", "REJECTED", << >>))
  /\ Settle(c)
  /\ UNCHANGED <<engine, wire, sent, call, faults>>

\* A NetworkError: the request was lost, or executed, or is only late.
TimesOut(c) ==
  /\ task[c].pc = "submitting"
  /\ \/ /\ wire' = wire \ {[id |-> c, req |-> task[c].req]}
        /\ UNCHANGED faults
     \/ /\ [id |-> c, req |-> task[c].req] \in wire
        /\ Fault("late", MaxLate)
        /\ UNCHANGED wire
  /\ task' = [task EXCEPT ![c].pc = "polling", ![c].reply = None]
  /\ UNCHANGED <<engine, sent, books, call>>

\* The engine answers a poll; the answer is on its way.
PollServed(c) ==
  /\ task[c].pc = "polling"
  /\ task[c].reply = None
  /\ task' = [task EXCEPT ![c].reply = Lookup(c)]
  /\ UNCHANGED <<engine, wire, sent, books, call, faults>>

Recovered(c) ==
  /\ task[c].pc = "polling"
  /\ task[c].reply \in OrderStates
  /\ Record(Execution(task[c].intent, c, "reconciled", task[c].reply, << >>))
  /\ Settle(c)
  /\ UNCHANGED <<engine, wire, sent, call, faults>>

RecordUnknown(c) ==
  /\ Record(Execution(task[c].intent, c, "unknown", "UNKNOWN", << >>))
  /\ Settle(c)
  /\ UNCHANGED <<wire, sent>>

\* Mutant: the resubmission does not pass the gateway.
NotFoundUnchecked(c) ==
  /\ task[c].pc = "polling"
  /\ task[c].reply = "Missing"
  /\ IF task[c].submission = 2 THEN RecordUnknown(c)
     ELSE Admit(c, task[c].intent, 2) /\ UNCHANGED <<wire, books>>
  /\ UNCHANGED <<engine, call, faults>>

\* The order does not exist: one resubmission, which the gateway checks again.
NotFound(c) ==
  /\ task[c].pc = "polling"
  /\ task[c].reply = "Missing"
  /\ IF task[c].submission = 2 THEN RecordUnknown(c)
     ELSE IF GatewayAllows THEN Admit(c, task[c].intent, 2) /\ UNCHANGED <<wire, books>>
     ELSE Settle(c) /\ UNCHANGED <<wire, sent, books>>
  /\ UNCHANGED <<engine, call, faults>>

\* Mutant: polls that never succeed are taken for an order that is not there.
PollFailsResubmits(c) ==
  /\ task[c].pc = "polling"
  /\ IF task[c].polls + 1 < MaxPolls
     THEN /\ task' = [task EXCEPT ![c].polls = @ + 1, ![c].reply = None]
          /\ UNCHANGED <<wire, sent, books>>
     ELSE IF task[c].submission = 1
     THEN Admit(c, task[c].intent, 2) /\ UNCHANGED <<wire, books>>
     ELSE RecordUnknown(c)
  /\ UNCHANGED <<engine, call, faults>>

\* Mutant: polls that never succeed leave nothing behind.
PollFailsSilently(c) ==
  /\ task[c].pc = "polling"
  /\ IF task[c].polls + 1 < MaxPolls
     THEN task' = [task EXCEPT ![c].polls = @ + 1, ![c].reply = None]
     ELSE Settle(c)
  /\ UNCHANGED <<engine, wire, sent, books, call, faults>>

\* Mutant: a failed poll is not counted.
PollFailsUncounted(c) ==
  /\ task[c].pc = "polling"
  /\ IF task[c].polls + 1 < MaxPolls
     THEN /\ task' = [task EXCEPT ![c].reply = None]
          /\ UNCHANGED <<wire, sent, books>>
     ELSE RecordUnknown(c)
  /\ UNCHANGED <<engine, call, faults>>

\* The poll itself fails; the last one leaves the outcome unknown.
PollFails(c) ==
  /\ task[c].pc = "polling"
  /\ IF task[c].polls + 1 < MaxPolls
     THEN /\ task' = [task EXCEPT ![c].polls = @ + 1, ![c].reply = None]
          /\ UNCHANGED <<wire, sent, books>>
     ELSE RecordUnknown(c)
  /\ UNCHANGED <<engine, call, faults>>

----------------------------------------------------------------------------
(* Execution reports *)

\* Mutant: fills are not told apart by their trade id.
AddFillAlways(fills, trade) == Append(fills, trade)

\* A fill counts once: the same trade may be reported again.
AddFill(fills, trade) ==
  IF \E k \in DOMAIN fills : fills[k] = trade THEN fills ELSE Append(fills, trade)

\* onExecutionReport: the entry takes over what the report says, in place.  A
\* report of an order the ledger does not know (yet) is dropped.
ApplyReport(r) ==
  ledger' = [k \in DOMAIN ledger |->
               IF ledger[k].intent # byId[r.id] THEN ledger[k]
               ELSE [ledger[k] EXCEPT
                       !.status = r.status,
                       !.fills = IF r.status = "FILLED" THEN AddFill(@, r.order) ELSE @]]

\* A frame arrives, once or again.
Deliver ==
  /\ stream # << >>
  /\ ApplyReport(Head(stream))
  /\ \/ stream' = Tail(stream) /\ UNCHANGED faults
     \/ UNCHANGED stream /\ Fault("repeat", MaxRepeats)
  /\ UNCHANGED <<orders, wire, sent, byId, task, call, risk>>

\* A frame the engine sent while the user stream was down.
LoseFrame ==
  /\ stream # << >>
  /\ stream' = Tail(stream)
  /\ Fault("lost", MaxLost)
  /\ UNCHANGED <<orders, wire, sent, books, task, call>>

----------------------------------------------------------------------------
(* cancelOrder and reconcile *)

SetCall(t, pc, c, reply) ==
  call' = [call EXCEPT ![t] = [pc |-> pc, id |-> c, reply |-> reply]]
EndCall(t) == call' = [call EXCEPT ![t] = IdleCall]

\* The gateway refuses a cancel, too, while the breaker is tripped.
CancelOrder(t, c) ==
  /\ t \in Cancels
  /\ call[t].pc = "idle"
  /\ ~Recorded(t)
  /\ ~risk.tripped
  /\ Fault("lookup", MaxLookups)
  /\ SetCall(t, "canceling", c, None)
  /\ UNCHANGED <<engine, wire, sent, books, task>>

\* The engine takes a resting order off the book, or knows of none (-2011).
CancelServed(t) ==
  /\ call[t].pc = "canceling"
  /\ LET c == call[t].id
         resting == {k \in DOMAIN orders[c] : orders[c][k] = "NEW"}
     IN  \/ \E k \in resting :
              /\ orders' = [orders EXCEPT ![c][k] = "CANCELED"]
              /\ stream' = Append(stream, Report(c, k, "CANCELED"))
              /\ SetCall(t, "canceled", c, "CANCELED")
         \/ /\ resting = {}
            /\ SetCall(t, "canceled", c, "Missing")
            /\ UNCHANGED engine
  /\ UNCHANGED <<wire, sent, books, task, faults>>

\* An order that is gone already is what the caller wants.  The record goes
\* under the cancel's own intent, and takes over the client order id.
CancelRecorded(t) ==
  /\ call[t].pc = "canceled"
  /\ Record(Execution(t, call[t].id,
                      IF call[t].reply = "Missing" THEN "reconciled" ELSE "acked",
                      "CANCELED", << >>))
  /\ EndCall(t)
  /\ UNCHANGED <<engine, wire, sent, task, faults>>

\* A NetworkError: the cancel may have taken effect; ask for the order.
CancelTimesOut(t) ==
  /\ call[t].pc \in {"canceling", "canceled"}
  /\ SetCall(t, "asked", call[t].id, None)
  /\ UNCHANGED <<engine, wire, sent, books, task, faults>>

Reconcile(t) ==
  /\ t \in Intents
  /\ call[t].pc = "idle"
  /\ Recorded(t)
  /\ Fault("lookup", MaxLookups)
  /\ SetCall(t, "asked", Entry(t).id, None)
  /\ UNCHANGED <<engine, wire, sent, books, task>>

AskServed(t) ==
  /\ call[t].pc = "asked"
  /\ SetCall(t, "answered", call[t].id, Lookup(call[t].id))
  /\ UNCHANGED <<engine, wire, sent, books, task, faults>>

\* What was fetched is recorded; a cancel whose order is still there stays
\* unknown.
AskRecorded(t) ==
  /\ call[t].pc = "answered"
  /\ call[t].reply # "Missing"
  /\ Record(Execution(t, call[t].id,
                      IF t \in Cancels /\ call[t].reply # "CANCELED"
                      THEN "unknown" ELSE "reconciled",
                      call[t].reply, << >>))
  /\ EndCall(t)
  /\ UNCHANGED <<engine, wire, sent, task, faults>>

\* The order is not there, or the query fails: the call throws.
AskFails(t) ==
  /\ call[t].pc \in {"asked", "answered"}
  /\ EndCall(t)
  /\ UNCHANGED <<engine, wire, sent, books, task, faults>>

----------------------------------------------------------------------------

TaskStep(c) ==
  \/ Send(c)
  \/ Acknowledged(c)
  \/ Rejected(c)
  \/ TimesOut(c)
  \/ PollServed(c)
  \/ Recovered(c)
  \/ NotFound(c)
  \/ PollFails(c)

CallStep(t) ==
  \/ \E c \in Ids : CancelOrder(t, c)
  \/ CancelServed(t)
  \/ CancelRecorded(t)
  \/ CancelTimesOut(t)
  \/ Reconcile(t)
  \/ AskServed(t)
  \/ AskRecorded(t)
  \/ AskFails(t)

Next ==
  \/ \E m \in wire : Accept(m) \/ Refuse(m) \/ Throttled(m)
  \/ \E c \in Ids, k \in 1..MaxRequests : Trade(c, k)
  \/ \E i \in Intents : PlaceOrder(i)
  \/ \E c \in Ids : TaskStep(c)
  \/ \E t \in Keys : CallStep(t)
  \/ Deliver
  \/ LoseFrame
  \/ ResetBreaker

Spec == Init /\ [][Next]_vars

\* Every request leaves, and is answered or times out.  Nothing makes the engine answer,
\* the caller call or the stream deliver.
Fairness == \A c \in Ids : WF_vars(TaskStep(c))

FairSpec == Spec /\ Fairness

----------------------------------------------------------------------------
(* Properties *)

Filled(c) == {k \in DOMAIN orders[c] : orders[c][k] = "FILLED"}
Placed(c) == {i \in Intents : ClientId[i] = c}

\* No request has outlived its timeout, and no 5xx answered an executed one.
Timely == faults["late"] = 0 /\ faults["server"] = 0

\* The ledger has room for every intent, so it evicts none.
Roomy == Cardinality(Keys) <= MaxLedger

\* An intent is at most one order, whatever answers, polls and frames were lost
\* and however often it was placed again, as long as the ledger remembers it
\* and no request is executed after the lookup that missed it.
AtMostOnePerIntent ==
  Roomy /\ faults["late"] = 0 =>
    \A c \in Ids : Len(orders[c]) <= Cardinality(Placed(c))

\* The second submission "only happens when reconciliation proved the first
\* never reached the engine (-2013), so it cannot double" (ExecutionManager.ts).
NeverDoubled == \A c \in Ids : Len(orders[c]) <= Cardinality(Placed(c))

\* No order is lost: once the placement has ended, an order at the engine has
\* an execution in the ledger which does not deny that the order exists.
NoOrderLost ==
  Roomy /\ Timely => \A c \in Ids : orders[c] # << >> /\ task[c].pc = "idle" =>
    \E k \in DOMAIN ledger : /\ ledger[k].id = c
                             /\ ledger[k].intent \in Intents
                             /\ ledger[k].state # "rejected"

\* "The exchange definitively rejected the request; no order exists" (the
\* reconciliation state `rejected`, types.ts), while an answer with status 5xx
\* is "an ambiguous failure" (ExecutionManager.ts).
RejectedMeansNoOrder ==
  \A k \in DOMAIN ledger : ledger[k].state = "rejected" => orders[ledger[k].id] = << >>

\* The ledger shows nothing the engine has not done: an order it shows filled
\* has filled, and each of its fills is one trade, counted once; as long as it
\* evicts no entry (byClientOrderId keeps the ids of an evicted one).
LedgerTruthful ==
  Roomy => \A k \in DOMAIN ledger :
    LET e == ledger[k]
    IN  /\ e.status = "FILLED" => Filled(e.id) # {}
        /\ Len(e.fills) <= Cardinality(Filled(e.id))

\* Open orders "are released on terminal states" (RiskGateway.ts): with nothing
\* in flight and every execution terminal, none counts against the budget.
Quiet ==
  /\ stream = << >>
  /\ \A c \in Ids : task[c].pc = "idle"
  /\ \A t \in Keys : call[t].pc = "idle"
ExposureReleased ==
  Quiet /\ (\A k \in DOMAIN ledger : Terminal(ledger[k].status)) => risk.open <= 0

\* The open notional is checked before a request waits to leave and charged when
\* its answer is recorded, so placements that run together pass the check together;
\* and reconcile() charges an order that is charged already, since it records
\* another execution object.  This is all that exceeds maxOpenNotional: one
\* order per further client order id, and one per lookup.
OvershootBounded == risk.open <= MaxOpen + (Cardinality(Ids) - 1) + faults["lookup"]

\* The gateway is asked once, before the limiter, the throttle and the back-off
\* of a retry; the first submission and the resubmission ask it each.  While the
\* breaker is tripped, then, the create requests that may still reach the engine
\* are those it had let pass before, waiting or on their way: they only grow
\* fewer, however often they are sent again, and no lookup that finds nothing
\* adds one.
Outstanding ==
  wire \union {[id |-> c, req |-> task[c].req] : c \in {d \in Ids : task[d].pc = "admitted"}}
BreakerHolds == [][risk.tripped => Outstanding' \subseteq Outstanding]_vars

\* "the circuit breaker trips and every mutating request is refused until the
\* daily window resets or the breaker is manually reset" (RiskGateway.ts): no
\* create request leaves while it is tripped.
NothingLeavesTripped == [][risk.tripped => wire' \subseteq wire]_vars

\* A placement ends: acknowledged, recovered, rejected or recorded as unknown.
PlacementSettles == \A c \in Ids : task[c].pc # "idle" ~> task[c].pc = "idle"
=============================================================================
