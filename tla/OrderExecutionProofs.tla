------------------------ MODULE OrderExecutionProofs ------------------------
(***************************************************************************)
(* Proofs about OrderExecution for every set of intents and ids and every  *)
(* limit and bound: its type invariant, that an intent is at most one      *)
(* order, that no order is lost, that the ledger shows nothing the engine  *)
(* has not done, that a tripped breaker lets no further create request     *)
(* pass, and by how much the open notional may exceed its cap.             *)
(***************************************************************************)
EXTENDS OrderExecution, FiniteSetTheorems, SequenceTheorems, TLAPS

Busy(c) == task[c].pc # "idle"
Called(t) == call[t].pc # "idle"

\* Placements, calls and entries carry the intents and the client order ids
\* they were made with: a placement intent has only the one.  A request that
\* waits to leave has no answer.
Labelled ==
  /\ \A c \in Ids : Busy(c) => task[c].intent \in Placed(c)
  /\ \A c \in Ids : task[c].pc = "admitted" => task[c].reply = None
  /\ \A t \in Keys : Called(t) => call[t].id \in Ids
  /\ \A t \in Keys : call[t].pc = "answered" => call[t].reply # None
  /\ \A t \in Intents : Called(t) => call[t].pc \in {"asked", "answered"} /\ call[t].id = ClientId[t]
  /\ \A k \in DOMAIN ledger : ledger[k].intent \in Intents => ledger[k].id = ClientId[ledger[k].intent]
  /\ \A c \in Ids : byId[c] \in Intents => c = ClientId[byId[c]]

\* What is in flight for the first time is not in the ledger yet, and what was
\* recorded stays.
Remembered ==
  /\ \A c \in Ids : Busy(c) => ~Recorded(task[c].intent)
  /\ \A t \in Keys : Called(t) => (Recorded(t) <=> t \in Intents)
  /\ \A c \in Ids : byId[c] # None => Recorded(byId[c])

\* While no request is late, the only ones on their way are those the client
\* still waits for.
OnlyAwaited == \A m \in wire : Awaits(m.id, m.req)

\* The placements that may have made an order that is not in the ledger yet.
MayHavePlaced(c) ==
  Busy(c) /\ ~(task[c].pc \in {"admitted", "submitting"} /\ task[c].reply = None)

\* Every order of an id is that of a recorded intent or of the placement in
\* flight; "Missing" means that there is none.
OrdersCounted ==
  \A c \in Ids :
    /\ Len(orders[c]) <= Cardinality({i \in Placed(c) : Recorded(i)})
                         + (IF MayHavePlaced(c) THEN 1 ELSE 0)
    /\ task[c].pc = "polling" /\ task[c].reply = "Missing" => orders[c] = << >>

\* An execution which does not deny that c's order exists.
Acknowledges(k, c) ==
  /\ ledger[k].id = c
  /\ ledger[k].intent \in Intents
  /\ ledger[k].state # "rejected"

\* Every order has one, or its placement is about to record one.
OrdersKnown ==
  \A c \in Ids : orders[c] # << >> =>
    \/ \E k \in DOMAIN ledger : Acknowledges(k, c)
    \/ task[c].pc = "polling" /\ task[c].reply # "Missing"
    \/ task[c].pc = "submitting" /\ task[c].reply \in OrderStates

\* An entry shows filled only what has filled, and its fills are trades of its
\* orders, each counted once.
Truthful(e) ==
  /\ e.status = "FILLED" => Filled(e.id) # {}
  /\ \A a \in DOMAIN e.fills : e.fills[a] \in Filled(e.id)
  /\ \A a, b \in DOMAIN e.fills : e.fills[a] = e.fills[b] => a = b

\* Frames, answers and entries report only what the engine has done.
TruthTold ==
  /\ \A j \in DOMAIN stream : stream[j].status = "FILLED" => stream[j].order \in Filled(stream[j].id)
  /\ \A c \in Ids : task[c].reply = "FILLED" => Filled(c) # {}
  /\ \A t \in Keys : Called(t) /\ call[t].reply = "FILLED" => Filled(call[t].id) # {}
  /\ \A k \in DOMAIN ledger : Truthful(ledger[k])
  /\ \A c \in Ids, k \in DOMAIN ledger : ledger[k].intent = byId[c] => ledger[k].id = c

IInv ==
  /\ TypeOK
  /\ Labelled
  /\ Roomy => Remembered
  /\ faults["late"] = 0 => OnlyAwaited
  /\ Roomy /\ faults["late"] = 0 => OrdersCounted
  /\ Roomy /\ Timely => OrdersKnown
  /\ Roomy /\ ~AckCarriesFills => TruthTold

----------------------------------------------------------------------------
(* The ledger *)

Distinct(led) == \A j, k \in DOMAIN led : led[j].intent = led[k].intent => j = k

\* A ledger with one entry per intent has no more entries than there are
\* intents.
LEMMA LedgerLength ==
  ASSUME NEW led \in Seq(Executions), Distinct(led)
  PROVE  Len(led) <= Cardinality(Keys)
<1>. DEFINE f == [k \in 1 .. Len(led) |-> led[k].intent]
<1>0. Len(led) \in Nat /\ DOMAIN led = 1 .. Len(led)
  BY LenProperties
<1>1. \A k \in 1 .. Len(led) : led[k].intent \in Keys
  <2>1. \A k \in 1 .. Len(led) : led[k] \in Executions
    BY ElementOfSeq
  <2>. QED
    BY <2>1 DEF Executions
<1>2. f \in Injection(1 .. Len(led), Keys)
  <2>1. f \in [1 .. Len(led) -> Keys]
    BY <1>1
  <2>2. \A j, k \in DOMAIN f : f[j] = f[k] => j = k
    BY <1>0 DEF Distinct
  <2>. HIDE DEF f
  <2>. QED
    BY <2>1, <2>2 DEF Injection, IsInjective
<1>3. IsFiniteSet(Keys)
  BY NamesAssumption DEF Keys
<1>4. Cardinality(1 .. Len(led)) = Len(led)
  BY <1>0, FS_Interval
<1>5. Cardinality(1 .. Len(led)) <= Cardinality(Keys)
  <2>. HIDE DEF f
  <2>. QED BY <1>2, <1>3, FS_Injection, Zenon
<1>. QED
  BY <1>4, <1>5

\* Map.set leaves the other entries alone and adds one at most.
LEMMA SetEntryFacts ==
  ASSUME NEW led \in Seq(Executions), Distinct(led), NEW e \in Executions
  PROVE  /\ SetEntry(led, e) \in Seq(Executions)
         /\ Distinct(SetEntry(led, e))
         /\ Len(SetEntry(led, e)) <= Len(led) + 1
         /\ \E j \in DOMAIN SetEntry(led, e) : SetEntry(led, e)[j] = e
         /\ \A j \in DOMAIN SetEntry(led, e) :
              \/ SetEntry(led, e)[j] = e
              \/ \E k \in DOMAIN led : led[k] = SetEntry(led, e)[j] /\ led[k].intent # e.intent
         /\ \A k \in DOMAIN led : led[k].intent # e.intent =>
              \E j \in DOMAIN SetEntry(led, e) : SetEntry(led, e)[j] = led[k]
<1>1. CASE \E k \in DOMAIN led : led[k].intent = e.intent
  <2>. DEFINE new == [k \in 1 .. Len(led) |-> IF led[k].intent = e.intent THEN e ELSE led[k]]
  <2>1. SetEntry(led, e) = new
    BY <1>1 DEF SetEntry
  <2>2. new \in Seq(Executions) /\ Len(new) = Len(led)
    BY IsASeq
  <2>3. DOMAIN new = DOMAIN led /\ DOMAIN led = 1 .. Len(led) /\ Len(led) \in Nat
    BY LenProperties
  <2>4. \A k \in DOMAIN led : new[k] = IF led[k].intent = e.intent THEN e ELSE led[k]
    BY <2>3
  <2>. HIDE DEF new
  <2>5. Distinct(new)
    BY <2>3, <2>4 DEF Distinct
  <2>6. \E j \in DOMAIN new : new[j] = e
    BY <1>1, <2>3, <2>4
  <2>7. /\ \A j \in DOMAIN new :
             new[j] = e \/ \E k \in DOMAIN led : led[k] = new[j] /\ led[k].intent # e.intent
        /\ \A k \in DOMAIN led : led[k].intent # e.intent => \E j \in DOMAIN new : new[j] = led[k]
    BY <2>3, <2>4
  <2>. QED
    BY <2>1, <2>2, <2>3, <2>5, <2>6, <2>7
<1>2. CASE ~\E k \in DOMAIN led : led[k].intent = e.intent
  <2>1. SetEntry(led, e) = Append(led, e)
    BY <1>2 DEF SetEntry
  <2>2. /\ Append(led, e) \in Seq(Executions)
        /\ Len(Append(led, e)) = Len(led) + 1
        /\ Append(led, e)[Len(led) + 1] = e
        /\ \A k \in 1 .. Len(led) : Append(led, e)[k] = led[k]
    BY AppendProperties
  <2>. DEFINE new == Append(led, e)
              l == Len(led)
  <2>3. l \in Nat /\ DOMAIN led = 1 .. l /\ DOMAIN new = 1 .. (l + 1)
    BY <2>2, LenProperties
  <2>4. new[l + 1] = e /\ \A k \in 1 .. l : new[k] = led[k] /\ led[k].intent # e.intent
    BY <1>2, <2>2, <2>3
  <2>5. new \in Seq(Executions) /\ Len(new) = l + 1
    BY <2>2
  <2>. HIDE DEF new
  <2>6. /\ \E j \in DOMAIN new : new[j] = e
        /\ \A j \in DOMAIN new :
             new[j] = e \/ \E k \in DOMAIN led : led[k] = new[j] /\ led[k].intent # e.intent
        /\ \A k \in DOMAIN led : led[k].intent # e.intent => \E j \in DOMAIN new : new[j] = led[k]
    <3>. HIDE DEF l
    <3>. QED BY <2>3, <2>4
  <2>7. Distinct(new)
    <3>. HIDE DEF l
    <3>. QED BY <2>3, <2>4 DEF Distinct
  <2>8. SetEntry(led, e) = new
    BY <2>1 DEF new
  <2>. QED
    BY <2>3, <2>5, <2>6, <2>7, <2>8
<1>. QED
  BY <1>1, <1>2

\* What recording an execution does to the ledger: it holds one entry per
\* intent, the others are old ones, and unless it is too small for all
\* intents the new entry joins the old ones.
LEMMA RecordFacts ==
  ASSUME TypeOK, NEW e \in Executions, Record(e)
  PROVE  /\ ledger' \in Seq(Executions) /\ Len(ledger') <= MaxLedger /\ Distinct(ledger')
         /\ \A j \in DOMAIN ledger' :
              \/ ledger'[j] = e
              \/ \E k \in DOMAIN ledger : ledger[k] = ledger'[j] /\ ledger[k].intent # e.intent
         /\ Roomy => \E j \in DOMAIN ledger' : ledger'[j] = e
         /\ Roomy => \A k \in DOMAIN ledger : ledger[k].intent # e.intent =>
                       \E j \in DOMAIN ledger' : ledger'[j] = ledger[k]
<1>. DEFINE led == SetEntry(ledger, e)
<1>1. ledger \in Seq(Executions) /\ Distinct(ledger) /\ Len(ledger) <= MaxLedger
  BY DEF TypeOK, Distinct
<1>2. /\ led \in Seq(Executions) /\ Distinct(led) /\ Len(led) <= Len(ledger) + 1
      /\ \E j \in DOMAIN led : led[j] = e
      /\ \A j \in DOMAIN led :
           led[j] = e \/ \E k \in DOMAIN ledger : ledger[k] = led[j] /\ ledger[k].intent # e.intent
      /\ \A k \in DOMAIN ledger : ledger[k].intent # e.intent => \E j \in DOMAIN led : led[j] = ledger[k]
  BY <1>1, SetEntryFacts, Zenon
<1>. HIDE DEF led
<1>3. ledger' = EvictOldest(led)
  BY DEF Record, led
<1>4. CASE Len(led) > MaxLedger
  <2>1. ledger' = Tail(led)
    BY <1>3, <1>4 DEF EvictOldest
  <2>2. ~Roomy
    <3>1. Len(led) \in Nat /\ Len(led) <= Cardinality(Keys)
      BY <1>2, LedgerLength
    <3>2. Cardinality(Keys) \in Nat
      BY NamesAssumption, FS_CardinalityType DEF Keys
    <3>. QED
      BY <1>4, <3>1, <3>2, LimitsAssumption DEF Roomy
  <2>3. Tail(led) \in Seq(Executions) /\ Len(Tail(led)) = Len(led) - 1
        /\ \A j \in 1 .. Len(led) - 1 : Tail(led)[j] = led[j + 1]
    BY <1>2, <1>4, LimitsAssumption
  <2>4. \A j \in DOMAIN Tail(led) : j + 1 \in DOMAIN led
    BY <1>2, <2>3
  <2>5. Len(Tail(led)) <= MaxLedger
    BY <1>1, <1>2, <2>3, LimitsAssumption
  <2>6. Distinct(Tail(led))
    BY <1>2, <2>3, <2>4 DEF Distinct
  <2>. QED
    BY <1>2, <2>1, <2>2, <2>3, <2>4, <2>5, <2>6
<1>5. CASE ~(Len(led) > MaxLedger)
  <2>1. ledger' = led
    BY <1>3, <1>5 DEF EvictOldest
  <2>2. Len(led) <= MaxLedger
    BY <1>2, <1>5, LimitsAssumption
  <2>. QED
    BY <1>2, <2>1, <2>2
<1>. QED
  BY <1>4, <1>5

\* A fill that is already there is not added again.
LEMMA AddFillFacts ==
  ASSUME NEW fills \in Seq(Nat), NEW trade \in Nat
  PROVE  /\ AddFill(fills, trade) \in Seq(Nat)
         /\ \A a \in DOMAIN AddFill(fills, trade) :
              AddFill(fills, trade)[a] = trade \/ \E b \in DOMAIN fills : fills[b] = AddFill(fills, trade)[a]
         /\ (\A a, b \in DOMAIN fills : fills[a] = fills[b] => a = b) =>
              \A a, b \in DOMAIN AddFill(fills, trade) :
                AddFill(fills, trade)[a] = AddFill(fills, trade)[b] => a = b
<1>1. CASE \E k \in DOMAIN fills : fills[k] = trade
  BY <1>1 DEF AddFill
<1>2. CASE ~\E k \in DOMAIN fills : fills[k] = trade
  <2>1. AddFill(fills, trade) = Append(fills, trade)
    BY <1>2 DEF AddFill
  <2>2. /\ Append(fills, trade) \in Seq(Nat)
        /\ Len(Append(fills, trade)) = Len(fills) + 1
        /\ Append(fills, trade)[Len(fills) + 1] = trade
        /\ \A k \in 1 .. Len(fills) : Append(fills, trade)[k] = fills[k]
    BY AppendProperties
  <2>. DEFINE new == Append(fills, trade)
              l == Len(fills)
  <2>3. l \in Nat /\ DOMAIN fills = 1 .. l /\ DOMAIN new = 1 .. (l + 1)
    BY <2>2, LenProperties
  <2>4. new[l + 1] = trade /\ \A k \in 1 .. l : new[k] = fills[k] /\ fills[k] # trade
    BY <1>2, <2>2, <2>3
  <2>. HIDE DEF new, l
  <2>5. \A a \in DOMAIN new : new[a] = trade \/ \E b \in DOMAIN fills : fills[b] = new[a]
    BY <2>3, <2>4
  <2>6. ASSUME \A a, b \in DOMAIN fills : fills[a] = fills[b] => a = b
        PROVE  \A a, b \in DOMAIN new : new[a] = new[b] => a = b
    BY <2>3, <2>4, <2>6
  <2>7. AddFill(fills, trade) = new /\ new \in Seq(Nat)
    BY <2>1, <2>2 DEF new
  <2>. QED
    BY <2>5, <2>6, <2>7
<1>. QED
  BY <1>1, <1>2

\* What a report may change of an entry.
Reported(old, new, r) ==
  /\ new.intent = old.intent /\ new.id = old.id /\ new.state = old.state
  /\ \/ new = old
     \/ /\ new.status = r.status
        /\ new.fills = IF r.status = "FILLED" THEN AddFill(old.fills, r.order) ELSE old.fills

\* A report changes entries in place, and only those of its client order id.
LEMMA ReportFacts ==
  ASSUME TypeOK, NEW r \in Reports, ApplyReport(r)
  PROVE  /\ ledger' \in Seq(Executions) /\ Len(ledger') = Len(ledger) /\ Distinct(ledger')
         /\ \A k \in DOMAIN ledger : /\ Reported(ledger[k], ledger'[k], r)
                                     /\ ledger[k].intent # byId[r.id] => ledger'[k] = ledger[k]
<1>. DEFINE upd(k) == IF ledger[k].intent # byId[r.id] THEN ledger[k]
                      ELSE [ledger[k] EXCEPT
                              !.status = r.status,
                              !.fills = IF r.status = "FILLED" THEN AddFill(@, r.order) ELSE @]
<1>1. ledger \in Seq(Executions) /\ DOMAIN ledger = 1 .. Len(ledger) /\ Len(ledger) \in Nat
  BY LenProperties DEF TypeOK
<1>2. \A k \in 1 .. Len(ledger) : ledger[k] \in Executions
  BY <1>1, ElementOfSeq
<1>3. ASSUME NEW k \in 1 .. Len(ledger)
      PROVE  /\ upd(k) \in Executions /\ Reported(ledger[k], upd(k), r)
             /\ ledger[k].intent # byId[r.id] => upd(k) = ledger[k]
  <2>1. AddFill(ledger[k].fills, r.order) \in Seq(Nat)
    BY <1>2, AddFillFacts DEF Executions, Reports
  <2>. QED
    BY <1>2, <2>1 DEF Executions, Reports, Reported, Statuses
<1>4. ledger' = [k \in 1 .. Len(ledger) |-> upd(k)]
  BY <1>1 DEF ApplyReport
<1>. HIDE DEF upd
<1>5. ledger' \in Seq(Executions) /\ Len(ledger') = Len(ledger)
  BY <1>1, <1>3, <1>4, IsASeq
<1>6. \A k \in 1 .. Len(ledger) : ledger'[k] = upd(k)
  BY <1>4
<1>7. Distinct(ledger')
  <2>1. \A k \in DOMAIN ledger : ledger'[k].intent = ledger[k].intent
    BY <1>1, <1>3, <1>6 DEF Reported
  <2>2. DOMAIN ledger' = DOMAIN ledger
    BY <1>1, <1>4
  <2>. QED
    BY <2>1, <2>2 DEF TypeOK, Distinct
<1>. QED
  BY <1>1, <1>3, <1>5, <1>6, <1>7

\* The entry of a recorded intent.
LEMMA EntryFacts ==
  ASSUME TypeOK, NEW t, Recorded(t)
  PROVE  \E k \in DOMAIN ledger : Entry(t) = ledger[k] /\ ledger[k].intent = t /\ Entry(t) \in Executions
<1>1. \E k \in DOMAIN ledger : ledger[k].intent = t
  BY DEF Recorded
<1>. DEFINE k0 == CHOOSE k \in DOMAIN ledger : ledger[k].intent = t
<1>2. k0 \in DOMAIN ledger /\ ledger[k0].intent = t
  BY <1>1
<1>. HIDE DEF k0
<1>3. ledger[k0] \in Executions
  BY <1>2, ElementOfSeq DEF TypeOK
<1>. QED
  BY <1>2, <1>3 DEF Entry, k0

LEMMA FaultFacts ==
  ASSUME TypeOK, NEW f \in FaultKinds, NEW bound, Fault(f, bound)
  PROVE  /\ faults' \in [FaultKinds -> Nat]
         /\ faults'[f] = faults[f] + 1
         /\ \A g \in FaultKinds \ {f} : faults'[g] = faults[g]
  BY DEF TypeOK, Fault

\* Faults only grow: what holds before the first one of a kind held before.
FaultsKept ==
  /\ faults' \in [FaultKinds -> Nat]
  /\ faults'["late"] = 0 => faults["late"] = 0
  /\ Timely' => Timely

LEMMA FaultsKeptFacts ==
  ASSUME TypeOK
  PROVE  /\ UNCHANGED faults => FaultsKept
         /\ \A f \in FaultKinds : \A bound : Fault(f, bound) => FaultsKept /\ faults'[f] > 0
<1>1. \A g \in FaultKinds : faults[g] \in Nat
  BY DEF TypeOK
<1>2. UNCHANGED faults => FaultsKept
  BY DEF FaultsKept, TypeOK, Timely
<1>3. ASSUME NEW f \in FaultKinds, NEW bound, Fault(f, bound)
      PROVE  FaultsKept /\ faults'[f] > 0
  BY <1>1, <1>3, FaultFacts DEF FaultsKept, Timely, FaultKinds
<1>. QED
  BY <1>2, <1>3

\* What the lookup of an order answers.
LEMMA LookupFacts ==
  ASSUME TypeOK, NEW c \in Ids
  PROVE  /\ orders[c] = << >> => Lookup(c) = "Missing"
         /\ orders[c] # << >> => Lookup(c) \in OrderStates
         /\ Lookup(c) = "FILLED" => Filled(c) # {}
<1>1. orders[c] \in Seq(OrderStates)
  BY DEF TypeOK
<1>2. orders[c] # << >> => Len(orders[c]) \in DOMAIN orders[c]
  BY <1>1
<1>3. orders[c] # << >> => orders[c][Len(orders[c])] \in OrderStates
  BY <1>1, <1>2, ElementOfSeq
<1>. QED
  BY <1>2, <1>3 DEF Lookup, Filled

\* Which intents are recorded after an execution has been.
LEMMA RecordedFacts ==
  ASSUME TypeOK, NEW e \in Executions, Record(e)
  PROVE  /\ \A t : Recorded(t)' => Recorded(t) \/ t = e.intent
         /\ Roomy => \A t : Recorded(t)' <=> Recorded(t) \/ t = e.intent
         /\ byId' \in [Ids -> Keys \union {None}]
         /\ byId'[e.id] = e.intent
         /\ \A c \in Ids \ {e.id} : byId'[c] = byId[c]
         /\ risk' \in [open : Int, failures : Nat, tripped : BOOLEAN]
<1>1. \A t : Recorded(t)' => Recorded(t) \/ t = e.intent
  BY RecordFacts DEF Recorded
<1>2. Roomy => \A t : Recorded(t) \/ t = e.intent => Recorded(t)'
  BY RecordFacts DEF Recorded
<1>3. /\ byId' \in [Ids -> Keys \union {None}]
      /\ byId'[e.id] = e.intent
      /\ \A c \in Ids \ {e.id} : byId'[c] = byId[c]
  BY DEF TypeOK, Record, Executions
<1>4. risk' \in [open : Int, failures : Nat, tripped : BOOLEAN]
  <2>. DEFINE R == [open : Int, failures : Nat, tripped : BOOLEAN]
  <2>1. risk \in R /\ risk.open \in Int /\ risk.failures \in Nat /\ risk.tripped \in BOOLEAN
    BY DEF TypeOK
  <2>2. \A n \in Int : [risk EXCEPT !.failures = 0, !.open = n] \in R
    BY <2>1
  <2>3. \A n \in Nat, b \in BOOLEAN : [risk EXCEPT !.failures = n, !.tripped = b] \in R
    BY <2>1
  <2>4. RecordFailure \in R
    <3>. DEFINE trips == risk.tripped \/ risk.failures + 1 >= MaxFailures
    <3>1. trips \in BOOLEAN
      OBVIOUS
    <3>2. RecordFailure = [risk EXCEPT !.failures = risk.failures + 1, !.tripped = trips]
      BY DEF RecordFailure
    <3>. HIDE DEF trips, R
    <3>3. risk.failures + 1 \in Nat
      BY <2>1
    <3>. QED
      BY <2>3, <3>1, <3>2, <3>3
  <2>. DEFINE n == IF ~HasNotional(e) THEN risk.open
                   ELSE IF Terminal(e.status) THEN risk.open - 1 ELSE risk.open + 1
  <2>5. [risk EXCEPT !.failures = 0, !.open = n] \in R
    <3>1. n \in Int
      BY <2>1
    <3>. HIDE DEF n, R
    <3>. QED BY <2>2, <3>1
  <2>. HIDE DEF R
  <2>6. UpdatedRisk(e) \in R
    BY <2>4, <2>5 DEF UpdatedRisk
  <2>. QED
    BY <2>6 DEF Record, R
<1>. QED
  BY <1>1, <1>2, <1>3, <1>4

----------------------------------------------------------------------------
(* The invariant is inductive *)

LEMMA InitIInv == Init => IInv
<1>. SUFFICES ASSUME Init PROVE IInv
  OBVIOUS
<1>1. TypeOK
  BY LimitsAssumption DEF Init, TypeOK, IdleTask, IdleCall, Tasks, Calls, CallPcs, Replies, FaultKinds, None
<1>2. Labelled
  BY NamesAssumption DEF Init, Labelled, Busy, Called, IdleTask, IdleCall, None, Keys
<1>3. Remembered /\ OnlyAwaited
  BY DEF Init, Remembered, OnlyAwaited, Busy, Called, IdleTask, IdleCall
<1>4. OrdersCounted
  <2>1. \A c \in Ids : {i \in Placed(c) : Recorded(i)} = {} /\ ~MayHavePlaced(c)
    BY DEF Init, Recorded, MayHavePlaced, Busy, IdleTask
  <2>2. \A c \in Ids : orders[c] = << >> /\ task[c].pc = "idle"
    BY DEF Init, IdleTask
  <2>3. Cardinality({}) = 0 /\ Len(<< >>) = 0
    BY FS_EmptySet
  <2>4. ASSUME NEW c \in Ids
        PROVE  Len(orders[c]) <= Cardinality({i \in Placed(c) : Recorded(i)})
                                 + (IF MayHavePlaced(c) THEN 1 ELSE 0)
    <3>1. Cardinality({i \in Placed(c) : Recorded(i)}) = 0
      BY <2>1, <2>3
    <3>2. Len(orders[c]) = 0
      BY <2>2, <2>3
    <3>. QED
      BY <2>1, <3>1, <3>2
  <2>. QED
    BY <2>2, <2>4 DEF OrdersCounted
<1>5. OrdersKnown /\ TruthTold
  BY DEF Init, OrdersKnown, TruthTold, Busy, Called, IdleTask, IdleCall, None
<1>. QED
  BY <1>1, <1>2, <1>3, <1>4, <1>5 DEF IInv

\* A placement moves on and records nothing: it passes the gateway for the first
\* or the second time, leaves, is throttled, has timed out, is polled for, or
\* ends.  It is given up only when there is no order.
LEMMA TaskMoves ==
  ASSUME IInv, FaultsKept, NEW c \in Ids, NEW v \in Tasks,
         task' = [task EXCEPT ![c] = v], UNCHANGED <<engine, books, call>>,
         wire' \subseteq [id : Ids, req : Nat], sent' \in [Ids -> Nat],
         v.pc # "idle" => v.intent \in Placed(c) /\ (Roomy => ~Recorded(v.intent)),
         faults'["late"] = 0 => OnlyAwaited',
         v.pc = "polling" => v.reply \in {None, Lookup(c)},
         v.pc # "polling" => v.reply = None /\ (~MayHavePlaced(c) \/ (Roomy /\ faults["late"] = 0 => orders[c] = << >>))
  PROVE  IInv'
<1>1. /\ task' \in [Ids -> Tasks] /\ task'[c] = v
      /\ \A d \in Ids \ {c} : task'[d] = task[d]
  BY DEF IInv, TypeOK
<1>2. UNCHANGED <<orders, stream, ledger, byId, risk, call>>
  BY DEF engine, books
<1>3. TypeOK'
  BY <1>1, <1>2 DEF IInv, TypeOK, FaultsKept
<1>4. Labelled'
  BY <1>1, <1>2 DEF IInv, Labelled, Busy, Called
<1>5. ASSUME Roomy PROVE Remembered'
  BY <1>1, <1>2, <1>5 DEF IInv, Remembered, Busy, Called, Recorded
<1>6. ASSUME Roomy, faults'["late"] = 0 PROVE OrdersCounted'
  <2>1. OrdersCounted
    BY <1>6 DEF IInv, FaultsKept
  <2>2. \A d \in Ids : {i \in Placed(d) : Recorded(i)}' = {i \in Placed(d) : Recorded(i)}
    BY <1>2 DEF Recorded
  <2>3. orders[c] = << >> => Len(orders[c]) = 0
    OBVIOUS
  <2>4. \A d \in Ids : Cardinality({i \in Placed(d) : Recorded(i)}) \in Nat
    <3>1. \A d \in Ids : IsFiniteSet({i \in Placed(d) : Recorded(i)})
      BY NamesAssumption, FS_Subset DEF Placed
    <3>. QED
      BY <3>1, FS_CardinalityType
  <2>5. Len(orders[c]) \in Nat
    BY DEF IInv, TypeOK
  <2>6. ASSUME v.pc = "polling", v.reply = "Missing" PROVE orders[c] = << >>
    BY <2>6, LookupFacts DEF IInv, None, OrderStates
  <2>7. /\ v.pc = "polling" => MayHavePlaced(c)'
        /\ v.pc # "polling" => ~MayHavePlaced(c)'
    BY <1>1 DEF MayHavePlaced, Busy, Tasks
  <2>8. ASSUME NEW d \in Ids \ {c} PROVE MayHavePlaced(d)' = MayHavePlaced(d)
    BY <1>1 DEF MayHavePlaced, Busy
  <2>9. v.pc # "polling" => ~MayHavePlaced(c) \/ orders[c] = << >>
    BY <1>6 DEF FaultsKept
  <2>10. Len(orders'[c]) <= Cardinality({i \in Placed(c) : Recorded(i)}')
                            + (IF MayHavePlaced(c)' THEN 1 ELSE 0)
    BY <1>2, <2>1, <2>2, <2>3, <2>4, <2>5, <2>7, <2>9 DEF OrdersCounted
  <2>. QED
    BY <1>1, <1>2, <2>1, <2>2, <2>6, <2>8, <2>10 DEF OrdersCounted
<1>7. ASSUME Roomy, Timely' PROVE OrdersKnown'
  <2>1. OrdersKnown /\ faults["late"] = 0
    BY <1>7 DEF IInv, FaultsKept, Timely
  <2>2. orders[c] # << >> => Lookup(c) # "Missing"
    BY LookupFacts DEF IInv, OrderStates
  <2>3. ASSUME NEW d \in Ids \ {c}, orders'[d] # << >>
        PROVE  \/ \E k \in DOMAIN ledger' : Acknowledges(k, d)'
               \/ task'[d].pc = "polling" /\ task'[d].reply # "Missing"
               \/ task'[d].pc = "submitting" /\ task'[d].reply \in OrderStates
    BY <1>1, <1>2, <2>1, <2>3 DEF OrdersKnown, Acknowledges
  <2>4. ASSUME orders'[c] # << >>, v.pc # "polling"
        PROVE  \E k \in DOMAIN ledger' : Acknowledges(k, c)'
    BY <1>2, <1>7, <2>1, <2>4 DEF OrdersKnown, Acknowledges, MayHavePlaced, Busy, None, OrderStates
  <2>5. ASSUME orders'[c] # << >>, v.pc = "polling"
        PROVE  task'[c].pc = "polling" /\ task'[c].reply # "Missing"
    BY <1>1, <1>2, <2>2, <2>5 DEF None
  <2>. QED
    BY <2>3, <2>4, <2>5 DEF OrdersKnown
<1>8. ASSUME Roomy, ~AckCarriesFills PROVE TruthTold'
  <2>1. TruthTold
    BY <1>8 DEF IInv
  <2>2. \A d \in Ids : Filled(d)' = Filled(d)
    BY <1>2 DEF Filled
  <2>3. Lookup(c) = "FILLED" => Filled(c) # {}
    BY LookupFacts DEF IInv
  <2>4. v.reply = "FILLED" => Filled(c) # {}
    BY <2>3 DEF None
  <2>. QED
    BY <1>1, <1>2, <2>1, <2>2, <2>4 DEF TruthTold, Truthful, Called, Filled
<1>. QED
  BY <1>3, <1>4, <1>5, <1>6, <1>7, <1>8 DEF IInv

\* The same of a given ledger and of the orders of one id.
Has(led, t) == \E k \in DOMAIN led : led[k].intent = t
FilledOf(os) == {k \in DOMAIN os : os[k] = "FILLED"}

LEMMA EntryTypes ==
  ASSUME TypeOK
  PROVE  \A k \in DOMAIN ledger : /\ ledger[k] \in Executions
                                  /\ ledger[k].intent \in Keys /\ ledger[k].id \in Ids
                                  /\ ledger[k].fills \in Seq(Nat)
<1>1. \A k \in DOMAIN ledger : ledger[k] \in Executions
  BY ElementOfSeq DEF TypeOK
<1>. QED
  BY <1>1 DEF Executions

\* An id's placement intents in the ledger.
Owned(c) == {i \in Placed(c) : Recorded(i)}

LEMMA OwnedFacts ==
  \A c \in Ids : /\ IsFiniteSet(Placed(c)) /\ IsFiniteSet(Owned(c))
                 /\ Cardinality(Owned(c)) \in Nat
                 /\ Cardinality(Owned(c)) <= Cardinality(Placed(c))
<1>1. \A c \in Ids : IsFiniteSet(Placed(c))
  BY NamesAssumption, FS_Subset DEF Placed
<1>2. \A c \in Ids : Owned(c) \in SUBSET Placed(c)
  BY DEF Owned
<1>. QED
  BY <1>1, <1>2, FS_Subset, FS_CardinalityType

\* A placement ends with an execution in the ledger.
LEMMA TaskRecords ==
  ASSUME IInv, NEW c \in Ids, MayHavePlaced(c), NEW e \in Executions,
         e.intent = task[c].intent, e.id = c, Record(e), Settle(c),
         UNCHANGED <<engine, wire, sent, call, faults>>,
         e.state = "rejected" => task[c].pc = "submitting" /\ task[c].reply = "ApiError",
         e.status = "FILLED" => task[c].reply = "FILLED",
         ~AckCarriesFills => e.fills = << >>
  PROVE  IInv'
<1>1. /\ task' \in [Ids -> Tasks] /\ task'[c] = IdleTask
      /\ \A d \in Ids \ {c} : task'[d] = task[d]
  BY LimitsAssumption DEF IInv, TypeOK, Settle, IdleTask, Tasks, Replies
<1>2. UNCHANGED <<orders, stream, wire, sent, call, faults>>
  BY DEF engine
<1>3. /\ ledger' \in Seq(Executions) /\ Len(ledger') <= MaxLedger /\ Distinct(ledger')
      /\ \A j \in DOMAIN ledger' :
           ledger'[j] = e \/ \E k \in DOMAIN ledger : ledger[k] = ledger'[j] /\ ledger[k].intent # e.intent
      /\ Roomy => \E j \in DOMAIN ledger' : ledger'[j] = e
      /\ Roomy => \A k \in DOMAIN ledger : ledger[k].intent # e.intent =>
                    \E j \in DOMAIN ledger' : ledger'[j] = ledger[k]
  BY RecordFacts DEF IInv
<1>4. /\ Roomy => \A t : Recorded(t)' <=> Recorded(t) \/ t = e.intent
      /\ byId' \in [Ids -> Keys \union {None}]
      /\ byId'[c] = e.intent
      /\ \A d \in Ids \ {c} : byId'[d] = byId[d]
      /\ risk' \in [open : Int, failures : Nat, tripped : BOOLEAN]
  BY RecordedFacts DEF IInv
<1>5. e.intent \in Placed(c) /\ e.intent \in Intents /\ ClientId[e.intent] = c
  BY DEF IInv, Labelled, MayHavePlaced, Placed
<1>6. TypeOK'
  <2>1. /\ orders' \in [Ids -> Seq(OrderStates)] /\ wire' \subseteq [id : Ids, req : Nat]
        /\ sent' \in [Ids -> Nat] /\ stream' \in Seq(Reports)
        /\ task' \in [Ids -> Tasks] /\ call' \in [Keys -> Calls] /\ faults' \in [FaultKinds -> Nat]
    BY <1>1, <1>2 DEF IInv, TypeOK
  <2>2. byId' \in [Ids -> Keys \union {None}] /\ risk' \in [open : Int, failures : Nat, tripped : BOOLEAN]
    BY <1>4
  <2>3. /\ ledger' \in Seq(Executions) /\ Len(ledger') <= MaxLedger
        /\ \A j, k \in DOMAIN ledger' : ledger'[j].intent = ledger'[k].intent => j = k
    BY <1>3 DEF Distinct
  <2>. QED
    BY <2>1, <2>2, <2>3 DEF TypeOK
<1>7. Labelled'
  BY <1>1, <1>2, <1>3, <1>4, <1>5 DEF IInv, Labelled, Busy, Called, IdleTask
<1>8. ASSUME Roomy PROVE Remembered'
  <2>1. Remembered
    BY <1>8 DEF IInv
  <2>2. \A t : Has(ledger', t) <=> Recorded(t) \/ t = e.intent
    BY <1>4, <1>8 DEF Has, Recorded
  <2>3. \A d \in Ids \ {c} : Busy(d) => task[d].intent # e.intent
    BY <1>5 DEF IInv, Labelled, Placed
  <2>4. \A t \in Keys : Called(t) => (Has(ledger', t) <=> t \in Intents)
    BY <1>5, <2>1, <2>2 DEF Remembered
  <2>5. \A d \in Ids : byId'[d] # None => Has(ledger', byId'[d])
    BY <1>4, <2>1, <2>2 DEF Remembered
  <2>6. ASSUME NEW d \in Ids, task'[d].pc # "idle" PROVE ~Has(ledger', task'[d].intent)
    <3>1. d # c /\ task'[d] = task[d]
      BY <1>1, <2>6 DEF IdleTask
    <3>. QED
      BY <2>1, <2>2, <2>3, <2>6, <3>1 DEF Remembered, Busy
  <2>. QED
    BY <1>2, <2>4, <2>5, <2>6 DEF Remembered, Has, Recorded, Called, Busy
<1>9. ASSUME faults'["late"] = 0 PROVE OnlyAwaited'
  <2>1. OnlyAwaited
    BY <1>2, <1>9 DEF IInv
  <2>2. \A m \in wire : m.id # c
    BY <2>1 DEF OnlyAwaited, Awaits, MayHavePlaced
  <2>3. \A m \in wire : m.id \in Ids
    BY DEF IInv, TypeOK
  <2>. QED
    BY <1>1, <1>2, <2>1, <2>2, <2>3 DEF OnlyAwaited, Awaits
<1>10. ASSUME Roomy, faults'["late"] = 0 PROVE OrdersCounted'
  <2>1. OrdersCounted /\ Remembered
    BY <1>2, <1>10 DEF IInv
  <2>2. ~Recorded(e.intent)
    BY <2>1 DEF Remembered, MayHavePlaced
  <2>3. Owned(c)' = Owned(c) \union {e.intent} /\ e.intent \notin Owned(c)
    BY <1>4, <1>5, <1>10, <2>2 DEF Owned, Placed
  <2>4. Cardinality(Owned(c)') = Cardinality(Owned(c)) + 1
    BY <2>3, OwnedFacts, FS_AddElement
  <2>5. \A d \in Ids \ {c} : Owned(d)' = Owned(d)
    BY <1>4, <1>5, <1>10 DEF Owned, Placed
  <2>6. \A d \in Ids \ {c} : MayHavePlaced(d)' = MayHavePlaced(d)
    BY <1>1 DEF MayHavePlaced, Busy
  <2>7. ~MayHavePlaced(c)'
    BY <1>1 DEF MayHavePlaced, Busy, IdleTask
  <2>8. \A d \in Ids : Len(orders[d]) <= Cardinality(Owned(d)) + (IF MayHavePlaced(d) THEN 1 ELSE 0)
    BY <2>1 DEF OrdersCounted, Owned
  <2>9. Len(orders[c]) \in Nat /\ Cardinality(Owned(c)) \in Nat
    BY OwnedFacts DEF IInv, TypeOK
  <2>10. Len(orders'[c]) <= Cardinality(Owned(c)') + 0
    BY <1>2, <2>4, <2>8, <2>9
  <2>11. ASSUME NEW d \in Ids
         PROVE  Len(orders'[d]) <= Cardinality(Owned(d)') + (IF MayHavePlaced(d)' THEN 1 ELSE 0)
    BY <1>2, <2>5, <2>6, <2>7, <2>8, <2>10
  <2>12. \A d \in Ids : task'[d].pc = "polling" /\ task'[d].reply = "Missing" => orders'[d] = << >>
    <3>1. \A d \in Ids \ {c} : task[d].pc = "polling" /\ task[d].reply = "Missing" => orders[d] = << >>
      BY <2>1 DEF OrdersCounted
    <3>2. task'[c].pc # "polling"
      BY <1>1 DEF IdleTask
    <3>. QED
      BY <1>1, <1>2, <3>1, <3>2
  <2>. QED
    BY <2>11, <2>12 DEF OrdersCounted, Owned
<1>11. ASSUME Roomy, Timely' PROVE OrdersKnown'
  <2>1. OrdersKnown /\ Remembered
    BY <1>2, <1>11 DEF IInv, Timely
  <2>2. ~Recorded(e.intent)
    BY <2>1 DEF Remembered, MayHavePlaced
  <2>3. ASSUME NEW k \in DOMAIN ledger, NEW d \in Ids, Acknowledges(k, d)
        PROVE  \E j \in DOMAIN ledger' : Acknowledges(j, d)'
    <3>1. ledger[k].intent # e.intent
      BY <2>2 DEF Recorded
    <3>2. PICK j \in DOMAIN ledger' : ledger'[j] = ledger[k]
      BY <1>3, <1>11, <3>1
    <3>. QED
      BY <2>3, <3>2 DEF Acknowledges
  <2>4. ASSUME e.state # "rejected" PROVE \E j \in DOMAIN ledger' : Acknowledges(j, c)'
    BY <1>3, <1>5, <1>11, <2>4 DEF Acknowledges
  <2>5. ASSUME e.state = "rejected", orders[c] # << >>
        PROVE  \E j \in DOMAIN ledger' : Acknowledges(j, c)'
    BY <2>1, <2>3, <2>5 DEF OrdersKnown, OrderStates
  <2>6. ASSUME NEW d \in Ids \ {c}, orders[d] # << >>
        PROVE  \/ \E j \in DOMAIN ledger' : Acknowledges(j, d)'
               \/ task'[d].pc = "polling" /\ task'[d].reply # "Missing"
               \/ task'[d].pc = "submitting" /\ task'[d].reply \in OrderStates
    BY <1>1, <2>1, <2>3, <2>6 DEF OrdersKnown
  <2>. QED
    BY <1>2, <2>4, <2>5, <2>6 DEF OrdersKnown
<1>12. ASSUME Roomy, ~AckCarriesFills PROVE TruthTold'
  <2>1. TruthTold /\ Remembered
    BY <1>12 DEF IInv
  <2>2. ASSUME NEW d \in Ids, NEW j \in DOMAIN ledger', ledger'[j].intent = byId'[d]
        PROVE  ledger'[j].id = d
    <3>1. CASE d = c
      BY <1>3, <1>4, <2>2, <3>1
    <3>2. CASE d # c
      <4>1. byId[d] # e.intent
        BY <1>5, <3>2 DEF IInv, Labelled
      <4>. QED
        BY <1>3, <1>4, <2>1, <2>2, <3>2, <4>1 DEF TruthTold
    <3>. QED
      BY <3>1, <3>2
  <2>3. ASSUME NEW j \in DOMAIN ledger' PROVE Truthful(ledger'[j])
    <3>1. CASE ledger'[j] = e
      <4>1. e.status = "FILLED" => Filled(c) # {}
        BY <2>1 DEF TruthTold
      <4>. QED
        BY <1>12, <3>1, <4>1 DEF Truthful
    <3>2. CASE ledger'[j] # e
      BY <1>3, <2>1, <3>2 DEF TruthTold
    <3>. QED
      BY <3>1, <3>2
  <2>4. \A d \in Ids : task'[d].reply = "FILLED" => Filled(d) # {}
    BY <1>1, <2>1 DEF TruthTold, IdleTask, None
  <2>. QED
    BY <1>2, <2>1, <2>2, <2>3, <2>4 DEF TruthTold, Truthful, Called, Filled
<1>. QED
  BY <1>2, <1>6, <1>7, <1>8, <1>9, <1>10, <1>11, <1>12 DEF IInv

\* A call moves on and records nothing: it starts, its answer arrives, or it
\* ends.
LEMMA CallMoves ==
  ASSUME IInv, FaultsKept, NEW t \in Keys, NEW w \in Calls,
         call' = [call EXCEPT ![t] = w], UNCHANGED <<engine, wire, sent, books, task>>,
         w.pc # "idle" => /\ w.id \in Ids
                          /\ t \in Intents => w.pc \in {"asked", "answered"} /\ w.id = ClientId[t]
                          /\ Roomy => (Recorded(t) <=> t \in Intents),
         w.pc = "answered" => w.reply # None,
         w.pc # "idle" /\ w.reply = "FILLED" => Filled(w.id) # {}
  PROVE  IInv'
<1>1. /\ call' \in [Keys -> Calls] /\ call'[t] = w
      /\ \A s \in Keys \ {t} : call'[s] = call[s]
  BY DEF IInv, TypeOK
<1>2. UNCHANGED <<orders, stream, wire, sent, ledger, byId, risk, task>>
  BY DEF engine, books
<1>3. TypeOK'
  BY <1>1, <1>2 DEF IInv, TypeOK, FaultsKept
<1>4. Labelled'
  BY <1>1, <1>2 DEF IInv, Labelled, Busy, Called
<1>5. ASSUME Roomy PROVE Remembered'
  BY <1>1, <1>2, <1>5 DEF IInv, Remembered, Busy, Called, Recorded
<1>6. ASSUME faults'["late"] = 0 PROVE OnlyAwaited'
  BY <1>2, <1>6 DEF IInv, FaultsKept, OnlyAwaited, Awaits
<1>7. ASSUME Roomy, faults'["late"] = 0 PROVE OrdersCounted'
  BY <1>2, <1>7 DEF IInv, FaultsKept, OrdersCounted, Recorded, MayHavePlaced, Busy
<1>8. ASSUME Roomy, Timely' PROVE OrdersKnown'
  BY <1>2, <1>8 DEF IInv, FaultsKept, OrdersKnown, Acknowledges
<1>9. ASSUME Roomy, ~AckCarriesFills PROVE TruthTold'
  <2>1. TruthTold
    BY <1>9 DEF IInv
  <2>2. \A s \in Keys : call'[s].pc # "idle" /\ call'[s].reply = "FILLED" => Filled(call'[s].id) # {}
    BY <1>1, <2>1 DEF TruthTold, Called
  <2>. QED
    BY <1>2, <2>1, <2>2 DEF TruthTold, Truthful, Called, Filled
<1>. QED
  BY <1>3, <1>4, <1>5, <1>6, <1>7, <1>8, <1>9 DEF IInv

\* A call ends with an execution in the ledger: a first one under a cancel's
\* intent, or a newer one under that of a placement.
LEMMA CallRecords ==
  ASSUME IInv, NEW t \in Keys, Called(t), NEW e \in Executions,
         e.intent = t, e.id = call[t].id, Record(e), EndCall(t),
         UNCHANGED <<engine, wire, sent, task, faults>>,
         e.state # "rejected", e.fills = << >>,
         e.status = "FILLED" => call[t].reply = "FILLED"
  PROVE  IInv'
<1>1. /\ call' \in [Keys -> Calls] /\ call'[t] = IdleCall
      /\ \A s \in Keys \ {t} : call'[s] = call[s]
  BY DEF IInv, TypeOK, EndCall, IdleCall, Calls, CallPcs
<1>2. UNCHANGED <<orders, stream, wire, sent, task, faults>>
  BY DEF engine
<1>3. /\ ledger' \in Seq(Executions) /\ Len(ledger') <= MaxLedger /\ Distinct(ledger')
      /\ \A j \in DOMAIN ledger' :
           ledger'[j] = e \/ \E k \in DOMAIN ledger : ledger[k] = ledger'[j] /\ ledger[k].intent # t
      /\ Roomy => \E j \in DOMAIN ledger' : ledger'[j] = e
      /\ Roomy => \A k \in DOMAIN ledger : ledger[k].intent # t =>
                    \E j \in DOMAIN ledger' : ledger'[j] = ledger[k]
  BY RecordFacts DEF IInv
<1>4. /\ Roomy => \A s : Recorded(s)' <=> Recorded(s) \/ s = t
      /\ byId' \in [Ids -> Keys \union {None}]
      /\ byId'[e.id] = t
      /\ \A d \in Ids \ {e.id} : byId'[d] = byId[d]
      /\ risk' \in [open : Int, failures : Nat, tripped : BOOLEAN]
  BY RecordedFacts DEF IInv
<1>5. e.id \in Ids /\ (t \in Intents => e.id = ClientId[t])
  BY DEF IInv, Labelled
<1>6. TypeOK'
  <2>1. /\ orders' \in [Ids -> Seq(OrderStates)] /\ wire' \subseteq [id : Ids, req : Nat]
        /\ sent' \in [Ids -> Nat] /\ stream' \in Seq(Reports)
        /\ task' \in [Ids -> Tasks] /\ call' \in [Keys -> Calls] /\ faults' \in [FaultKinds -> Nat]
    BY <1>1, <1>2 DEF IInv, TypeOK
  <2>2. byId' \in [Ids -> Keys \union {None}] /\ risk' \in [open : Int, failures : Nat, tripped : BOOLEAN]
    BY <1>4
  <2>3. /\ ledger' \in Seq(Executions) /\ Len(ledger') <= MaxLedger
        /\ \A j, k \in DOMAIN ledger' : ledger'[j].intent = ledger'[k].intent => j = k
    BY <1>3 DEF Distinct
  <2>. QED
    BY <2>1, <2>2, <2>3 DEF TypeOK
<1>7. Labelled'
  <2>1. \A k \in DOMAIN ledger' :
          ledger'[k].intent \in Intents => ledger'[k].id = ClientId[ledger'[k].intent]
    BY <1>3, <1>5 DEF IInv, Labelled
  <2>2. \A c \in Ids : byId'[c] \in Intents => c = ClientId[byId'[c]]
    BY <1>4, <1>5 DEF IInv, Labelled
  <2>3. /\ \A s \in Keys : call'[s].pc # "idle" => call'[s].id \in Ids
        /\ \A s \in Keys : call'[s].pc = "answered" => call'[s].reply # None
        /\ \A s \in Intents : call'[s].pc # "idle" =>
             call'[s].pc \in {"asked", "answered"} /\ call'[s].id = ClientId[s]
    BY <1>1 DEF IInv, Labelled, Called, IdleCall, Keys
  <2>. QED
    BY <1>2, <2>1, <2>2, <2>3 DEF IInv, Labelled, Busy, Called
<1>8. ASSUME Roomy PROVE Remembered /\ (Recorded(t) <=> t \in Intents)
  BY <1>8 DEF IInv, Remembered
<1>9. ASSUME Roomy PROVE \A i \in Intents : Recorded(i)' <=> Recorded(i)
  BY <1>4, <1>8, <1>9
<1>10. ASSUME Roomy PROVE Remembered'
  <2>1. Remembered /\ (Recorded(t) <=> t \in Intents)
    BY <1>8, <1>10
  <2>2. \A s : Has(ledger', s) <=> Recorded(s) \/ s = t
    BY <1>4, <1>10 DEF Has, Recorded
  <2>3. ASSUME NEW d \in Ids, task[d].pc # "idle" PROVE ~Has(ledger', task[d].intent)
    <3>1. ~Recorded(task[d].intent) /\ task[d].intent \in Intents
      BY <2>1, <2>3 DEF IInv, Labelled, Remembered, Busy, Placed
    <3>. QED
      BY <2>1, <2>2, <3>1
  <2>4. ASSUME NEW s \in Keys, call'[s].pc # "idle" PROVE Has(ledger', s) <=> s \in Intents
    <3>1. s # t /\ call'[s] = call[s]
      BY <1>1, <2>4 DEF IdleCall
    <3>. QED
      BY <2>1, <2>2, <2>4, <3>1 DEF Remembered, Called
  <2>5. \A d \in Ids : byId'[d] # None => Has(ledger', byId'[d])
    BY <1>4, <2>1, <2>2 DEF Remembered
  <2>. QED
    BY <1>2, <2>3, <2>4, <2>5 DEF Remembered, Has, Recorded, Called, Busy
<1>11. ASSUME faults'["late"] = 0 PROVE OnlyAwaited'
  BY <1>2, <1>11 DEF IInv, OnlyAwaited, Awaits
<1>12. ASSUME Roomy, faults'["late"] = 0 PROVE OrdersCounted'
  <2>1. OrdersCounted
    BY <1>2, <1>12 DEF IInv
  <2>2. \A d \in Ids : {i \in Placed(d) : Recorded(i)}' = {i \in Placed(d) : Recorded(i)}
    BY <1>9, <1>12 DEF Placed
  <2>. QED
    BY <1>2, <2>1, <2>2 DEF OrdersCounted, MayHavePlaced, Busy
<1>13. ASSUME Roomy, Timely' PROVE OrdersKnown'
  <2>1. OrdersKnown
    BY <1>2, <1>13 DEF IInv, Timely
  <2>2. ASSUME NEW k \in DOMAIN ledger, NEW d \in Ids, Acknowledges(k, d)
        PROVE  \E j \in DOMAIN ledger' : Acknowledges(j, d)'
    <3>1. CASE ledger[k].intent # t
      <4>1. PICK j \in DOMAIN ledger' : ledger'[j] = ledger[k]
        BY <1>3, <1>13, <3>1
      <4>. QED
        BY <2>2, <4>1 DEF Acknowledges
    <3>2. CASE ledger[k].intent = t
      <4>1. PICK j \in DOMAIN ledger' : ledger'[j] = e
        BY <1>3, <1>13
      <4>2. d = ClientId[t] /\ t \in Intents
        BY <2>2, <3>2 DEF IInv, Labelled, Acknowledges
      <4>. QED
        BY <1>5, <4>1, <4>2 DEF Acknowledges
    <3>. QED
      BY <3>1, <3>2
  <2>3. ASSUME NEW d \in Ids, orders[d] # << >>
        PROVE  \/ \E j \in DOMAIN ledger' : Acknowledges(j, d)'
               \/ task[d].pc = "polling" /\ task[d].reply # "Missing"
               \/ task[d].pc = "submitting" /\ task[d].reply \in OrderStates
    BY <2>1, <2>2, <2>3 DEF OrdersKnown
  <2>. QED
    BY <1>2, <2>3 DEF OrdersKnown
<1>14. ASSUME Roomy, ~AckCarriesFills PROVE TruthTold'
  <2>1. TruthTold /\ Remembered /\ (Recorded(t) <=> t \in Intents)
    BY <1>8, <1>14 DEF IInv
  <2>2. ASSUME NEW d \in Ids, byId[d] = t PROVE d = e.id
    <3>1. t # None
      BY NamesAssumption DEF Keys, None
    <3>2. t \in Intents
      BY <2>1, <2>2, <3>1 DEF Remembered
    <3>. QED
      BY <1>5, <2>2, <3>2 DEF IInv, Labelled
  <2>3. ASSUME NEW d \in Ids, NEW j \in DOMAIN ledger', ledger'[j].intent = byId'[d]
        PROVE  ledger'[j].id = d
    <3>1. CASE d = e.id
      BY <1>3, <1>4, <2>3, <3>1
    <3>2. CASE d # e.id
      BY <1>3, <1>4, <2>1, <2>2, <2>3, <3>2 DEF TruthTold
    <3>. QED
      BY <3>1, <3>2
  <2>4. ASSUME NEW j \in DOMAIN ledger' PROVE Truthful(ledger'[j])
    <3>1. CASE ledger'[j] = e
      <4>1. e.status = "FILLED" => Filled(e.id) # {}
        BY <2>1 DEF TruthTold
      <4>. QED
        BY <3>1, <4>1 DEF Truthful
    <3>2. CASE ledger'[j] # e
      BY <1>3, <2>1, <3>2 DEF TruthTold
    <3>. QED
      BY <3>1, <3>2
  <2>5. \A s \in Keys : call'[s].pc # "idle" /\ call'[s].reply = "FILLED" => Filled(call'[s].id) # {}
    BY <1>1, <2>1 DEF TruthTold, Called, IdleCall
  <2>. QED
    BY <1>2, <2>1, <2>3, <2>4, <2>5 DEF TruthTold, Truthful, Called, Filled
<1>. QED
  BY <1>2, <1>6, <1>7, <1>10, <1>11, <1>12, <1>13, <1>14 DEF IInv

\* A resting order trades or is canceled: no order appears, and what has
\* filled stays filled.
LEMMA RestingFacts ==
  ASSUME TypeOK, NEW c \in Ids, NEW k \in DOMAIN orders[c], orders[c][k] = "NEW",
         NEW s \in {"FILLED", "CANCELED"}, orders' = [orders EXCEPT ![c][k] = s]
  PROVE  /\ orders' \in [Ids -> Seq(OrderStates)]
         /\ \A d \in Ids : Len(orders'[d]) = Len(orders[d])
         /\ \A d \in Ids : FilledOf(orders[d]) \subseteq FilledOf(orders'[d])
         /\ s = "FILLED" => k \in FilledOf(orders'[c])
         /\ k \in Nat
<1>1. orders[c] \in Seq(OrderStates) /\ DOMAIN orders[c] = 1 .. Len(orders[c]) /\ Len(orders[c]) \in Nat
  BY LenProperties DEF TypeOK
<1>2. orders'[c] = [orders[c] EXCEPT ![k] = s] /\ \A d \in Ids \ {c} : orders'[d] = orders[d]
  BY DEF TypeOK
<1>3. /\ orders'[c] \in Seq(OrderStates) /\ Len(orders'[c]) = Len(orders[c])
      /\ DOMAIN orders'[c] = DOMAIN orders[c]
      /\ orders'[c][k] = s /\ \A j \in DOMAIN orders[c] \ {k} : orders'[c][j] = orders[c][j]
  <2>1. s \in OrderStates
    BY DEF OrderStates
  <2>. QED
    BY <1>1, <1>2, <2>1, ExceptSeq
<1>4. orders' \in [Ids -> Seq(OrderStates)]
  BY <1>2, <1>3 DEF TypeOK
<1>5. FilledOf(orders[c]) \subseteq FilledOf(orders'[c]) /\ (s = "FILLED" => k \in FilledOf(orders'[c]))
  BY <1>3 DEF FilledOf
<1>6. ASSUME NEW d \in Ids
      PROVE  Len(orders'[d]) = Len(orders[d]) /\ FilledOf(orders[d]) \subseteq FilledOf(orders'[d])
  <2>1. CASE d = c
    BY <1>3, <1>5, <2>1
  <2>2. CASE d # c
    BY <1>2, <2>2
  <2>. QED
    BY <2>1, <2>2
<1>7. k \in Nat
  BY <1>1
<1>. QED
  BY <1>4, <1>5, <1>6, <1>7

\* A report joins the ones on their way.
LEMMA StreamFacts ==
  ASSUME TypeOK, NEW r \in Reports, stream' = Append(stream, r)
  PROVE  /\ stream' \in Seq(Reports)
         /\ \A j \in DOMAIN stream' : stream'[j] = r \/ \E l \in DOMAIN stream : stream[l] = stream'[j]
<1>1. stream \in Seq(Reports)
  BY DEF TypeOK
<1>2. /\ Append(stream, r) \in Seq(Reports)
      /\ Len(Append(stream, r)) = Len(stream) + 1
      /\ Append(stream, r)[Len(stream) + 1] = r
      /\ \A l \in 1 .. Len(stream) : Append(stream, r)[l] = stream[l]
  BY <1>1, AppendProperties
<1>. QED
  BY <1>1, <1>2

\* The engine trades or cancels an order it has, or the stream loses a frame.
\* A cancel that the engine serves goes on.
LEMMA EngineMoves ==
  ASSUME IInv, FaultsKept, UNCHANGED <<wire, sent, books, task>>,
         orders' \in [Ids -> Seq(OrderStates)],
         \A d \in Ids : Len(orders'[d]) = Len(orders[d]),
         \A d \in Ids : FilledOf(orders[d]) \subseteq FilledOf(orders'[d]),
         stream' \in Seq(Reports),
         \A j \in DOMAIN stream' :
           \/ \E l \in DOMAIN stream : stream[l] = stream'[j]
           \/ stream'[j].status = "FILLED" => stream'[j].order \in FilledOf(orders'[stream'[j].id]),
         call' \in [Keys -> Calls],
         \A t \in Keys : \/ call'[t] = call[t]
                         \/ /\ call[t].pc = "canceling" /\ call'[t].pc = "canceled"
                            /\ call'[t].id = call[t].id /\ call'[t].reply # "FILLED"
  PROVE  IInv'
<1>1. UNCHANGED <<wire, sent, ledger, byId, risk, task>>
  BY DEF books
<1>2. \A d \in Ids : orders'[d] = << >> <=> orders[d] = << >>
  BY DEF IInv, TypeOK
<1>3. TypeOK'
  BY <1>1 DEF IInv, TypeOK, FaultsKept
<1>4. Labelled'
  BY <1>1 DEF IInv, Labelled, Busy, Called, Keys
<1>5. ASSUME Roomy PROVE Remembered'
  BY <1>1, <1>5 DEF IInv, Remembered, Busy, Called, Recorded
<1>6. ASSUME faults'["late"] = 0 PROVE OnlyAwaited'
  BY <1>1, <1>6 DEF IInv, FaultsKept, OnlyAwaited, Awaits
<1>7. ASSUME Roomy, faults'["late"] = 0 PROVE OrdersCounted'
  <2>1. OrdersCounted
    BY <1>7 DEF IInv, FaultsKept
  <2>2. \A d \in Ids : {i \in Placed(d) : Recorded(i)}' = {i \in Placed(d) : Recorded(i)}
    BY <1>1 DEF Recorded
  <2>3. \A d \in Ids : MayHavePlaced(d)' = MayHavePlaced(d)
    BY <1>1 DEF MayHavePlaced, Busy
  <2>4. task' = task
    BY <1>1
  <2>. QED
    BY <1>2, <2>1, <2>2, <2>3, <2>4 DEF OrdersCounted
<1>8. ASSUME Roomy, Timely' PROVE OrdersKnown'
  <2>1. OrdersKnown
    BY <1>8 DEF IInv, FaultsKept, Timely
  <2>2. \A k, d : Acknowledges(k, d)' <=> Acknowledges(k, d)
    BY <1>1 DEF Acknowledges
  <2>3. ledger' = ledger /\ task' = task
    BY <1>1
  <2>. QED
    BY <1>2, <2>1, <2>2, <2>3 DEF OrdersKnown
<1>9. ASSUME Roomy, ~AckCarriesFills PROVE TruthTold'
  <2>1. TruthTold
    BY <1>9 DEF IInv
  <2>2. \A d \in Ids : Filled(d) \subseteq Filled(d)'
    BY DEF Filled, FilledOf
  <2>3. \A l \in DOMAIN stream : stream[l].id \in Ids
    <3>1. \A l \in DOMAIN stream : stream[l] \in Reports
      BY ElementOfSeq DEF IInv, TypeOK
    <3>. QED
      BY <3>1 DEF Reports
  <2>4. ASSUME NEW j \in DOMAIN stream', stream'[j].status = "FILLED"
        PROVE  stream'[j].order \in FilledOf(orders'[stream'[j].id])
    BY <2>1, <2>3, <2>4 DEF TruthTold, Filled, FilledOf
  <2>5. ASSUME NEW t \in Keys, call'[t].pc # "idle", call'[t].reply = "FILLED"
        PROVE  FilledOf(orders'[call'[t].id]) # {}
    <3>1. call'[t] = call[t] /\ call[t].id \in Ids
      BY <2>5 DEF IInv, Labelled, Called
    <3>2. Filled(call[t].id) # {}
      BY <2>1, <2>5, <3>1 DEF TruthTold, Called
    <3>. QED
      BY <3>1, <3>2 DEF Filled, FilledOf
  <2>6. ASSUME NEW k \in DOMAIN ledger PROVE Truthful(ledger[k])'
    <3>1. Truthful(ledger[k]) /\ ledger[k].id \in Ids
      BY <2>1, EntryTypes DEF TruthTold, IInv
    <3>. QED
      BY <1>1, <2>2, <3>1 DEF Truthful
  <2>7. \A c \in Ids : task[c].reply = "FILLED" => FilledOf(orders'[c]) # {}
    BY <2>1 DEF TruthTold, Filled, FilledOf
  <2>. QED
    BY <1>1, <2>1, <2>4, <2>5, <2>6, <2>7 DEF TruthTold, Called, Filled, FilledOf
<1>. QED
  BY <1>3, <1>4, <1>5, <1>6, <1>7, <1>8, <1>9 DEF IInv

\* What the answer to a request does to its placement: while no request is
\* late, the client waits for it.
LEMMA AnswerFacts ==
  ASSUME IInv, NEW m \in wire, NEW reply \in Replies \ {None}, Answer(m.id, m.req, reply)
  PROVE  /\ task' \in [Ids -> Tasks]
         /\ m.id \in Ids
         /\ \A d \in Ids : /\ task'[d].pc = task[d].pc /\ task'[d].intent = task[d].intent
                           /\ task'[d].req = task[d].req
         /\ \A d \in Ids \ {m.id} : task'[d] = task[d]
         /\ \/ task' = task /\ ~Awaits(m.id, m.req)
            \/ /\ task'[m.id].reply = reply
               /\ task[m.id].pc = "submitting" /\ task[m.id].reply = None
         /\ faults["late"] = 0 => Awaits(m.id, m.req)
<1>1. m.id \in Ids /\ task \in [Ids -> Tasks]
  BY DEF IInv, TypeOK
<1>2. faults["late"] = 0 => Awaits(m.id, m.req)
  BY DEF IInv, OnlyAwaited
<1>3. CASE Awaits(m.id, m.req)
  <2>1. task' = [task EXCEPT ![m.id] = [task[m.id] EXCEPT !.reply = reply]]
    BY <1>3 DEF Answer
  <2>. DEFINE v == [task[m.id] EXCEPT !.reply = reply]
  <2>2. v \in Tasks /\ v.reply = reply /\ v.pc = task[m.id].pc
        /\ v.intent = task[m.id].intent /\ v.req = task[m.id].req
    BY <1>1 DEF Tasks
  <2>. HIDE DEF v
  <2>3. task' \in [Ids -> Tasks] /\ task'[m.id] = v /\ \A d \in Ids \ {m.id} : task'[d] = task[d]
    BY <1>1, <2>1, <2>2 DEF v
  <2>. QED
    BY <1>1, <1>2, <1>3, <2>2, <2>3 DEF Awaits
<1>4. CASE ~Awaits(m.id, m.req)
  BY <1>1, <1>2, <1>4 DEF Answer
<1>. QED
  BY <1>3, <1>4

\* While no request is late, the answered one was the only one of its id.
LEMMA AnswerKeepsAwaited ==
  ASSUME IInv, FaultsKept, NEW m \in wire, NEW reply \in Replies \ {None},
         Answer(m.id, m.req, reply), wire' = wire \ {m}, faults'["late"] = 0
  PROVE  OnlyAwaited'
<1>1. faults["late"] = 0 /\ OnlyAwaited
  BY DEF IInv, FaultsKept
<1>2. ASSUME NEW n \in wire, n # m PROVE n.id # m.id
  <2>1. n.id = m.id => n.req = m.req
    BY <1>1 DEF OnlyAwaited, Awaits
  <2>2. n \in [id : Ids, req : Nat] /\ m \in [id : Ids, req : Nat]
    BY DEF IInv, TypeOK
  <2>. QED
    BY <1>2, <2>1, <2>2
<1>3. \A n \in wire : n.id \in Ids
  BY DEF IInv, TypeOK
<1>4. \A d \in Ids \ {m.id} : task'[d] = task[d]
  BY AnswerFacts
<1>. QED
  BY <1>1, <1>2, <1>3, <1>4 DEF OnlyAwaited, Awaits

LEMMA RefuseIInv ==
  ASSUME IInv, NEW m \in wire, Refuse(m)
  PROVE  IInv'
<1>. DEFINE c == m.id
<1>0. "ApiError" \in Replies \ {None} /\ Answer(m.id, m.req, "ApiError") /\ wire' = wire \ {m}
  BY DEF Refuse, Replies, None, OrderStates
<1>1. /\ task' \in [Ids -> Tasks] /\ c \in Ids
      /\ \A d \in Ids : task'[d].pc = task[d].pc /\ task'[d].intent = task[d].intent
      /\ \A d \in Ids \ {c} : task'[d] = task[d]
      /\ \/ task' = task
         \/ /\ task'[c].reply = "ApiError"
            /\ task[c].pc = "submitting" /\ task[c].reply = None
  BY <1>0, AnswerFacts
<1>2. UNCHANGED <<orders, stream, sent, ledger, byId, risk, call, faults>> /\ FaultsKept
  BY FaultsKeptFacts DEF Refuse, engine, books, IInv
<1>3. TypeOK'
  BY <1>0, <1>1, <1>2 DEF IInv, TypeOK
<1>4. Labelled'
  BY <1>1, <1>2 DEF IInv, Labelled, Busy, Called
<1>5. ASSUME Roomy PROVE Remembered'
  BY <1>1, <1>2, <1>5 DEF IInv, Remembered, Busy, Called, Recorded
<1>6. ASSUME faults'["late"] = 0 PROVE OnlyAwaited'
  BY <1>0, <1>2, <1>6, AnswerKeepsAwaited
<1>7. ASSUME Roomy, faults'["late"] = 0 PROVE OrdersCounted'
  <2>1. OrdersCounted
    BY <1>2, <1>7 DEF IInv
  <2>2. \A d \in Ids : Owned(d)' = Owned(d)
    BY <1>2 DEF Owned, Recorded
  <2>3. \A d \in Ids : MayHavePlaced(d) => MayHavePlaced(d)'
    BY <1>1 DEF MayHavePlaced, Busy, None
  <2>4. \A d \in Ids : Cardinality(Owned(d)) \in Nat /\ Len(orders[d]) \in Nat
    BY OwnedFacts DEF IInv, TypeOK
  <2>5. \A d \in Ids : Len(orders[d]) <= Cardinality(Owned(d)) + (IF MayHavePlaced(d) THEN 1 ELSE 0)
    BY <2>1 DEF OrdersCounted, Owned
  <2>6. \A d \in Ids : Len(orders'[d]) <= Cardinality(Owned(d)') + (IF MayHavePlaced(d)' THEN 1 ELSE 0)
    BY <1>2, <2>2, <2>3, <2>4, <2>5
  <2>7. \A d \in Ids : task'[d].pc = "polling" /\ task'[d].reply = "Missing" => orders'[d] = << >>
    BY <1>1, <1>2, <2>1 DEF OrdersCounted
  <2>. QED
    BY <2>6, <2>7 DEF OrdersCounted, Owned
<1>8. ASSUME Roomy, Timely' PROVE OrdersKnown'
  <2>1. OrdersKnown
    BY <1>2, <1>8 DEF IInv, Timely
  <2>2. \A d \in Ids : orders[d] # << >> =>
          \/ \E k \in DOMAIN ledger : Acknowledges(k, d)
          \/ task'[d].pc = "polling" /\ task'[d].reply # "Missing"
          \/ task'[d].pc = "submitting" /\ task'[d].reply \in OrderStates
    BY <1>1, <2>1 DEF OrdersKnown, None, OrderStates
  <2>. QED
    BY <1>2, <2>2 DEF OrdersKnown, Acknowledges
<1>9. ASSUME Roomy, ~AckCarriesFills PROVE TruthTold'
  <2>1. TruthTold
    BY <1>9 DEF IInv
  <2>2. \A d \in Ids : task'[d].reply = "FILLED" => Filled(d) # {}
    BY <1>1, <2>1 DEF TruthTold
  <2>. QED
    BY <1>2, <2>1, <2>2 DEF TruthTold, Truthful, Called, Filled
<1>. QED
  BY <1>3, <1>4, <1>5, <1>6, <1>7, <1>8, <1>9 DEF IInv

LEMMA AcceptIInv ==
  ASSUME IInv, NEW m \in wire, Accept(m)
  PROVE  IInv'
<1>. DEFINE c == m.id
<1>0. /\ wire' = wire \ {m} /\ c \in Ids
      /\ UNCHANGED <<sent, ledger, byId, risk, call>>
  BY DEF Accept, books, IInv, TypeOK
<1>1. PICK status \in {"NEW", "FILLED"} :
        /\ orders' = [orders EXCEPT ![c] = Append(orders[c], status)]
        /\ stream' = Append(stream, Report(c, Len(orders[c]) + 1, status))
        /\ \/ Answer(m.id, m.req, status) /\ UNCHANGED faults
           \/ /\ Awaits(m.id, m.req)
              /\ Answer(m.id, m.req, "ApiError")
              /\ Fault("server", MaxServerErrors)
  BY DEF Accept
<1>2. PICK reply \in {status, "ApiError"} :
        /\ Answer(m.id, m.req, reply)
        /\ reply # status => faults'["server"] > 0
        /\ FaultsKept
  BY <1>1, FaultsKeptFacts DEF IInv, FaultKinds
<1>3. reply \in Replies \ {None} /\ reply \in {"NEW", "FILLED", "ApiError"}
  BY DEF Replies, None, OrderStates
<1>4. /\ task' \in [Ids -> Tasks]
      /\ \A d \in Ids : task'[d].pc = task[d].pc /\ task'[d].intent = task[d].intent
      /\ \A d \in Ids \ {c} : task'[d] = task[d]
      /\ \/ task' = task /\ ~Awaits(m.id, m.req)
         \/ /\ task'[c].reply = reply
            /\ task[c].pc = "submitting" /\ task[c].reply = None
      /\ faults["late"] = 0 => Awaits(m.id, m.req)
  BY <1>2, <1>3, AnswerFacts
<1>5. /\ orders' \in [Ids -> Seq(OrderStates)]
      /\ Len(orders'[c]) = Len(orders[c]) + 1 /\ Len(orders[c]) \in Nat
      /\ \A d \in Ids \ {c} : orders'[d] = orders[d]
      /\ FilledOf(orders[c]) \subseteq FilledOf(orders'[c])
      /\ status = "FILLED" => Len(orders[c]) + 1 \in FilledOf(orders'[c])
  <2>1. orders[c] \in Seq(OrderStates) /\ status \in OrderStates
    BY <1>0 DEF IInv, TypeOK, OrderStates
  <2>2. orders'[c] = Append(orders[c], status) /\ \A d \in Ids \ {c} : orders'[d] = orders[d]
    BY <1>0, <1>1 DEF IInv, TypeOK
  <2>3. /\ orders'[c] \in Seq(OrderStates) /\ Len(orders[c]) \in Nat
        /\ Len(orders'[c]) = Len(orders[c]) + 1
        /\ orders'[c][Len(orders[c]) + 1] = status
        /\ \A k \in 1 .. Len(orders[c]) : orders'[c][k] = orders[c][k]
    BY <2>1, <2>2, AppendProperties, LenProperties
  <2>4. orders' \in [Ids -> Seq(OrderStates)]
    BY <1>0, <1>1, <2>1, <2>2, <2>3 DEF IInv, TypeOK
  <2>5. DOMAIN orders[c] = 1 .. Len(orders[c]) /\ DOMAIN orders'[c] = 1 .. (Len(orders[c]) + 1)
    BY <2>1, <2>3, LenProperties
  <2>6. FilledOf(orders[c]) \subseteq FilledOf(orders'[c])
    BY <2>3, <2>5 DEF FilledOf
  <2>7. status = "FILLED" => Len(orders[c]) + 1 \in FilledOf(orders'[c])
    BY <2>3, <2>5 DEF FilledOf
  <2>. QED
    BY <2>2, <2>3, <2>4, <2>6, <2>7
<1>6. /\ stream' \in Seq(Reports)
      /\ \A j \in DOMAIN stream' :
           \/ stream'[j] = Report(c, Len(orders[c]) + 1, status)
           \/ \E l \in DOMAIN stream : stream[l] = stream'[j]
  <2>1. Report(c, Len(orders[c]) + 1, status) \in Reports
    BY <1>0, <1>5 DEF Report, Reports, OrderStates
  <2>. QED
    BY <1>1, <2>1, StreamFacts DEF IInv
<1>7. TypeOK'
  BY <1>0, <1>2, <1>4, <1>5, <1>6 DEF IInv, TypeOK, FaultsKept
<1>8. Labelled'
  BY <1>0, <1>4 DEF IInv, Labelled, Busy, Called
<1>9. ASSUME Roomy PROVE Remembered'
  BY <1>0, <1>4, <1>9 DEF IInv, Remembered, Busy, Called, Recorded
<1>10. ASSUME faults'["late"] = 0 PROVE OnlyAwaited'
  BY <1>0, <1>2, <1>3, <1>10, AnswerKeepsAwaited
<1>11. ASSUME Roomy, faults'["late"] = 0 PROVE OrdersCounted'
  <2>1. OrdersCounted /\ faults["late"] = 0
    BY <1>2, <1>11 DEF IInv, FaultsKept
  <2>2. task'[c].reply = reply /\ task[c].pc = "submitting" /\ task[c].reply = None
    BY <1>4, <2>1
  <2>3. \A d \in Ids : Owned(d)' = Owned(d)
    BY <1>0 DEF Owned, Recorded
  <2>4. ~MayHavePlaced(c) /\ MayHavePlaced(c)'
    BY <1>3, <1>4, <1>0, <2>2 DEF MayHavePlaced, Busy
  <2>5. \A d \in Ids \ {c} : MayHavePlaced(d)' = MayHavePlaced(d)
    BY <1>4 DEF MayHavePlaced, Busy
  <2>6. \A d \in Ids : Len(orders[d]) <= Cardinality(Owned(d)) + (IF MayHavePlaced(d) THEN 1 ELSE 0)
    BY <2>1 DEF OrdersCounted, Owned
  <2>7. Cardinality(Owned(c)) \in Nat
    BY <1>0, OwnedFacts
  <2>8. Len(orders'[c]) <= Cardinality(Owned(c)') + 1
    BY <1>0, <1>5, <2>3, <2>4, <2>6, <2>7
  <2>9. \A d \in Ids : Len(orders'[d]) <= Cardinality(Owned(d)') + (IF MayHavePlaced(d)' THEN 1 ELSE 0)
    BY <1>5, <2>3, <2>4, <2>5, <2>6, <2>8
  <2>10. \A d \in Ids : task'[d].pc = "polling" /\ task'[d].reply = "Missing" => orders'[d] = << >>
    BY <1>0, <1>4, <1>5, <2>1, <2>2 DEF OrdersCounted
  <2>. QED
    BY <2>9, <2>10 DEF OrdersCounted, Owned
<1>12. ASSUME Roomy, Timely' PROVE OrdersKnown'
  <2>1. OrdersKnown /\ faults["late"] = 0 /\ reply = status
    BY <1>2, <1>12 DEF IInv, FaultsKept, Timely
  <2>2. task'[c].pc = "submitting" /\ task'[c].reply \in OrderStates
    BY <1>0, <1>4, <2>1 DEF OrderStates
  <2>3. ASSUME NEW d \in Ids \ {c}, orders'[d] # << >>
        PROVE  \/ \E k \in DOMAIN ledger' : Acknowledges(k, d)'
               \/ task'[d].pc = "polling" /\ task'[d].reply # "Missing"
               \/ task'[d].pc = "submitting" /\ task'[d].reply \in OrderStates
    BY <1>0, <1>4, <1>5, <2>1, <2>3 DEF OrdersKnown, Acknowledges
  <2>. QED
    BY <2>2, <2>3 DEF OrdersKnown
<1>13. ASSUME Roomy, ~AckCarriesFills PROVE TruthTold'
  <2>1. TruthTold
    BY <1>13 DEF IInv
  <2>2. \A d \in Ids : FilledOf(orders[d]) \subseteq FilledOf(orders'[d])
    BY <1>5
  <2>3. \A l \in DOMAIN stream : stream[l].id \in Ids
    <3>1. \A l \in DOMAIN stream : stream[l] \in Reports
      BY ElementOfSeq DEF IInv, TypeOK
    <3>. QED
      BY <3>1 DEF Reports
  <2>4. ASSUME NEW j \in DOMAIN stream', stream'[j].status = "FILLED"
        PROVE  stream'[j].order \in FilledOf(orders'[stream'[j].id])
    <3>1. CASE stream'[j] = Report(c, Len(orders[c]) + 1, status)
      BY <1>5, <2>4, <3>1 DEF Report
    <3>2. CASE \E l \in DOMAIN stream : stream[l] = stream'[j]
      BY <2>1, <2>2, <2>3, <2>4, <3>2 DEF TruthTold, Filled, FilledOf
    <3>. QED
      BY <1>6, <3>1, <3>2
  <2>5. ASSUME NEW t \in Keys, call[t].pc # "idle", call[t].reply = "FILLED"
        PROVE  FilledOf(orders'[call[t].id]) # {}
    BY <2>1, <2>2, <2>5 DEF TruthTold, Called, Filled, FilledOf, IInv, Labelled
  <2>6. ASSUME NEW k \in DOMAIN ledger PROVE Truthful(ledger[k])'
    <3>1. Truthful(ledger[k]) /\ ledger[k].id \in Ids
      BY <2>1, EntryTypes DEF TruthTold, IInv
    <3>. QED
      BY <1>0, <2>2, <3>1 DEF Truthful, Filled, FilledOf
  <2>7. \A d \in Ids : task'[d].reply = "FILLED" => FilledOf(orders'[d]) # {}
    <3>1. \A d \in Ids : task[d].reply = "FILLED" => FilledOf(orders'[d]) # {}
      BY <2>1, <2>2 DEF TruthTold, Filled, FilledOf
    <3>2. reply = "FILLED" => FilledOf(orders'[c]) # {}
      BY <1>3, <1>5
    <3>. QED
      BY <1>4, <3>1, <3>2
  <2>. QED
    BY <1>0, <2>1, <2>4, <2>5, <2>6, <2>7 DEF TruthTold, Called, Filled, FilledOf
<1>. QED
  BY <1>7, <1>8, <1>9, <1>10, <1>11, <1>12, <1>13 DEF IInv

\* A report that is delivered changes its entry in place: the entry then shows
\* what the report does, and a trade reported before counts once.
LEMMA DeliverIInv ==
  ASSUME IInv, Deliver
  PROVE  IInv'
<1>. DEFINE r == Head(stream)
<1>0. stream \in Seq(Reports) /\ stream # << >> /\ r \in Reports /\ ApplyReport(r)
      /\ r = stream[1] /\ 1 \in DOMAIN stream
  BY DEF Deliver, IInv, TypeOK
<1>1. /\ ledger' \in Seq(Executions) /\ Len(ledger') = Len(ledger) /\ Distinct(ledger')
      /\ \A k \in DOMAIN ledger : /\ Reported(ledger[k], ledger'[k], r)
                                  /\ ledger[k].intent # byId[r.id] => ledger'[k] = ledger[k]
  BY <1>0, ReportFacts DEF IInv
<1>2. UNCHANGED <<orders, wire, sent, byId, task, call, risk>> /\ FaultsKept
  BY FaultsKeptFacts DEF Deliver, IInv, FaultKinds
<1>3. /\ stream' \in Seq(Reports)
      /\ \A j \in DOMAIN stream' : \E l \in DOMAIN stream : stream[l] = stream'[j]
  <2>1. CASE stream' = Tail(stream)
    <3>1. /\ Tail(stream) \in Seq(Reports) /\ Len(Tail(stream)) = Len(stream) - 1
          /\ \A j \in 1 .. Len(Tail(stream)) : Tail(stream)[j] = stream[j + 1]
      BY <1>0, HeadTailProperties
    <3>2. \A j \in DOMAIN Tail(stream) : j + 1 \in DOMAIN stream
      BY <1>0, <3>1
    <3>. QED
      BY <2>1, <3>1, <3>2
  <2>2. CASE UNCHANGED stream
    BY <1>0, <2>2
  <2>. QED
    BY <2>1, <2>2 DEF Deliver
<1>4. DOMAIN ledger' = DOMAIN ledger
  BY <1>1, LenProperties DEF IInv, TypeOK
<1>5. \A k \in DOMAIN ledger : /\ ledger'[k].intent = ledger[k].intent
                               /\ ledger'[k].id = ledger[k].id
                               /\ ledger'[k].state = ledger[k].state
  BY <1>1 DEF Reported
<1>6. TypeOK'
  BY <1>1, <1>2, <1>3 DEF IInv, TypeOK, FaultsKept, Distinct
<1>7. Labelled'
  BY <1>2, <1>4, <1>5 DEF IInv, Labelled, Busy, Called
<1>8. \A t : Recorded(t)' <=> Recorded(t)
  BY <1>4, <1>5 DEF Recorded
<1>9. ASSUME Roomy PROVE Remembered'
  <2>1. Remembered
    BY <1>9 DEF IInv
  <2>2. \A t : Has(ledger', t) <=> Recorded(t)
    BY <1>8 DEF Has, Recorded
  <2>. QED
    BY <1>2, <2>1, <2>2 DEF Remembered, Busy, Called, Has, Recorded
<1>10. ASSUME faults'["late"] = 0 PROVE OnlyAwaited'
  BY <1>2, <1>10 DEF IInv, FaultsKept, OnlyAwaited, Awaits
<1>11. ASSUME Roomy, faults'["late"] = 0 PROVE OrdersCounted'
  <2>1. OrdersCounted
    BY <1>2, <1>11 DEF IInv, FaultsKept
  <2>2. \A d \in Ids : {i \in Placed(d) : Recorded(i)}' = {i \in Placed(d) : Recorded(i)}
    BY <1>8
  <2>. QED
    BY <1>2, <2>1, <2>2 DEF OrdersCounted, MayHavePlaced, Busy
<1>12. ASSUME Roomy, Timely' PROVE OrdersKnown'
  BY <1>2, <1>4, <1>5, <1>12 DEF IInv, FaultsKept, OrdersKnown, Acknowledges
<1>13. ASSUME Roomy, ~AckCarriesFills PROVE TruthTold'
  <2>1. TruthTold
    BY <1>13 DEF IInv
  <2>2. r.status = "FILLED" => r.order \in Filled(r.id)
    BY <1>0, <2>1 DEF TruthTold
  <2>3. ASSUME NEW k \in DOMAIN ledger PROVE Truthful(ledger'[k])
    <3>1. CASE ledger'[k] = ledger[k]
      BY <2>1, <3>1 DEF TruthTold
    <3>2. CASE ledger'[k] # ledger[k]
      <4>1. ledger[k].id = r.id
        <5>1. r.id \in Ids /\ ledger[k].intent = byId[r.id]
          BY <1>0, <1>1, <3>2 DEF Reports
        <5>. QED
          BY <2>1, <5>1 DEF TruthTold
      <4>2. ledger'[k].id = r.id
        BY <1>5, <4>1
      <4>. DEFINE old == ledger[k].fills
                  new == ledger'[k].fills
      <4>3. /\ ledger'[k].status = r.status
            /\ new = IF r.status = "FILLED" THEN AddFill(old, r.order) ELSE old
        BY <1>1, <3>2 DEF Reported
      <4>4. /\ \A a \in DOMAIN old : old[a] \in Filled(r.id)
            /\ \A a, b \in DOMAIN old : old[a] = old[b] => a = b
        BY <2>1, <4>1 DEF TruthTold, Truthful
      <4>5. old \in Seq(Nat) /\ r.order \in Nat
        BY <1>0, EntryTypes DEF IInv, Reports
      <4>. HIDE DEF old, new
      <4>6. /\ \A a \in DOMAIN new : new[a] \in Filled(r.id)
            /\ \A a, b \in DOMAIN new : new[a] = new[b] => a = b
        <5>1. CASE r.status = "FILLED"
          <6>1. new = AddFill(old, r.order) /\ r.order \in Filled(r.id)
            BY <2>2, <4>3, <5>1
          <6>. DEFINE added == AddFill(old, r.order)
          <6>2. /\ \A a \in DOMAIN added :
                     added[a] = r.order \/ \E b \in DOMAIN old : old[b] = added[a]
                /\ (\A a, b \in DOMAIN old : old[a] = old[b] => a = b) =>
                     \A a, b \in DOMAIN added : added[a] = added[b] => a = b
            BY <4>5, AddFillFacts
          <6>. HIDE DEF added
          <6>3. new = added
            BY <6>1 DEF added
          <6>4. \A a \in DOMAIN added : added[a] \in Filled(r.id)
            BY <4>4, <6>1, <6>2
          <6>5. \A a, b \in DOMAIN added : added[a] = added[b] => a = b
            BY <4>4, <6>2
          <6>. QED
            BY <6>3, <6>4, <6>5
        <5>2. CASE r.status # "FILLED"
          BY <4>3, <4>4, <5>2
        <5>. QED
          BY <5>1, <5>2
      <4>7. ledger'[k].status = "FILLED" => Filled(r.id) # {}
        BY <2>2, <4>3
      <4>. QED
        BY <4>2, <4>6, <4>7 DEF Truthful, new
    <3>. QED
      BY <3>1, <3>2
  <2>4. \A j \in DOMAIN stream' : stream'[j].status = "FILLED" => stream'[j].order \in Filled(stream'[j].id)
    BY <1>3, <2>1 DEF TruthTold
  <2>5. \A c \in Ids, k \in DOMAIN ledger' : ledger'[k].intent = byId[c] => ledger'[k].id = c
    BY <1>4, <1>5, <2>1 DEF TruthTold
  <2>. QED
    BY <1>2, <1>4, <2>1, <2>3, <2>4, <2>5 DEF TruthTold, Truthful, Called, Filled
<1>. QED
  BY <1>6, <1>7, <1>9, <1>10, <1>11, <1>12, <1>13 DEF IInv

LEMMA TradeIInv ==
  ASSUME IInv, NEW c \in Ids, NEW k \in DOMAIN orders[c], Trade(c, k)
  PROVE  IInv'
<1>1. /\ UNCHANGED <<wire, sent, books, task, call, faults>>
      /\ orders[c][k] = "NEW" /\ orders' = [orders EXCEPT ![c][k] = "FILLED"]
      /\ stream' = Append(stream, Report(c, k, "FILLED"))
  BY DEF Trade
<1>2. /\ orders' \in [Ids -> Seq(OrderStates)]
      /\ \A d \in Ids : Len(orders'[d]) = Len(orders[d])
      /\ \A d \in Ids : FilledOf(orders[d]) \subseteq FilledOf(orders'[d])
      /\ k \in FilledOf(orders'[c]) /\ k \in Nat
  BY <1>1, RestingFacts DEF IInv
<1>3. Report(c, k, "FILLED") \in Reports /\ Report(c, k, "FILLED").id = c
      /\ Report(c, k, "FILLED").order = k
  BY <1>2 DEF Report, Reports, OrderStates
<1>4. /\ stream' \in Seq(Reports)
      /\ \A j \in DOMAIN stream' :
           \/ \E l \in DOMAIN stream : stream[l] = stream'[j]
           \/ stream'[j].status = "FILLED" => stream'[j].order \in FilledOf(orders'[stream'[j].id])
  BY <1>1, <1>2, <1>3, StreamFacts DEF IInv
<1>5. FaultsKept /\ call' \in [Keys -> Calls] /\ \A t \in Keys : call'[t] = call[t]
  BY <1>1, FaultsKeptFacts DEF IInv, TypeOK
<1>. QED
  BY <1>1, <1>2, <1>4, <1>5, EngineMoves

LEMMA CancelServedIInv ==
  ASSUME IInv, NEW t \in Keys, CancelServed(t)
  PROVE  IInv'
<1>. DEFINE c == call[t].id
<1>1. /\ UNCHANGED <<wire, sent, books, task, faults>>
      /\ call[t].pc = "canceling" /\ c \in Ids
  BY DEF CancelServed, IInv, Labelled, Called
<1>2. FaultsKept
  BY <1>1, FaultsKeptFacts DEF IInv
<1>3. ASSUME NEW reply \in {"CANCELED", "Missing"}, SetCall(t, "canceled", c, reply)
      PROVE  /\ call' \in [Keys -> Calls]
             /\ \A s \in Keys : \/ call'[s] = call[s]
                                \/ /\ call[s].pc = "canceling" /\ call'[s].pc = "canceled"
                                   /\ call'[s].id = call[s].id /\ call'[s].reply # "FILLED"
  BY <1>1, <1>3 DEF SetCall, IInv, TypeOK, Calls, CallPcs, OrderStates
<1>4. ASSUME NEW k \in DOMAIN orders[c], orders[c][k] = "NEW",
             orders' = [orders EXCEPT ![c][k] = "CANCELED"],
             stream' = Append(stream, Report(c, k, "CANCELED")),
             SetCall(t, "canceled", c, "CANCELED")
      PROVE  IInv'
  <2>1. /\ orders' \in [Ids -> Seq(OrderStates)]
        /\ \A d \in Ids : Len(orders'[d]) = Len(orders[d])
        /\ \A d \in Ids : FilledOf(orders[d]) \subseteq FilledOf(orders'[d])
        /\ k \in Nat
    BY <1>1, <1>4, RestingFacts DEF IInv
  <2>2. Report(c, k, "CANCELED") \in Reports /\ Report(c, k, "CANCELED").status = "CANCELED"
    BY <1>1, <2>1 DEF Report, Reports, OrderStates
  <2>3. /\ stream' \in Seq(Reports)
        /\ \A j \in DOMAIN stream' :
             \/ \E l \in DOMAIN stream : stream[l] = stream'[j]
             \/ stream'[j].status = "FILLED" => stream'[j].order \in FilledOf(orders'[stream'[j].id])
    BY <1>4, <2>2, StreamFacts DEF IInv
  <2>. HIDE DEF c
  <2>. QED
    BY <1>1, <1>2, <1>3, <1>4, <2>1, <2>3, EngineMoves
<1>5. ASSUME UNCHANGED engine, SetCall(t, "canceled", c, "Missing")
      PROVE  IInv'
  <2>1. UNCHANGED <<orders, stream>>
    BY <1>5 DEF engine
  <2>2. orders' \in [Ids -> Seq(OrderStates)] /\ stream' \in Seq(Reports)
    BY <2>1 DEF IInv, TypeOK
  <2>. HIDE DEF c
  <2>. QED
    BY <1>1, <1>2, <1>3, <1>5, <2>1, <2>2, EngineMoves
<1>. QED
  BY <1>4, <1>5 DEF CancelServed

LEMMA LoseFrameIInv ==
  ASSUME IInv, LoseFrame
  PROVE  IInv'
<1>1. /\ stream \in Seq(Reports) /\ stream # << >> /\ stream' = Tail(stream)
      /\ UNCHANGED <<orders, wire, sent, books, task, call>> /\ FaultsKept
  BY FaultsKeptFacts DEF LoseFrame, IInv, TypeOK, FaultKinds
<1>2. /\ Tail(stream) \in Seq(Reports) /\ Len(Tail(stream)) = Len(stream) - 1
      /\ \A j \in 1 .. Len(Tail(stream)) : Tail(stream)[j] = stream[j + 1]
  BY <1>1, HeadTailProperties
<1>3. \A j \in DOMAIN Tail(stream) : j + 1 \in DOMAIN stream
  BY <1>1, <1>2
<1>4. stream' \in Seq(Reports) /\ \A j \in DOMAIN stream' : \E l \in DOMAIN stream : stream[l] = stream'[j]
  BY <1>1, <1>2, <1>3
<1>5. orders' \in [Ids -> Seq(OrderStates)] /\ call' \in [Keys -> Calls]
  BY <1>1 DEF IInv, TypeOK
<1>. QED
  BY <1>1, <1>4, <1>5, EngineMoves

LEMMA ResetBreakerIInv ==
  ASSUME IInv, ResetBreaker
  PROVE  IInv'
<1>1. UNCHANGED <<orders, stream, wire, sent, ledger, byId, task, call, faults>>
  BY DEF ResetBreaker, engine
<1>2. risk' \in [open : Int, failures : Nat, tripped : BOOLEAN]
  <2>1. risk \in [open : Int, failures : Nat, tripped : BOOLEAN]
    BY DEF IInv, TypeOK
  <2>. QED
    BY <2>1 DEF ResetBreaker
<1>3. TypeOK'
  BY <1>1, <1>2 DEF IInv, TypeOK
<1>4. Labelled' /\ (Roomy => Remembered')
  BY <1>1 DEF IInv, Labelled, Remembered, Busy, Called, Recorded
<1>5. faults'["late"] = 0 => OnlyAwaited'
  BY <1>1 DEF IInv, OnlyAwaited, Awaits
<1>6. Roomy /\ faults'["late"] = 0 => OrdersCounted'
  BY <1>1 DEF IInv, OrdersCounted, Recorded, MayHavePlaced, Busy
<1>7. Roomy /\ Timely' => OrdersKnown'
  BY <1>1 DEF IInv, OrdersKnown, Timely, Acknowledges
<1>8. Roomy /\ ~AckCarriesFills => TruthTold'
  BY <1>1 DEF IInv, TruthTold, Truthful, Filled, Called
<1>. QED
  BY <1>3, <1>4, <1>5, <1>6, <1>7, <1>8 DEF IInv

\* The gateway lets a create request pass, the first of its placement or the
\* one that follows a lookup which found no order.
LEMMA AdmitIInv ==
  ASSUME IInv, NEW c \in Ids, NEW i \in Placed(c), NEW n \in 1 .. 2, Admit(c, i, n),
         UNCHANGED <<engine, wire, books, call, faults>>, Roomy => ~Recorded(i),
         task[c].pc # "submitting",
         ~Busy(c) \/ (task[c].pc = "polling" /\ task[c].reply = "Missing")
  PROVE  IInv'
<1>0. PICK r \in Nat : r = sent[c] + 1
  BY DEF IInv, TypeOK
<1>1. sent' \in [Ids -> Nat]
  <2>1. sent \in [Ids -> Nat] /\ sent[c] \in Nat
    BY DEF IInv, TypeOK
  <2>. QED
    BY <1>0, <2>1 DEF Admit
<1>. DEFINE v == [IdleTask EXCEPT !.pc = "admitted", !.intent = i, !.submission = n, !.req = r]
<1>2. v \in Tasks /\ v.pc = "admitted" /\ v.intent = i /\ v.reply = None
  <2>1. IdleTask \in Tasks /\ IdleTask.reply = None
    BY LimitsAssumption DEF IdleTask, Tasks, Replies
  <2>2. i \in Intents /\ n \in 0 .. 2
    BY DEF Placed
  <2>. DEFINE u == [IdleTask EXCEPT !.pc = "admitted", !.intent = i]
  <2>3. u \in Tasks /\ u.pc = "admitted" /\ u.intent = i /\ u.reply = None
    BY <2>1, <2>2 DEF Tasks
  <2>4. v = [u EXCEPT !.submission = n, !.req = r]
    OBVIOUS
  <2>. HIDE DEF u, v
  <2>. QED
    BY <2>2, <2>3, <2>4 DEF Tasks
<1>3. task' = [task EXCEPT ![c] = v]
  BY <1>0 DEF Admit
<1>4. wire' \subseteq [id : Ids, req : Nat]
  BY DEF IInv, TypeOK
<1>. HIDE DEF v
<1>5. task'[c] = v /\ \A d \in Ids \ {c} : task'[d] = task[d]
  BY <1>3 DEF IInv, TypeOK
<1>6. ASSUME faults'["late"] = 0 PROVE OnlyAwaited'
  <2>1. OnlyAwaited /\ wire \subseteq [id : Ids, req : Nat]
    BY <1>6 DEF IInv, TypeOK
  <2>2. ASSUME NEW m \in wire PROVE Awaits(m.id, m.req) /\ m.id \in Ids \ {c}
    BY <2>1 DEF OnlyAwaited, Awaits
  <2>. QED
    BY <1>5, <2>2 DEF OnlyAwaited, Awaits
<1>7. ~MayHavePlaced(c) \/ (Roomy /\ faults["late"] = 0 => orders[c] = << >>)
  BY DEF IInv, OrdersCounted, MayHavePlaced
<1>8. FaultsKept
  BY FaultsKeptFacts DEF IInv
<1>. QED
  BY <1>1, <1>2, <1>3, <1>4, <1>6, <1>7, <1>8, TaskMoves

\* A request leaves: while no request is late, it is the only one of its id.
LEMMA SendIInv ==
  ASSUME IInv, NEW c \in Ids, Send(c)
  PROVE  IInv'
<1>0. PICK m0 : m0 = [id |-> c, req |-> task[c].req]
  OBVIOUS
<1>. DEFINE v == [task[c] EXCEPT !.pc = "submitting"]
<1>1. /\ task[c].pc = "admitted" /\ UNCHANGED <<engine, sent, books, call, faults>>
      /\ task' = [task EXCEPT ![c] = v] /\ wire' = wire \union {m0}
  BY <1>0 DEF Send
<1>2. task[c] \in Tasks /\ task[c].reply = None
  BY <1>1 DEF IInv, TypeOK, Labelled
<1>3. v \in Tasks /\ v.pc = "submitting" /\ v.reply = None
      /\ v.intent = task[c].intent /\ v.req = task[c].req
  BY <1>2 DEF Tasks
<1>4. m0 \in [id : Ids, req : Nat] /\ m0.id = c /\ m0.req = task[c].req
  BY <1>0, <1>2 DEF Tasks
<1>. HIDE DEF v
<1>5. task'[c] = v /\ \A d \in Ids \ {c} : task'[d] = task[d]
  BY <1>1 DEF IInv, TypeOK
<1>6. ASSUME faults'["late"] = 0 PROVE OnlyAwaited'
  <2>1. OnlyAwaited /\ wire \subseteq [id : Ids, req : Nat]
    BY <1>1, <1>6 DEF IInv, TypeOK
  <2>2. ASSUME NEW m \in wire PROVE Awaits(m.id, m.req) /\ m.id \in Ids \ {c}
    BY <1>1, <2>1 DEF OnlyAwaited, Awaits
  <2>3. \A m \in wire : Awaits(m.id, m.req)'
    BY <1>5, <2>2 DEF Awaits
  <2>4. Awaits(m0.id, m0.req)'
    BY <1>3, <1>4, <1>5 DEF Awaits
  <2>. QED
    BY <1>1, <2>3, <2>4 DEF OnlyAwaited
<1>7. wire' \subseteq [id : Ids, req : Nat] /\ sent' \in [Ids -> Nat]
  BY <1>1, <1>4 DEF IInv, TypeOK
<1>8. v.intent \in Placed(c) /\ (Roomy => ~Recorded(v.intent))
  BY <1>1, <1>3 DEF IInv, Labelled, Remembered, Busy
<1>9. ~MayHavePlaced(c)
  BY <1>1, <1>2 DEF MayHavePlaced
<1>10. FaultsKept
  BY <1>1, FaultsKeptFacts DEF IInv
<1>. QED
  BY <1>1, <1>3, <1>6, <1>7, <1>8, <1>9, <1>10, TaskMoves

\* A request nobody processed waits to leave once more.
LEMMA ThrottledIInv ==
  ASSUME IInv, NEW m \in wire, Throttled(m)
  PROVE  IInv'
<1>0. m \in [id : Ids, req : Nat]
  BY DEF IInv, TypeOK
<1>. DEFINE c == m.id
            v == [task[c] EXCEPT !.pc = "admitted", !.attempt = task[c].attempt + 1]
<1>1. /\ c \in Ids /\ UNCHANGED <<engine, sent, books, call, faults>>
      /\ task[c].pc = "submitting" /\ task[c].req = m.req /\ task[c].reply = None
      /\ task[c].attempt < MaxRetries
      /\ task' = [task EXCEPT ![c] = v] /\ wire' = wire \ {m}
  BY <1>0 DEF Throttled, Awaits
<1>2. task[c] \in Tasks /\ task[c].attempt + 1 \in 0 .. MaxRetries
  BY <1>1, LimitsAssumption DEF IInv, TypeOK, Tasks
<1>3. v \in Tasks /\ v.pc = "admitted" /\ v.reply = None /\ v.intent = task[c].intent
  BY <1>1, <1>2 DEF Tasks
<1>. HIDE DEF v
<1>5. task'[c] = v /\ \A d \in Ids \ {c} : task'[d] = task[d]
  BY <1>1 DEF IInv, TypeOK
<1>6. ASSUME faults'["late"] = 0 PROVE OnlyAwaited'
  <2>1. OnlyAwaited /\ wire \subseteq [id : Ids, req : Nat]
    BY <1>1, <1>6 DEF IInv, TypeOK
  <2>2. ASSUME NEW n \in wire, n.id = c PROVE n = m
    BY <1>0, <1>1, <2>1, <2>2 DEF OnlyAwaited, Awaits
  <2>3. \A n \in wire' : n \in wire /\ n.id \in Ids \ {c}
    BY <1>1, <2>1, <2>2
  <2>. QED
    BY <1>5, <2>1, <2>3 DEF OnlyAwaited, Awaits
<1>7. wire' \subseteq [id : Ids, req : Nat] /\ sent' \in [Ids -> Nat]
  BY <1>1 DEF IInv, TypeOK
<1>8. v.intent \in Placed(c) /\ (Roomy => ~Recorded(v.intent))
  BY <1>1, <1>3 DEF IInv, Labelled, Remembered, Busy
<1>9. ~MayHavePlaced(c)
  BY <1>1 DEF MayHavePlaced
<1>10. FaultsKept
  BY <1>1, FaultsKeptFacts DEF IInv
<1>. QED
  BY <1>1, <1>3, <1>6, <1>7, <1>8, <1>9, <1>10, TaskMoves

LEMMA PlaceOrderIInv ==
  ASSUME IInv, NEW i \in Intents, PlaceOrder(i)
  PROVE  IInv'
<1>1. ClientId[i] \in Ids /\ i \in Placed(ClientId[i])
  BY NamesAssumption DEF Placed
<1>2. /\ Admit(ClientId[i], i, 1) /\ UNCHANGED <<engine, wire, books, call, faults>>
      /\ ~Recorded(i) /\ task[ClientId[i]].pc = "idle"
  BY DEF PlaceOrder
<1>. QED
  BY <1>1, <1>2, AdmitIInv DEF Busy

LEMMA ExecutionFacts ==
  ASSUME NEW t \in Keys, NEW c \in Ids, NEW state \in ReconciliationStates,
         NEW status \in Statuses, NEW fills \in Seq(Nat)
  PROVE  /\ Execution(t, c, state, status, fills) \in Executions
         /\ Execution(t, c, state, status, fills).intent = t
         /\ Execution(t, c, state, status, fills).id = c
         /\ Execution(t, c, state, status, fills).state = state
         /\ Execution(t, c, state, status, fills).status = status
         /\ Execution(t, c, state, status, fills).fills = fills
<1>. DEFINE b == t \in Intents
<1>1. b \in BOOLEAN
  OBVIOUS
<1>2. Execution(t, c, state, status, fills)
        = [intent |-> t, id |-> c, state |-> state, status |-> status, fills |-> fills, sized |-> b]
  BY DEF Execution
<1>. HIDE DEF b
<1>. QED
  BY <1>1, <1>2 DEF Executions

LEMMA UnfilledFacts ==
  ASSUME NEW t \in Keys, NEW c \in Ids, NEW state \in ReconciliationStates, NEW status \in Statuses
  PROVE  /\ Execution(t, c, state, status, << >>) \in Executions
         /\ Execution(t, c, state, status, << >>).intent = t
         /\ Execution(t, c, state, status, << >>).id = c
         /\ Execution(t, c, state, status, << >>).state = state
         /\ Execution(t, c, state, status, << >>).status = status
         /\ Execution(t, c, state, status, << >>).fills = << >>
<1>. DEFINE e == Execution(t, c, state, status, << >>)
<1>1. << >> \in Seq(Nat)
  BY EmptySeq
<1>2. PICK fills \in Seq(Nat) : fills = << >>
  BY <1>1, Zenon
<1>3. e = Execution(t, c, state, status, fills)
  BY <1>2, Zenon
<1>. HIDE DEF e
<1>4. /\ e \in Executions /\ e.intent = t /\ e.id = c /\ e.state = state /\ e.status = status
      /\ e.fills = fills
  BY <1>3, ExecutionFacts
<1>5. e.fills = << >>
  BY <1>2, <1>4
<1>. QED
  BY <1>4, <1>5, Zenon DEF e

\* The intent of a placement in flight.
LEMMA BusyFacts ==
  ASSUME IInv, NEW c \in Ids, Busy(c)
  PROVE  task[c].intent \in Placed(c) /\ task[c].intent \in Keys
  BY DEF IInv, Labelled, Placed, Keys

LEMMA AcknowledgedIInv ==
  ASSUME IInv, NEW c \in Ids, Acknowledged(c)
  PROVE  IInv'
<1>. DEFINE e == Execution(task[c].intent, c, "acked", task[c].reply, AckFills(task[c].reply))
<1>1. /\ task[c].pc = "submitting" /\ task[c].reply \in OrderStates /\ Record(e) /\ Settle(c)
      /\ UNCHANGED <<engine, wire, sent, call, faults>>
  BY DEF Acknowledged
<1>2. AckFills(task[c].reply) \in Seq(Nat) /\ (~AckCarriesFills => AckFills(task[c].reply) = << >>)
  BY DEF AckFills, NoTrade
<1>3. MayHavePlaced(c) /\ task[c].intent \in Keys
  BY <1>1, BusyFacts DEF MayHavePlaced, Busy, None, OrderStates
<1>4. task[c].reply \in Statuses /\ "acked" \in ReconciliationStates
  BY <1>1 DEF Statuses, ReconciliationStates
<1>5. /\ e \in Executions /\ e.intent = task[c].intent /\ e.id = c /\ e.state = "acked"
      /\ e.status = task[c].reply /\ e.fills = AckFills(task[c].reply)
  BY <1>2, <1>3, <1>4, ExecutionFacts
<1>. HIDE DEF e
<1>. QED
  BY <1>1, <1>2, <1>3, <1>5, TaskRecords

LEMMA RejectedIInv ==
  ASSUME IInv, NEW c \in Ids, Rejected(c)
  PROVE  IInv'
<1>. DEFINE e == Execution(task[c].intent, c, "rejected", "REJECTED", << >>)
<1>1. /\ task[c].pc = "submitting" /\ task[c].reply = "ApiError" /\ Record(e) /\ Settle(c)
      /\ UNCHANGED <<engine, wire, sent, call, faults>>
  BY DEF Rejected
<1>2. MayHavePlaced(c) /\ task[c].intent \in Keys
  BY <1>1, BusyFacts DEF MayHavePlaced, Busy, None
<1>3. "REJECTED" \in Statuses /\ "rejected" \in ReconciliationStates
  BY DEF Statuses, ReconciliationStates
<1>4. /\ e \in Executions /\ e.intent = task[c].intent /\ e.id = c /\ e.state = "rejected"
      /\ e.status = "REJECTED" /\ e.fills = << >>
  BY <1>2, <1>3, UnfilledFacts
<1>. HIDE DEF e
<1>. QED
  BY <1>1, <1>2, <1>4, TaskRecords

LEMMA RecoveredIInv ==
  ASSUME IInv, NEW c \in Ids, Recovered(c)
  PROVE  IInv'
<1>. DEFINE e == Execution(task[c].intent, c, "reconciled", task[c].reply, << >>)
<1>1. /\ task[c].pc = "polling" /\ task[c].reply \in OrderStates /\ Record(e) /\ Settle(c)
      /\ UNCHANGED <<engine, wire, sent, call, faults>>
  BY DEF Recovered
<1>2. MayHavePlaced(c) /\ task[c].intent \in Keys
  BY <1>1, BusyFacts DEF MayHavePlaced, Busy
<1>3. task[c].reply \in Statuses /\ "reconciled" \in ReconciliationStates
  BY <1>1 DEF Statuses, ReconciliationStates
<1>4. /\ e \in Executions /\ e.intent = task[c].intent /\ e.id = c /\ e.state = "reconciled"
      /\ e.status = task[c].reply /\ e.fills = << >>
  BY <1>2, <1>3, UnfilledFacts
<1>. HIDE DEF e
<1>. QED
  BY <1>1, <1>2, <1>4, TaskRecords

LEMMA RecordUnknownIInv ==
  ASSUME IInv, NEW c \in Ids, task[c].pc = "polling", RecordUnknown(c),
         UNCHANGED <<engine, call, faults>>
  PROVE  IInv'
<1>. DEFINE e == Execution(task[c].intent, c, "unknown", "UNKNOWN", << >>)
<1>1. Record(e) /\ Settle(c) /\ UNCHANGED <<engine, wire, sent, call, faults>>
  BY DEF RecordUnknown
<1>2. MayHavePlaced(c) /\ task[c].intent \in Keys
  BY BusyFacts DEF MayHavePlaced, Busy
<1>3. "UNKNOWN" \in Statuses /\ "unknown" \in ReconciliationStates
  BY DEF Statuses, ReconciliationStates
<1>4. /\ e \in Executions /\ e.intent = task[c].intent /\ e.id = c /\ e.state = "unknown"
      /\ e.status = "UNKNOWN" /\ e.fills = << >>
  BY <1>2, <1>3, UnfilledFacts
<1>. HIDE DEF e
<1>. QED
  BY <1>1, <1>2, <1>4, TaskRecords

LEMMA TimesOutIInv ==
  ASSUME IInv, NEW c \in Ids, TimesOut(c)
  PROVE  IInv'
<1>. DEFINE v == [task[c] EXCEPT !.pc = "polling", !.reply = None]
<1>1. /\ task[c].pc = "submitting" /\ UNCHANGED <<engine, sent, books, call>>
      /\ task' = [task EXCEPT ![c] = v]
      /\ \/ wire' = wire \ {[id |-> c, req |-> task[c].req]} /\ UNCHANGED faults
         \/ Fault("late", MaxLate) /\ UNCHANGED wire
  BY DEF TimesOut
<1>2. task[c] \in Tasks
  BY DEF IInv, TypeOK
<1>3. v \in Tasks /\ v.pc = "polling" /\ v.reply = None /\ v.intent = task[c].intent
  BY <1>2 DEF Tasks, Replies
<1>. HIDE DEF v
<1>4. task'[c] = v /\ \A d \in Ids \ {c} : task'[d] = task[d]
  BY <1>1 DEF IInv, TypeOK
<1>5. FaultsKept /\ (faults'["late"] = 0 => wire' = wire \ {[id |-> c, req |-> task[c].req]})
  BY <1>1, FaultsKeptFacts DEF IInv, FaultKinds
<1>6. ASSUME faults'["late"] = 0 PROVE OnlyAwaited'
  <2>1. OnlyAwaited /\ wire \subseteq [id : Ids, req : Nat]
    BY <1>5, <1>6 DEF IInv, TypeOK, FaultsKept
  <2>2. ASSUME NEW m \in wire, m.id = c PROVE m = [id |-> c, req |-> task[c].req]
    BY <2>1, <2>2 DEF OnlyAwaited, Awaits
  <2>3. \A m \in wire' : m \in wire /\ m.id # c /\ m.id \in Ids
    BY <1>5, <1>6, <2>1, <2>2
  <2>. QED
    BY <1>4, <2>1, <2>3 DEF OnlyAwaited, Awaits
<1>7. wire' \subseteq [id : Ids, req : Nat] /\ sent' \in [Ids -> Nat]
  BY <1>1 DEF IInv, TypeOK
<1>8. v.intent \in Placed(c) /\ (Roomy => ~Recorded(v.intent))
  BY <1>1, <1>3 DEF IInv, Labelled, Remembered, Busy
<1>. QED
  BY <1>1, <1>3, <1>5, <1>6, <1>7, <1>8, TaskMoves

\* A placement in flight is still polling, or is given up when there is no
\* order.
LEMMA PollMoves ==
  ASSUME IInv, NEW c \in Ids, task[c].pc = "polling", NEW v \in Tasks,
         task' = [task EXCEPT ![c] = v], UNCHANGED <<engine, wire, sent, books, call, faults>>,
         \/ v.pc = "polling" /\ v.intent = task[c].intent /\ v.reply \in {None, Lookup(c)}
         \/ v = IdleTask /\ task[c].reply = "Missing"
  PROVE  IInv'
<1>1. task'[c] = v /\ \A d \in Ids \ {c} : task'[d] = task[d]
  BY DEF IInv, TypeOK
<1>2. ASSUME faults'["late"] = 0 PROVE OnlyAwaited'
  <2>1. OnlyAwaited /\ \A m \in wire : m.id \in Ids
    BY <1>2 DEF IInv, TypeOK
  <2>. QED
    BY <1>1, <2>1 DEF OnlyAwaited, Awaits
<1>3. FaultsKept
  BY FaultsKeptFacts DEF IInv
<1>4. wire' \subseteq [id : Ids, req : Nat] /\ sent' \in [Ids -> Nat]
  BY DEF IInv, TypeOK
<1>5. task[c].intent \in Placed(c) /\ (Roomy => ~Recorded(task[c].intent))
  BY DEF IInv, Labelled, Remembered, Busy
<1>6. v = IdleTask => v.pc = "idle" /\ v.reply = None
  BY DEF IdleTask
<1>7. task[c].reply = "Missing" => (Roomy /\ faults["late"] = 0 => orders[c] = << >>)
  BY DEF IInv, OrdersCounted
<1>. QED
  BY <1>2, <1>3, <1>4, <1>5, <1>6, <1>7, TaskMoves

LEMMA PollServedIInv ==
  ASSUME IInv, NEW c \in Ids, PollServed(c)
  PROVE  IInv'
<1>. DEFINE v == [task[c] EXCEPT !.reply = Lookup(c)]
<1>1. /\ task[c].pc = "polling" /\ task' = [task EXCEPT ![c] = v]
      /\ UNCHANGED <<engine, wire, sent, books, call, faults>>
  BY DEF PollServed
<1>2. Lookup(c) \in Replies
  BY LookupFacts DEF IInv, Replies
<1>3. v \in Tasks /\ v.pc = "polling" /\ v.intent = task[c].intent /\ v.reply = Lookup(c)
  <2>1. task[c] \in Tasks
    BY DEF IInv, TypeOK
  <2>2. ASSUME NEW reply \in Replies
        PROVE  /\ [task[c] EXCEPT !.reply = reply] \in Tasks
               /\ [task[c] EXCEPT !.reply = reply].pc = task[c].pc
               /\ [task[c] EXCEPT !.reply = reply].intent = task[c].intent
               /\ [task[c] EXCEPT !.reply = reply].reply = reply
    BY <2>1 DEF Tasks
  <2>. QED
    BY <1>1, <1>2, <2>2
<1>. HIDE DEF v
<1>. QED
  BY <1>1, <1>3, PollMoves

LEMMA PollFailsIInv ==
  ASSUME IInv, NEW c \in Ids, PollFails(c)
  PROVE  IInv'
<1>. DEFINE v == [task[c] EXCEPT !.polls = task[c].polls + 1, !.reply = None]
<1>1. task[c].pc = "polling" /\ UNCHANGED <<engine, call, faults>>
  BY DEF PollFails
<1>2. CASE task[c].polls + 1 < MaxPolls
  <2>1. task' = [task EXCEPT ![c] = v] /\ UNCHANGED <<wire, sent, books>>
    BY <1>2 DEF PollFails
  <2>2. v \in Tasks /\ v.pc = "polling" /\ v.intent = task[c].intent /\ v.reply = None
    <3>1. task[c] \in Tasks /\ task[c].polls + 1 \in 0 .. MaxPolls
      BY <1>2, LimitsAssumption DEF IInv, TypeOK, Tasks
    <3>. QED
      BY <1>1, <3>1 DEF Tasks, Replies
  <2>. HIDE DEF v
  <2>. QED
    BY <1>1, <2>1, <2>2, PollMoves
<1>3. CASE ~(task[c].polls + 1 < MaxPolls)
  BY <1>1, <1>3, RecordUnknownIInv DEF PollFails
<1>. QED
  BY <1>2, <1>3

LEMMA NotFoundIInv ==
  ASSUME IInv, NEW c \in Ids, NotFound(c)
  PROVE  IInv'
<1>1. /\ task[c].pc = "polling" /\ task[c].reply = "Missing"
      /\ UNCHANGED <<engine, call, faults>>
  BY DEF NotFound
<1>2. CASE RecordUnknown(c)
  BY <1>1, <1>2, RecordUnknownIInv
<1>3. CASE Admit(c, task[c].intent, 2) /\ UNCHANGED <<wire, books>>
  <2>1. task[c].intent \in Placed(c) /\ (Roomy => ~Recorded(task[c].intent))
    BY <1>1 DEF IInv, Labelled, Remembered, Busy
  <2>. QED
    BY <1>1, <1>3, <2>1, AdmitIInv
<1>4. CASE Settle(c) /\ UNCHANGED <<wire, sent, books>>
  <2>1. IdleTask \in Tasks
    BY LimitsAssumption DEF IdleTask, Tasks, Replies
  <2>. QED
    BY <1>1, <1>4, <2>1, PollMoves DEF Settle
<1>. QED
  BY <1>2, <1>3, <1>4 DEF NotFound

LEMMA CancelOrderIInv ==
  ASSUME IInv, NEW t \in Keys, NEW c \in Ids, CancelOrder(t, c)
  PROVE  IInv'
<1>. DEFINE w == [pc |-> "canceling", id |-> c, reply |-> None]
<1>1. /\ t \in Cancels /\ ~Recorded(t) /\ call' = [call EXCEPT ![t] = w]
      /\ UNCHANGED <<engine, wire, sent, books, task>> /\ FaultsKept
  BY FaultsKeptFacts DEF CancelOrder, SetCall, IInv, FaultKinds
<1>2. t \notin Intents
  BY <1>1, NamesAssumption
<1>3. w \in Calls /\ w.pc = "canceling" /\ w.id = c /\ w.reply = None
  BY DEF Calls, CallPcs
<1>4. None # "FILLED"
  BY DEF None
<1>. HIDE DEF w
<1>. QED
  BY <1>1, <1>2, <1>3, <1>4, CallMoves

\* A call in flight asks for the order, has its answer or ends.
LEMMA LookupMoves ==
  ASSUME IInv, NEW t \in Keys, Called(t), NEW w \in Calls, call' = [call EXCEPT ![t] = w],
         UNCHANGED <<engine, wire, sent, books, task, faults>>,
         \/ w.pc = "idle"
         \/ w.pc = "asked" /\ w.id = call[t].id /\ w.reply = None
         \/ w.pc = "answered" /\ w.id = call[t].id /\ w.reply = Lookup(w.id)
  PROVE  IInv'
<1>1. /\ call[t].id \in Ids
      /\ t \in Intents => call[t].id = ClientId[t]
      /\ Roomy => (Recorded(t) <=> t \in Intents)
  BY DEF IInv, Labelled, Remembered
<1>2. /\ Lookup(call[t].id) # None
      /\ Lookup(call[t].id) = "FILLED" => Filled(call[t].id) # {}
  BY <1>1, LookupFacts DEF IInv, OrderStates, None
<1>3. None # "FILLED"
  BY DEF None
<1>4. FaultsKept
  BY FaultsKeptFacts DEF IInv
<1>. QED
  BY <1>1, <1>2, <1>3, <1>4, CallMoves

LEMMA CancelTimesOutIInv ==
  ASSUME IInv, NEW t \in Keys, CancelTimesOut(t)
  PROVE  IInv'
<1>. DEFINE w == [pc |-> "asked", id |-> call[t].id, reply |-> None]
<1>1. /\ Called(t) /\ call' = [call EXCEPT ![t] = w]
      /\ UNCHANGED <<engine, wire, sent, books, task, faults>>
  BY DEF CancelTimesOut, SetCall, Called
<1>2. call[t].id \in Ids
  BY <1>1 DEF IInv, Labelled
<1>3. w \in Calls /\ w.pc = "asked" /\ w.id = call[t].id /\ w.reply = None
  BY <1>2 DEF Calls, CallPcs
<1>. HIDE DEF w
<1>. QED
  BY <1>1, <1>3, LookupMoves

LEMMA AskServedIInv ==
  ASSUME IInv, NEW t \in Keys, AskServed(t)
  PROVE  IInv'
<1>. DEFINE w == [pc |-> "answered", id |-> call[t].id, reply |-> Lookup(call[t].id)]
<1>1. /\ Called(t) /\ call' = [call EXCEPT ![t] = w]
      /\ UNCHANGED <<engine, wire, sent, books, task, faults>>
  BY DEF AskServed, SetCall, Called
<1>2. call[t].id \in Ids
  BY <1>1 DEF IInv, Labelled
<1>3. Lookup(call[t].id) \in OrderStates \union {None, "Missing"}
  BY <1>2, LookupFacts DEF IInv
<1>4. w \in Calls /\ w.pc = "answered" /\ w.id = call[t].id /\ w.reply = Lookup(w.id)
  BY <1>2, <1>3 DEF Calls, CallPcs
<1>. HIDE DEF w
<1>. QED
  BY <1>1, <1>4, LookupMoves

LEMMA AskFailsIInv ==
  ASSUME IInv, NEW t \in Keys, AskFails(t)
  PROVE  IInv'
<1>1. /\ Called(t) /\ call' = [call EXCEPT ![t] = IdleCall]
      /\ UNCHANGED <<engine, wire, sent, books, task, faults>>
  BY DEF AskFails, EndCall, Called
<1>2. IdleCall \in Calls /\ IdleCall.pc = "idle"
  BY DEF IdleCall, Calls, CallPcs
<1>. QED
  BY <1>1, <1>2, LookupMoves

LEMMA ReconcileIInv ==
  ASSUME IInv, NEW t \in Keys, Reconcile(t)
  PROVE  IInv'
<1>. DEFINE w == [pc |-> "asked", id |-> Entry(t).id, reply |-> None]
<1>1. /\ t \in Intents /\ Recorded(t) /\ call' = [call EXCEPT ![t] = w]
      /\ UNCHANGED <<engine, wire, sent, books, task>> /\ FaultsKept
  BY FaultsKeptFacts DEF Reconcile, SetCall, IInv, FaultKinds
<1>2. PICK k \in DOMAIN ledger : Entry(t) = ledger[k] /\ ledger[k].intent = t
  BY <1>1, EntryFacts DEF IInv
<1>3. Entry(t).id \in Ids /\ Entry(t).id = ClientId[t]
  BY <1>1, <1>2, EntryTypes DEF IInv, Labelled
<1>4. w \in Calls /\ w.pc = "asked" /\ w.id = Entry(t).id /\ w.reply = None
  BY <1>3 DEF Calls, CallPcs
<1>5. None # "FILLED"
  BY DEF None
<1>. HIDE DEF w
<1>. QED
  BY <1>1, <1>3, <1>4, <1>5, CallMoves

LEMMA CancelRecordedIInv ==
  ASSUME IInv, NEW t \in Keys, CancelRecorded(t)
  PROVE  IInv'
<1>. DEFINE state == IF call[t].reply = "Missing" THEN "reconciled" ELSE "acked"
            e == Execution(t, call[t].id, state, "CANCELED", << >>)
<1>1. /\ Called(t) /\ Record(e) /\ EndCall(t)
      /\ UNCHANGED <<engine, wire, sent, task, faults>>
  BY DEF CancelRecorded, Called
<1>2. call[t].id \in Ids /\ state \in ReconciliationStates /\ "CANCELED" \in Statuses /\ state # "rejected"
  BY <1>1 DEF IInv, Labelled, ReconciliationStates, Statuses, OrderStates
<1>. HIDE DEF state
<1>3. /\ e \in Executions /\ e.intent = t /\ e.id = call[t].id /\ e.state = state
      /\ e.status = "CANCELED" /\ e.fills = << >>
  BY <1>2, UnfilledFacts
<1>. HIDE DEF e
<1>. QED
  BY <1>1, <1>2, <1>3, CallRecords

LEMMA AskRecordedIInv ==
  ASSUME IInv, NEW t \in Keys, AskRecorded(t)
  PROVE  IInv'
<1>. DEFINE state == IF t \in Cancels /\ call[t].reply # "CANCELED" THEN "unknown" ELSE "reconciled"
            e == Execution(t, call[t].id, state, call[t].reply, << >>)
<1>1. /\ Called(t) /\ Record(e) /\ EndCall(t)
      /\ UNCHANGED <<engine, wire, sent, task, faults>>
  BY DEF AskRecorded, Called
<1>2. call[t].id \in Ids /\ state \in ReconciliationStates /\ state # "rejected"
  BY <1>1 DEF IInv, Labelled, ReconciliationStates
<1>3. call[t].reply \in Statuses
  <2>1. call[t] \in Calls /\ call[t].reply # None /\ call[t].reply # "Missing"
    BY DEF AskRecorded, IInv, TypeOK, Labelled
  <2>. QED
    BY <2>1 DEF Calls, Statuses
<1>. HIDE DEF state
<1>4. /\ e \in Executions /\ e.intent = t /\ e.id = call[t].id /\ e.state = state
      /\ e.status = call[t].reply /\ e.fills = << >>
  BY <1>2, <1>3, UnfilledFacts
<1>. HIDE DEF e
<1>. QED
  BY <1>1, <1>2, <1>4, CallRecords

LEMMA NextIInv == IInv /\ [Next]_vars => IInv'
<1>. SUFFICES ASSUME IInv, [Next]_vars PROVE IInv'
  OBVIOUS
<1>1. ASSUME NEW m \in wire, Accept(m) \/ Refuse(m) \/ Throttled(m) PROVE IInv'
  BY <1>1, AcceptIInv, RefuseIInv, ThrottledIInv
<1>2. ASSUME NEW c \in Ids, NEW k \in 1 .. MaxRequests, Trade(c, k) PROVE IInv'
  BY <1>2, TradeIInv DEF Trade
<1>3. ASSUME NEW i \in Intents, PlaceOrder(i) PROVE IInv'
  BY <1>3, PlaceOrderIInv
<1>4. ASSUME NEW c \in Ids, TaskStep(c) PROVE IInv'
  <2>1. CASE Acknowledged(c)
    BY <2>1, AcknowledgedIInv
  <2>2. CASE Rejected(c)
    BY <2>2, RejectedIInv
  <2>3. CASE TimesOut(c)
    BY <2>3, TimesOutIInv
  <2>4. CASE PollServed(c)
    BY <2>4, PollServedIInv
  <2>5. CASE Recovered(c)
    BY <2>5, RecoveredIInv
  <2>6. CASE NotFound(c)
    BY <2>6, NotFoundIInv
  <2>7. CASE PollFails(c)
    BY <2>7, PollFailsIInv
  <2>8. CASE Send(c)
    BY <2>8, SendIInv
  <2>. QED
    BY <1>4, <2>1, <2>2, <2>3, <2>4, <2>5, <2>6, <2>7, <2>8 DEF TaskStep
<1>5. ASSUME NEW t \in Keys, CallStep(t) PROVE IInv'
  <2>1. CASE \E c \in Ids : CancelOrder(t, c)
    BY <2>1, CancelOrderIInv
  <2>2. CASE CancelServed(t)
    BY <2>2, CancelServedIInv
  <2>3. CASE CancelRecorded(t)
    BY <2>3, CancelRecordedIInv
  <2>4. CASE CancelTimesOut(t)
    BY <2>4, CancelTimesOutIInv
  <2>5. CASE Reconcile(t)
    BY <2>5, ReconcileIInv
  <2>6. CASE AskServed(t)
    BY <2>6, AskServedIInv
  <2>7. CASE AskRecorded(t)
    BY <2>7, AskRecordedIInv
  <2>8. CASE AskFails(t)
    BY <2>8, AskFailsIInv
  <2>. QED
    BY <1>5, <2>1, <2>2, <2>3, <2>4, <2>5, <2>6, <2>7, <2>8 DEF CallStep
<1>6. CASE Deliver
  BY <1>6, DeliverIInv
<1>7. CASE LoseFrame
  BY <1>7, LoseFrameIInv
<1>8. CASE ResetBreaker
  BY <1>8, ResetBreakerIInv
<1>9. CASE UNCHANGED vars
  <2>1. UNCHANGED <<orders, stream, wire, sent, ledger, byId, task, call, risk, faults>>
    BY <1>9 DEF vars
  <2>2. TypeOK'
    BY <2>1 DEF IInv, TypeOK
  <2>3. Labelled' /\ (Roomy => Remembered')
    BY <2>1 DEF IInv, Labelled, Remembered, Busy, Called, Recorded
  <2>4. faults'["late"] = 0 => OnlyAwaited'
    BY <2>1 DEF IInv, OnlyAwaited, Awaits
  <2>5. Roomy /\ faults'["late"] = 0 => OrdersCounted'
    BY <2>1 DEF IInv, OrdersCounted, Recorded, MayHavePlaced, Busy
  <2>6. Roomy /\ Timely' => OrdersKnown'
    BY <2>1 DEF IInv, OrdersKnown, Timely, Acknowledges
  <2>7. Roomy /\ ~AckCarriesFills => TruthTold'
    BY <2>1 DEF IInv, TruthTold, Truthful, Filled, Called
  <2>. QED
    BY <2>2, <2>3, <2>4, <2>5, <2>6, <2>7 DEF IInv
<1>. QED
  BY <1>1, <1>2, <1>3, <1>4, <1>5, <1>6, <1>7, <1>8, <1>9 DEF Next

----------------------------------------------------------------------------
(* What it implies *)

\* Orders are counted by the intents in the ledger and the placement in flight.
LEMMA CountedImplies == IInv => AtMostOnePerIntent
<1>. SUFFICES ASSUME IInv, Roomy, faults["late"] = 0, NEW c \in Ids
              PROVE  Len(orders[c]) <= Cardinality(Placed(c))
  BY DEF AtMostOnePerIntent
<1>1. /\ Len(orders[c]) <= Cardinality(Owned(c)) + (IF MayHavePlaced(c) THEN 1 ELSE 0)
      /\ Remembered
  BY DEF IInv, OrdersCounted, Owned
<1>2. /\ IsFiniteSet(Placed(c)) /\ IsFiniteSet(Owned(c)) /\ Cardinality(Owned(c)) \in Nat
      /\ Cardinality(Owned(c)) <= Cardinality(Placed(c)) /\ Cardinality(Placed(c)) \in Nat
      /\ Len(orders[c]) \in Nat
  BY OwnedFacts, FS_CardinalityType DEF IInv, TypeOK
<1>3. CASE ~MayHavePlaced(c)
  BY <1>1, <1>2, <1>3
<1>4. CASE MayHavePlaced(c)
  <2>. DEFINE both == Owned(c) \union {task[c].intent}
  <2>1. task[c].intent \in Placed(c) /\ task[c].intent \notin Owned(c)
    BY <1>1, <1>4 DEF IInv, Labelled, Remembered, MayHavePlaced, Owned
  <2>2. both \in SUBSET Placed(c)
    BY <2>1 DEF Owned
  <2>3. Cardinality(both) = Cardinality(Owned(c)) + 1
    BY <1>2, <2>1, FS_AddElement
  <2>. HIDE DEF both
  <2>4. Cardinality(both) <= Cardinality(Placed(c))
    BY <1>2, <2>2, FS_Subset
  <2>. QED
    BY <1>1, <1>2, <1>4, <2>3, <2>4
<1>. QED
  BY <1>3, <1>4

LEMMA KnownImplies == IInv => NoOrderLost
  BY DEF IInv, OrdersKnown, NoOrderLost, Acknowledges

\* Fills that are all trades of the orders, each counted once, are no more
\* than the trades.
LEMMA ToldImplies == IInv /\ ~AckCarriesFills => LedgerTruthful
<1>. SUFFICES ASSUME IInv, ~AckCarriesFills, Roomy, NEW k \in DOMAIN ledger
              PROVE  /\ ledger[k].status = "FILLED" => Filled(ledger[k].id) # {}
                     /\ Len(ledger[k].fills) <= Cardinality(Filled(ledger[k].id))
  BY DEF LedgerTruthful
<1>. DEFINE id == ledger[k].id
            fs == ledger[k].fills
            D == 1 .. Len(fs)
<1>1. Truthful(ledger[k]) /\ id \in Ids /\ fs \in Seq(Nat)
  BY EntryTypes DEF IInv, TruthTold
<1>2. IsFiniteSet(Filled(id))
  <2>1. orders[id] \in Seq(OrderStates)
    BY <1>1 DEF IInv, TypeOK
  <2>. DEFINE all == 1 .. Len(orders[id])
  <2>2. Len(orders[id]) \in Nat /\ Filled(id) \in SUBSET all
    BY <2>1, LenProperties DEF Filled
  <2>3. IsFiniteSet(all)
    BY <2>2, FS_Interval
  <2>. HIDE DEF all, id
  <2>. QED
    BY <2>2, <2>3, FS_Subset
<1>3. Len(fs) \in Nat /\ DOMAIN fs = D
  BY <1>1, LenProperties
<1>4. /\ \A a \in D : fs[a] \in Filled(id)
      /\ \A a, b \in D : fs[a] = fs[b] => a = b
  BY <1>1, <1>3 DEF Truthful
<1>5. \E f : f \in Injection(D, Filled(id))
  <2>. DEFINE f == [a \in D |-> fs[a]]
  <2>1. f \in [D -> Filled(id)]
    BY <1>4
  <2>2. ASSUME NEW a \in D, NEW b \in D, f[a] = f[b] PROVE a = b
    BY <1>4, <2>2
  <2>. HIDE DEF f, D, id, fs
  <2>3. f \in Injection(D, Filled(id))
    BY <2>1, <2>2 DEF Injection, IsInjective
  <2>. QED
    BY <2>3
<1>6. Cardinality(D) = Len(fs)
  BY <1>3, FS_Interval
<1>. HIDE DEF D
<1>7. Cardinality(D) <= Cardinality(Filled(id))
  BY <1>2, <1>5, FS_Injection
<1>. QED
  BY <1>1, <1>6, <1>7 DEF Truthful

\* Only a request that the gateway lets pass joins those that may still reach
\* the engine.
LEMMA BreakerStep == TypeOK /\ [Next]_vars => [risk.tripped => Outstanding' \subseteq Outstanding]_vars
<1>. SUFFICES ASSUME TypeOK, Next, risk.tripped PROVE Outstanding' \subseteq Outstanding
  BY DEF vars
<1>0. ~GatewayAllows
  BY DEF GatewayAllows
<1>. DEFINE Waits(c) == task[c].pc = "admitted"
            Fewer == /\ wire' \subseteq wire
                     /\ \A c \in Ids : Waits(c)' => Waits(c) /\ task'[c].req = task[c].req
<1>1. Fewer => Outstanding' \subseteq Outstanding
  BY DEF Outstanding
<1>2. task \in [Ids -> Tasks] /\ wire \subseteq [id : Ids, req : Nat]
  BY DEF TypeOK
<1>3. ASSUME NEW c \in Ids, NEW v, task' = [task EXCEPT ![c] = v], v.pc # "admitted", wire' \subseteq wire
      PROVE  Fewer
  BY <1>2, <1>3
<1>4. ASSUME task' = task, wire' \subseteq wire PROVE Fewer
  BY <1>4
<1>5. ASSUME NEW m \in wire, NEW reply, Answer(m.id, m.req, reply), wire' = wire \ {m} PROVE Fewer
  <2>1. CASE task' = task
    BY <1>4, <1>5, <2>1
  <2>2. CASE Awaits(m.id, m.req) /\ task' = [task EXCEPT ![m.id] = [task[m.id] EXCEPT !.reply = reply]]
    <3>1. m.id \in Ids /\ task[m.id] \in Tasks /\ task[m.id].pc = "submitting"
      BY <1>2, <2>2 DEF Awaits
    <3>2. [task[m.id] EXCEPT !.reply = reply].pc = "submitting"
      BY <3>1 DEF Tasks
    <3>. QED
      BY <1>3, <1>5, <2>2, <3>1, <3>2
  <2>. QED
    BY <1>5, <2>1, <2>2 DEF Answer
<1>. HIDE DEF Fewer
<1>6. ASSUME NEW m \in wire, Accept(m) \/ Refuse(m) PROVE Fewer
  BY <1>5, <1>6 DEF Accept, Refuse
<1>7. ASSUME NEW m \in wire, Throttled(m) PROVE Outstanding' \subseteq Outstanding
  <2>. DEFINE v == [task[m.id] EXCEPT !.pc = "admitted", !.attempt = task[m.id].attempt + 1]
  <2>1. /\ m.id \in Ids /\ task[m.id] \in Tasks /\ task[m.id].req = m.req
        /\ task' = [task EXCEPT ![m.id] = v] /\ wire' = wire \ {m}
    BY <1>2, <1>7 DEF Throttled, Awaits
  <2>2. v.req = m.req
    BY <2>1 DEF Tasks
  <2>. HIDE DEF v
  <2>3. task'[m.id] = v /\ \A d \in Ids \ {m.id} : task'[d] = task[d]
    BY <1>2, <2>1
  <2>4. m = [id |-> m.id, req |-> m.req]
    BY <1>2
  <2>. QED
    BY <2>1, <2>2, <2>3, <2>4 DEF Outstanding
<1>8. ASSUME NEW c \in Ids, Send(c) PROVE Outstanding' \subseteq Outstanding
  <2>. DEFINE v == [task[c] EXCEPT !.pc = "submitting"]
  <2>1. /\ task[c] \in Tasks /\ task[c].pc = "admitted" /\ task' = [task EXCEPT ![c] = v]
        /\ wire' = wire \union {[id |-> c, req |-> task[c].req]}
    BY <1>2, <1>8 DEF Send
  <2>2. v.pc = "submitting"
    BY <2>1 DEF Tasks
  <2>. HIDE DEF v
  <2>3. task'[c] = v /\ \A d \in Ids \ {c} : task'[d] = task[d]
    BY <1>2, <2>1
  <2>. QED
    BY <2>1, <2>2, <2>3 DEF Outstanding
<1>9. ASSUME NEW c \in Ids, Settle(c), wire' \subseteq wire PROVE Fewer
  <2>1. PICK v : v = IdleTask
    OBVIOUS
  <2>2. task' = [task EXCEPT ![c] = v] /\ v.pc # "admitted"
    BY <1>9, <2>1 DEF Settle, IdleTask
  <2>. QED
    BY <1>3, <1>9, <2>2
<1>10. ASSUME NEW c \in Ids, TaskStep(c), ~Send(c) PROVE Fewer
  <2>1. CASE Acknowledged(c) \/ Rejected(c) \/ Recovered(c)
    BY <1>9, <2>1 DEF Acknowledged, Rejected, Recovered
  <2>2. ASSUME NEW v, v \in {[task[c] EXCEPT !.pc = "polling", !.reply = None],
                             [task[c] EXCEPT !.reply = Lookup(c)],
                             [task[c] EXCEPT !.polls = task[c].polls + 1, !.reply = None]},
               task[c].pc = "polling" \/ v = [task[c] EXCEPT !.pc = "polling", !.reply = None],
               task' = [task EXCEPT ![c] = v], wire' \subseteq wire
        PROVE  Fewer
    <3>1. v.pc = "polling"
      BY <1>2, <2>2 DEF Tasks
    <3>. QED
      BY <1>3, <2>2, <3>1
  <2>3. CASE TimesOut(c)
    BY <2>2, <2>3 DEF TimesOut
  <2>4. CASE PollServed(c)
    BY <2>2, <2>4 DEF PollServed
  <2>5. CASE NotFound(c)
    BY <1>0, <1>9, <2>5 DEF NotFound, RecordUnknown
  <2>6. CASE PollFails(c)
    BY <1>9, <2>2, <2>6 DEF PollFails, RecordUnknown
  <2>. QED
    BY <1>10, <2>1, <2>3, <2>4, <2>5, <2>6 DEF TaskStep
<1>11. \A i : ~PlaceOrder(i)
  BY <1>0 DEF PlaceOrder
<1>12. ASSUME NEW t \in Keys, CallStep(t) PROVE Fewer
  BY <1>4, <1>12 DEF CallStep, CancelOrder, CancelServed, CancelRecorded, CancelTimesOut, Reconcile,
       AskServed, AskRecorded, AskFails
<1>13. (\E c \in Ids, k \in 1..MaxRequests : Trade(c, k)) \/ Deliver \/ LoseFrame \/ ResetBreaker => Fewer
  BY <1>4 DEF Trade, Deliver, LoseFrame, ResetBreaker
<1>. QED
  BY <1>1, <1>6, <1>7, <1>8, <1>10, <1>11, <1>12, <1>13 DEF Next

----------------------------------------------------------------------------
(* The open-notional budget *)

\* The placements and the reconcile() calls under way.
InFlight == {c \in Ids : Busy(c)}
Asking == {t \in Intents : Called(t)}

\* What is charged, and what may still be without another check, exceeds the
\* cap by no more than the placements that run together and the lookups.
BudgetHeld ==
  /\ Cardinality(Asking) <= faults["lookup"]
  /\ risk.open + Cardinality(InFlight) + Cardinality(Asking)
       <= MaxOpen + (Cardinality(Ids) - 1) + faults["lookup"]

\* Both counts are numbers, and no more placements run than there are ids.
LEMMA Counts ==
  /\ IsFiniteSet(InFlight) /\ Cardinality(InFlight) \in Nat
  /\ IsFiniteSet(Asking) /\ Cardinality(Asking) \in Nat
  /\ Cardinality(Ids) \in Nat /\ Cardinality(Ids) # 0
  /\ Cardinality(InFlight) <= Cardinality(Ids)
  /\ MaxOpen \in Nat
<1>1. InFlight \in SUBSET Ids /\ Asking \in SUBSET (Intents \union Cancels)
  BY DEF InFlight, Asking
<1>2. IsFiniteSet(Ids) /\ Ids # {} /\ IsFiniteSet(Intents \union Cancels)
  BY NamesAssumption
<1>3. IsFiniteSet(InFlight) /\ IsFiniteSet(Asking) /\ Cardinality(InFlight) <= Cardinality(Ids)
  BY <1>1, <1>2, FS_Subset
<1>. QED
  BY <1>2, <1>3, FS_CardinalityType, FS_EmptySet, LimitsAssumption

LEMMA CountsAfter ==
  /\ Cardinality(InFlight') \in Nat
  /\ Cardinality(Asking') \in Nat
  /\ Cardinality(InFlight') <= Cardinality(Ids)
<1>1. InFlight' \in SUBSET Ids /\ Asking' \in SUBSET (Intents \union Cancels)
  BY DEF InFlight, Asking
<1>2. IsFiniteSet(Ids) /\ IsFiniteSet(Intents \union Cancels)
  BY NamesAssumption
<1>. QED
  BY <1>1, <1>2, FS_Subset, FS_CardinalityType

\* A step of one placement.
LEMMA InFlightMoves ==
  ASSUME NEW c \in Ids, \A d \in Ids \ {c} : task'[d].pc = task[d].pc
  PROVE  /\ task'[c].pc # "idle" /\ Busy(c) => InFlight' = InFlight
         /\ task'[c].pc = "idle" /\ Busy(c) => Cardinality(InFlight') = Cardinality(InFlight) - 1
<1>1. ASSUME task'[c].pc # "idle", Busy(c) PROVE InFlight' = InFlight
  BY <1>1 DEF InFlight, Busy
<1>2. ASSUME task'[c].pc = "idle", Busy(c) PROVE Cardinality(InFlight') = Cardinality(InFlight) - 1
  <2>1. InFlight' = InFlight \ {c} /\ c \in InFlight
    BY <1>2 DEF InFlight, Busy
  <2>. QED
    BY <2>1, Counts, FS_RemoveElement
<1>. QED
  BY <1>1, <1>2

\* A step of one call.
LEMMA AskingMoves ==
  ASSUME NEW t \in Keys, \A s \in Keys \ {t} : call'[s].pc = call[s].pc
  PROVE  /\ t \notin Intents => Asking' = Asking
         /\ call'[t].pc # "idle" /\ Called(t) => Asking' = Asking
         /\ call'[t].pc = "idle" /\ Called(t) /\ t \in Intents
              => Cardinality(Asking') = Cardinality(Asking) - 1
         /\ ~Called(t) => Cardinality(Asking') <= Cardinality(Asking) + 1
<1>. USE DEF Keys
<1>1. ASSUME t \notin Intents PROVE Asking' = Asking
  BY <1>1 DEF Asking, Called
<1>2. ASSUME call'[t].pc # "idle", Called(t) PROVE Asking' = Asking
  BY <1>2 DEF Asking, Called
<1>3. ASSUME call'[t].pc = "idle", Called(t), t \in Intents
      PROVE  Cardinality(Asking') = Cardinality(Asking) - 1
  <2>1. Asking' = Asking \ {t} /\ t \in Asking
    BY <1>3 DEF Asking, Called
  <2>. QED
    BY <2>1, Counts, FS_RemoveElement
<1>4. ASSUME ~Called(t) PROVE Cardinality(Asking') <= Cardinality(Asking) + 1
  <2>1. CASE Asking' = Asking
    BY <2>1, Counts
  <2>2. CASE Asking' = Asking \union {t}
    <3>1. /\ Cardinality(Asking) \in Nat
          /\ Cardinality(Asking \union {t})
               = IF t \in Asking THEN Cardinality(Asking) ELSE Cardinality(Asking) + 1
      BY Counts, FS_AddElement
    <3>. QED
      BY <2>2, <3>1
  <2>. QED
    BY <1>4, <2>1, <2>2 DEF Asking, Called
<1>. QED
  BY <1>1, <1>2, <1>3, <1>4

\* One execution charges at most one order, and none if its size is unknown.
LEMMA ChargeFacts ==
  ASSUME TypeOK, NEW e, Record(e)
  PROVE  /\ risk.open \in Int /\ risk'.open \in Int
         /\ risk'.open <= risk.open + 1
         /\ ~e.sized => risk'.open <= risk.open
<1>1. risk \in [open : Int, failures : Nat, tripped : BOOLEAN]
  BY DEF TypeOK
<1>2. risk' = UpdatedRisk(e)
  BY DEF Record
<1>3. CASE e.state = "rejected" \/ e.status = "REJECTED"
  <2>1. risk'.open = risk.open
    BY <1>1, <1>2, <1>3 DEF UpdatedRisk, RecordFailure
  <2>. QED
    BY <1>1, <2>1
<1>4. CASE ~(e.state = "rejected" \/ e.status = "REJECTED")
  <2>1. risk'.open = IF ~HasNotional(e) THEN risk.open
                     ELSE IF Terminal(e.status) THEN risk.open - 1
                     ELSE risk.open + 1
    BY <1>1, <1>2, <1>4 DEF UpdatedRisk
  <2>2. ~e.sized /\ HasNotional(e) => Terminal(e.status)
    BY DEF HasNotional, Terminal
  <2>. QED
    BY <1>1, <2>1, <2>2
<1>. QED
  BY <1>3, <1>4

\* A step that neither starts nor ends anything, and records nothing.
LEMMA NothingCharged ==
  ASSUME BudgetHeld, risk'.open = risk.open, InFlight' = InFlight, Asking' = Asking,
         faults'["lookup"] = faults["lookup"]
  PROVE  BudgetHeld'
  BY DEF BudgetHeld

\* A placement ends: what it charges, if anything, was counted while it ran.
LEMMA PlacementCharged ==
  ASSUME TypeOK, BudgetHeld, NEW c \in Ids, Busy(c), Settle(c), UNCHANGED <<call, faults>>,
         risk' = risk \/ \E e : Record(e)
  PROVE  BudgetHeld'
<1>1. risk.open \in Int /\ faults["lookup"] \in Nat
  BY DEF TypeOK, FaultKinds
<1>2. risk'.open \in Int /\ risk'.open <= risk.open + 1
  BY <1>1, ChargeFacts
<1>3. task'[c].pc = "idle" /\ \A d \in Ids \ {c} : task'[d].pc = task[d].pc
  BY DEF Settle, IdleTask, TypeOK
<1>4. Cardinality(InFlight') = Cardinality(InFlight) - 1
  BY <1>3, InFlightMoves
<1>5. Asking' = Asking
  BY DEF Asking, Called
<1>. QED
  BY <1>1, <1>2, <1>4, <1>5, Counts, CountsAfter DEF BudgetHeld

\* The placement's request passes: the gateway has room for one more order, and
\* at most the other ids have placements whose charge is still to come.
LEMMA PlaceOrderBudget ==
  ASSUME TypeOK, BudgetHeld, NEW i \in Intents, PlaceOrder(i)
  PROVE  BudgetHeld'
<1>1. risk.open \in Int /\ faults["lookup"] \in Nat
  BY DEF TypeOK, FaultKinds
<1>2. risk.open + 1 <= MaxOpen
  BY DEF PlaceOrder, GatewayAllows
<1>3. UNCHANGED <<risk, call, faults>>
  BY DEF PlaceOrder, books
<1>4. Asking' = Asking
  BY <1>3 DEF Asking, Called
<1>. QED
  BY <1>1, <1>2, <1>3, <1>4, Counts, CountsAfter DEF BudgetHeld

LEMMA TaskStepBudget ==
  ASSUME TypeOK, BudgetHeld, NEW c \in Ids, TaskStep(c)
  PROVE  BudgetHeld'
<1>1. Busy(c) /\ call' = call
  BY DEF TaskStep, Send, Acknowledged, Rejected, TimesOut, PollServed, Recovered, NotFound, PollFails, Busy
<1>2. Asking' = Asking
  BY <1>1 DEF Asking, Called
<1>. DEFINE Goes == /\ risk' = risk /\ faults'["lookup"] = faults["lookup"]
                    /\ task'[c].pc # "idle"
                    /\ \A d \in Ids \ {c} : task'[d].pc = task[d].pc
<1>3. ASSUME Goes PROVE BudgetHeld'
  BY <1>1, <1>2, <1>3, InFlightMoves, NothingCharged
<1>. DEFINE Ends == Settle(c) /\ UNCHANGED <<call, faults>> /\ (risk' = risk \/ \E e : Record(e))
<1>4. ASSUME Ends PROVE BudgetHeld'
  BY <1>1, <1>4, PlacementCharged
<1>5. ASSUME NEW i, NEW n, Admit(c, i, n), UNCHANGED <<books, faults>> PROVE Goes
  BY <1>5 DEF Admit, books, IdleTask, TypeOK
<1>6. task \in [Ids -> Tasks] /\ task[c] \in Tasks
  BY DEF TypeOK
<1>. HIDE DEF Goes, Ends
<1>7. CASE Acknowledged(c) \/ Rejected(c) \/ Recovered(c)
  BY <1>4, <1>7 DEF Acknowledged, Rejected, Recovered, Ends
<1>8. CASE TimesOut(c)
  <2>1. faults'["lookup"] = faults["lookup"]
    <3>1. UNCHANGED faults \/ Fault("late", MaxLate)
      BY <1>8 DEF TimesOut
    <3>. QED
      BY <3>1, FaultFacts DEF FaultKinds
  <2>2. task'[c].pc = "polling" /\ \A d \in Ids \ {c} : task'[d].pc = task[d].pc
    BY <1>6, <1>8 DEF TimesOut, Tasks
  <2>. QED
    BY <1>3, <1>8, <2>1, <2>2 DEF TimesOut, books, Goes
<1>9. CASE PollServed(c)
  <2>1. task'[c].pc = "polling" /\ \A d \in Ids \ {c} : task'[d].pc = task[d].pc
    BY <1>6, <1>9 DEF PollServed, Tasks
  <2>. QED
    BY <1>3, <1>9, <2>1 DEF PollServed, books, Goes
<1>10. CASE NotFound(c)
  <2>1. CASE RecordUnknown(c)
    BY <1>4, <1>10, <2>1 DEF NotFound, RecordUnknown, Ends
  <2>2. CASE Admit(c, task[c].intent, 2) /\ UNCHANGED books
    BY <1>3, <1>5, <1>10, <2>2 DEF NotFound
  <2>3. CASE Settle(c) /\ UNCHANGED books
    BY <1>4, <1>10, <2>3 DEF NotFound, Ends, books
  <2>. QED
    BY <1>10, <2>1, <2>2, <2>3 DEF NotFound
<1>11. CASE PollFails(c)
  <2>1. CASE RecordUnknown(c)
    BY <1>4, <1>11, <2>1 DEF PollFails, RecordUnknown, Ends
  <2>2. CASE /\ task[c].polls + 1 < MaxPolls /\ UNCHANGED books
             /\ task' = [task EXCEPT ![c].polls = @ + 1, ![c].reply = None]
    <3>1. task'[c].pc = "polling" /\ \A d \in Ids \ {c} : task'[d].pc = task[d].pc
      BY <1>6, <1>11, <2>2 DEF PollFails, Tasks
    <3>. QED
      BY <1>3, <1>11, <2>2, <3>1 DEF PollFails, books, Goes
  <2>. QED
    BY <1>11, <2>1, <2>2 DEF PollFails
<1>12. CASE Send(c)
  <2>1. task'[c].pc = "submitting" /\ \A d \in Ids \ {c} : task'[d].pc = task[d].pc
    BY <1>6, <1>12 DEF Send, Tasks
  <2>. QED
    BY <1>3, <1>12, <2>1 DEF Send, books, Goes
<1>. QED
  BY <1>7, <1>8, <1>9, <1>10, <1>11, <1>12 DEF TaskStep

\* A lookup is counted when it begins; what it charges at its end was counted
\* then.
LEMMA CallStepBudget ==
  ASSUME TypeOK, TypeOK', BudgetHeld, NEW t \in Keys, CallStep(t)
  PROVE  BudgetHeld'
<1>1. risk.open \in Int /\ risk'.open \in Int /\ faults["lookup"] \in Nat /\ faults'["lookup"] \in Nat
  BY DEF TypeOK, FaultKinds
<1>2. task' = task /\ InFlight' = InFlight
  <2>1. task' = task
    BY DEF CallStep, CancelOrder, CancelServed, CancelRecorded, CancelTimesOut, Reconcile,
           AskServed, AskRecorded, AskFails
  <2>. QED
    BY <2>1 DEF InFlight, Busy
<1>3. \A s \in Keys \ {t} : call'[s].pc = call[s].pc
  BY DEF CallStep, CancelOrder, CancelServed, CancelRecorded, CancelTimesOut, Reconcile,
         AskServed, AskRecorded, AskFails, SetCall, EndCall, TypeOK
<1>4. CASE (\E c \in Ids : CancelOrder(t, c)) \/ Reconcile(t)
  <2>1. Fault("lookup", MaxLookups) /\ ~Called(t) /\ risk' = risk
    BY <1>4 DEF CancelOrder, Reconcile, Called, books
  <2>2. faults'["lookup"] = faults["lookup"] + 1
    BY <2>1, FaultFacts DEF FaultKinds
  <2>3. Cardinality(Asking') <= Cardinality(Asking) + 1
    BY <1>3, <2>1, AskingMoves
  <2>. QED
    BY <1>1, <1>2, <2>1, <2>2, <2>3, Counts, CountsAfter DEF BudgetHeld
<1>5. CASE CancelServed(t) \/ CancelTimesOut(t) \/ AskServed(t)
  <2>1. Called(t) /\ UNCHANGED <<risk, faults>>
    BY <1>5 DEF CancelServed, CancelTimesOut, AskServed, Called, books
  <2>2. call'[t].pc # "idle"
    <3>1. t \in DOMAIN call
      BY DEF TypeOK
    <3>2. \A pc, c, reply : SetCall(t, pc, c, reply) => call'[t].pc = pc
      BY <3>1 DEF SetCall
    <3>3. CASE CancelServed(t)
      BY <3>2, <3>3 DEF CancelServed
    <3>4. CASE CancelTimesOut(t) \/ AskServed(t)
      BY <3>2, <3>4 DEF CancelTimesOut, AskServed
    <3>. QED
      BY <1>5, <3>3, <3>4
  <2>3. Asking' = Asking
    BY <1>3, <2>1, <2>2, AskingMoves
  <2>. QED
    BY <1>2, <2>1, <2>3, NothingCharged
<1>6. CASE CancelRecorded(t) \/ AskRecorded(t) \/ AskFails(t)
  <2>1. Called(t) /\ EndCall(t) /\ UNCHANGED faults
    BY <1>6 DEF CancelRecorded, AskRecorded, AskFails, Called
  <2>2. call'[t].pc = "idle"
    BY <2>1 DEF EndCall, IdleCall, TypeOK
  <2>3. risk'.open <= risk.open + 1 /\ (t \notin Intents => risk'.open <= risk.open)
    <3>1. CASE AskFails(t)
      BY <1>1, <3>1 DEF AskFails, books
    <3>2. CASE \E c, state, status : Record(Execution(t, c, state, status, << >>))
      <4>1. PICK c, state, status : Record(Execution(t, c, state, status, << >>))
        BY <3>2
      <4>2. Execution(t, c, state, status, << >>).sized = (t \in Intents)
        BY DEF Execution
      <4>. QED
        BY <4>1, <4>2, ChargeFacts
    <3>. QED
      BY <1>6, <3>1, <3>2 DEF CancelRecorded, AskRecorded
  <2>4. CASE t \in Intents
    <3>1. Cardinality(Asking') = Cardinality(Asking) - 1
      BY <1>3, <2>1, <2>2, <2>4, AskingMoves
    <3>. QED
      BY <1>1, <1>2, <2>1, <2>3, <3>1, Counts, CountsAfter DEF BudgetHeld
  <2>5. CASE t \notin Intents
    <3>1. Asking' = Asking
      BY <1>3, <2>5, AskingMoves
    <3>. QED
      BY <1>1, <1>2, <2>1, <2>3, <2>5, <3>1, Counts DEF BudgetHeld
  <2>. QED
    BY <2>4, <2>5
<1>. QED
  BY <1>4, <1>5, <1>6 DEF CallStep

\* The engine and the stream charge nothing, and end no placement.
LEMMA EngineBudget ==
  ASSUME TypeOK, BudgetHeld,
         \/ \E m \in wire : Accept(m) \/ Refuse(m) \/ Throttled(m)
         \/ \E c \in Ids, k \in 1..MaxRequests : Trade(c, k)
         \/ Deliver \/ LoseFrame \/ ResetBreaker
  PROVE  BudgetHeld'
<1>1. call' = call /\ risk'.open = risk.open
  BY DEF Accept, Refuse, Throttled, Trade, Deliver, LoseFrame, ResetBreaker, books, TypeOK
<1>2. faults'["lookup"] = faults["lookup"]
  <2>1. UNCHANGED faults \/ \E f \in FaultKinds \ {"lookup"}, bound \in {MaxServerErrors, MaxRepeats, MaxLost} : Fault(f, bound)
    BY DEF Accept, Refuse, Throttled, Trade, Deliver, LoseFrame, ResetBreaker, FaultKinds
  <2>2. "lookup" \in FaultKinds
    BY DEF FaultKinds
  <2>. QED
    BY <2>1, <2>2, FaultFacts
<1>3. Asking' = Asking
  BY <1>1 DEF Asking, Called
<1>4. \A c \in Ids : Busy(c)' = Busy(c)
  <2>0. task \in [Ids -> Tasks]
    BY DEF TypeOK
  <2>1. CASE task' = task
    BY <2>1 DEF Busy
  <2>2. ASSUME NEW d, NEW r, NEW reply, Answer(d, r, reply)
        PROVE  \A c \in Ids : Busy(c)' = Busy(c)
    BY <2>0, <2>2 DEF Answer, Tasks, Busy
  <2>3. ASSUME NEW m, Throttled(m) PROVE \A c \in Ids : Busy(c)' = Busy(c)
    <3>. DEFINE v == [task[m.id] EXCEPT !.pc = "admitted", !.attempt = task[m.id].attempt + 1]
    <3>1. task' = [task EXCEPT ![m.id] = v] /\ task[m.id].pc = "submitting"
      BY <2>3 DEF Throttled, Awaits
    <3>2. m.id \in Ids => v.pc = "admitted"
      BY <2>0 DEF Tasks
    <3>. HIDE DEF v
    <3>. QED
      BY <2>0, <3>1, <3>2 DEF Busy
  <2>. QED
    BY <2>1, <2>2, <2>3 DEF Accept, Refuse, Trade, Deliver, LoseFrame, ResetBreaker
<1>5. InFlight' = InFlight
  BY <1>4 DEF InFlight
<1>. QED
  BY <1>1, <1>2, <1>3, <1>5, NothingCharged

LEMMA InitBudget == Init => BudgetHeld
<1>. SUFFICES ASSUME Init PROVE BudgetHeld
  OBVIOUS
<1>1. InFlight = {} /\ Asking = {}
  BY DEF Init, InFlight, Asking, Busy, Called, IdleTask, IdleCall, Keys
<1>2. Cardinality(InFlight) = 0 /\ Cardinality(Asking) = 0
  BY <1>1, FS_EmptySet
<1>3. risk.open = 0 /\ faults["lookup"] = 0
  BY DEF Init, FaultKinds
<1>. QED
  BY <1>2, <1>3, Counts DEF BudgetHeld

LEMMA NextBudget == TypeOK /\ TypeOK' /\ BudgetHeld /\ [Next]_vars => BudgetHeld'
<1>. SUFFICES ASSUME TypeOK, TypeOK', BudgetHeld, [Next]_vars PROVE BudgetHeld'
  OBVIOUS
<1>1. ASSUME NEW i \in Intents, PlaceOrder(i) PROVE BudgetHeld'
  BY <1>1, PlaceOrderBudget
<1>2. ASSUME NEW c \in Ids, TaskStep(c) PROVE BudgetHeld'
  BY <1>2, TaskStepBudget
<1>3. ASSUME NEW t \in Keys, CallStep(t) PROVE BudgetHeld'
  BY <1>3, CallStepBudget
<1>4. CASE UNCHANGED vars
  <2>1. UNCHANGED <<task, call, risk, faults>>
    BY <1>4 DEF vars
  <2>. QED
    BY <2>1 DEF BudgetHeld, InFlight, Asking, Busy, Called
<1>. QED
  BY <1>1, <1>2, <1>3, <1>4, EngineBudget DEF Next

LEMMA HeldImplies == TypeOK /\ BudgetHeld => OvershootBounded
<1>. SUFFICES ASSUME TypeOK, BudgetHeld PROVE OvershootBounded
  OBVIOUS
<1>1. risk.open \in Int /\ faults["lookup"] \in Nat
  BY DEF TypeOK, FaultKinds
<1>. QED
  BY <1>1, Counts DEF BudgetHeld, OvershootBounded

----------------------------------------------------------------------------
(* The theorems *)

\* Every state that placements, calls, the engine and the stream reach
\* satisfies the invariant.
THEOREM OrderInvariant == Spec => []IInv
<1>. QED
  BY InitIInv, NextIInv, PTL DEF Spec

\* The engine, the ledger, what is in flight and the gateway keep their types,
\* and the ledger holds one entry per intent.
THEOREM OrderTypeCorrect == Spec => []TypeOK
<1>1. IInv => TypeOK
  BY DEF IInv
<1>. QED
  BY <1>1, OrderInvariant, PTL

\* An intent is at most one order at the engine, however often it is placed,
\* resubmitted and asked for, unless a request outlives its timeout.
THEOREM AtMostOne == Spec => []AtMostOnePerIntent
<1>. QED
  BY OrderInvariant, CountedImplies, PTL

\* When a placement has ended, every order at the engine has an execution in
\* the ledger which does not deny it.
THEOREM NoneLost == Spec => []NoOrderLost
<1>. QED
  BY OrderInvariant, KnownImplies, PTL

\* The ledger shows no fill that did not happen and none twice, when
\* acknowledgements carry no fills of their own.
THEOREM TruthfulLedger ==
  ASSUME ~AckCarriesFills
  PROVE  Spec => []LedgerTruthful
<1>1. IInv => LedgerTruthful
  BY ToldImplies
<1>. QED
  BY <1>1, OrderInvariant, PTL

\* While the breaker is tripped the create requests that may still reach the
\* engine only grow fewer, whatever is throttled, sent again, timed out, looked
\* up or placed: those that leave had passed the gateway before.
THEOREM Breaker == Spec => BreakerHolds
<1>1. IInv /\ [Next]_vars => [risk.tripped => Outstanding' \subseteq Outstanding]_vars
  BY BreakerStep DEF IInv
<1>. QED
  BY <1>1, OrderInvariant, PTL DEF Spec, BreakerHolds

\* The open notional exceeds maxOpenNotional by no more than what was checked
\* together, and by what lookups charge again.
THEOREM Overshoot == Spec => []OvershootBounded
<1>1. IInv /\ IInv' /\ BudgetHeld /\ [Next]_vars => BudgetHeld'
  BY NextBudget DEF IInv
<1>2. IInv /\ BudgetHeld => OvershootBounded
  BY HeldImplies DEF IInv
<1>. QED
  BY InitBudget, OrderInvariant, <1>1, <1>2, PTL DEF Spec
=============================================================================
