------------------------- MODULE AccountViewProofs --------------------------
(***************************************************************************)
(* Proofs about AccountView for every set of orders, every number of lots, *)
(* every bound of the tracker and any number of gaps and passes: a         *)
(* terminal record is final and true, and after a clean pass the view is   *)
(* the account's whenever nothing is on its way.                           *)
(***************************************************************************)
EXTENDS AccountView, WellFoundedInduction, FiniteSetTheorems, SequenceTheorems, TLAPS

----------------------------------------------------------------------------
(* Loops: induction and recursion over the natural numbers, stated over a  *)
(* set or a function instead of a predicate, for the fold of a snapshot.   *)

\* The relation the library states well-foundedness about, as a set of pairs.
LEMMA LessThanPairs == OpToRel(<, Nat) = {p \in Nat \X Nat : p[1] < p[2]}
  BY DEF OpToRel

\* A nonempty set of natural numbers has a least element.
LEMMA LeastNumber ==
  ASSUME NEW T \in SUBSET Nat, T # {}
  PROVE  \E m \in T : \A k \in T : m <= k
<1>1. IsWellFoundedOn(OpToRel(<, Nat), Nat)
  BY NatLessThanWellFounded
<1>2. PICK m \in T : \A k \in T : ~(<<k, m>> \in OpToRel(<, Nat))
  BY <1>1, WFMin, Zenon
<1>3. \A k \in T : ~(k < m)
  BY <1>2, LessThanPairs
<1>4. \A k \in T : m <= k
  BY <1>3
<1>. QED
  BY <1>4

\* Induction: a set that holds 0 and is closed under successor holds every
\* natural number.
LEMMA NumberInduction ==
  ASSUME NEW S, 0 \in S, \A n \in Nat : n \in S => n + 1 \in S
  PROVE  \A n \in Nat : n \in S
<1>. SUFFICES ASSUME \E n \in Nat : n \notin S PROVE FALSE
  OBVIOUS
<1>. DEFINE D == {n \in Nat : n \notin S}
<1>1. D \in SUBSET Nat /\ D # {}
  OBVIOUS
<1>2. PICK m \in D : \A k \in D : m <= k
  <2>. HIDE DEF D
  <2>. QED BY <1>1, LeastNumber
<1>3. m # 0
  OBVIOUS
<1>4. m - 1 \in Nat /\ m - 1 \notin D
  BY <1>2, <1>3
<1>. QED
  BY <1>3, <1>4

\* The invariant of a loop: what holds of the state at the start, and is kept
\* by each of the n iterations, holds at the end.
LEMMA LoopInvariant ==
  ASSUME NEW n \in Nat, NEW f, NEW V, f[0] \in V,
         \A i \in 1..n : f[i - 1] \in V => f[i] \in V
  PROVE  f[n] \in V
<1>. DEFINE S == {i \in Nat : i <= n => f[i] \in V}
<1>1. 0 \in S
  OBVIOUS
<1>2. \A i \in Nat : i \in S => i + 1 \in S
  <2>. SUFFICES ASSUME NEW i \in Nat, i \in S, i + 1 <= n
                PROVE  f[i + 1] \in V
    OBVIOUS
  <2>1. i + 1 \in 1..n /\ (i + 1) - 1 = i /\ f[i] \in V
    OBVIOUS
  <2>. QED
    BY <2>1
<1>3. n \in S
  <2>. HIDE DEF S
  <2>. QED BY <1>1, <1>2, NumberInduction
<1>. QED
  BY <1>3

\* f is a run of k iterations of step from start.
IsRun(f, k, start, step) ==
  f[0] = start /\ \A i \in 1..k : f[i] = step[f[i - 1], i]

\* Recursion: n iterations of a step have a result.
LEMMA LoopExists ==
  ASSUME NEW n \in Nat, NEW V, NEW start \in V, NEW step \in [V \X (1..n) -> V]
  PROVE  \E f \in [0..n -> V] : IsRun(f, n, start, step)
<1>. DEFINE S == {k \in Nat : k <= n => \E f \in [0..k -> V] : IsRun(f, k, start, step)}
<1>1. 0 \in S
  <2>. DEFINE g == [i \in 0..0 |-> start]
  <2>1. g \in [0..0 -> V] /\ g[0] = start
    OBVIOUS
  <2>2. IsRun(g, 0, start, step)
    BY <2>1 DEF IsRun
  <2>. QED
    BY <2>1, <2>2
<1>2. ASSUME NEW k \in Nat, k \in S PROVE k + 1 \in S
  <2>. SUFFICES ASSUME k + 1 <= n
                PROVE  \E g \in [0..(k + 1) -> V] : IsRun(g, k + 1, start, step)
    OBVIOUS
  <2>1. PICK f \in [0..k -> V] : IsRun(f, k, start, step)
    BY <1>2
  <2>2. f[k] \in V /\ k + 1 \in 1..n
    BY <2>1
  <2>. DEFINE last == step[f[k], k + 1]
  <2>3. last \in V
    BY <2>2
  <2>. HIDE DEF last
  <2>. DEFINE g == [i \in 0..(k + 1) |-> IF i = k + 1 THEN last ELSE f[i]]
  <2>4. g \in [0..(k + 1) -> V]
    BY <2>1, <2>3
  <2>5. g[k + 1] = last /\ \A i \in 0..k : g[i] = f[i]
    OBVIOUS
  <2>. HIDE DEF g
  <2>6. ASSUME NEW i \in 1..(k + 1) PROVE g[i] = step[g[i - 1], i]
    <3>1. CASE i = k + 1
      <4>1. g[i] = last /\ g[i - 1] = f[k]
        BY <2>5, <3>1
      <4>. QED BY <3>1, <4>1 DEF last
    <3>2. CASE i # k + 1
      <4>1. i \in 1..k /\ i \in 0..k /\ i - 1 \in 0..k
        BY <3>2
      <4>2. f[i] = step[f[i - 1], i]
        BY <2>1, <4>1 DEF IsRun
      <4>. QED BY <2>5, <4>1, <4>2
    <3>. QED
      BY <3>1, <3>2
  <2>7. f[0] = start
    BY <2>1 DEF IsRun
  <2>8. g[0] = start
    BY <2>5, <2>7
  <2>9. IsRun(g, k + 1, start, step)
    BY <2>6, <2>8 DEF IsRun
  <2>. QED
    BY <2>4, <2>9
<1>3. n \in S
  <2>. HIDE DEF S
  <2>. QED BY <1>1, <1>2, NumberInduction
<1>. QED
  BY <1>3

----------------------------------------------------------------------------
(* The invariant *)

OrderFrames == [kind : {"order"}, o : Orders, status : Statuses, executed : 0..Lots, trade : 0..Lots]
AccountFrames == [kind : {"account"}, amount : Amounts]
Frames == OrderFrames \union AccountFrames

\* The rows of a snapshot of the open orders.
Rows == {f \in OrderFrames : f.status \in Open /\ f.trade = NoTrade}

Records == [status : Statuses \union {"absent"}, executed : 0..Lots, fills : SUBSET (1..Lots)]
OrderStates == [Orders -> [status : Statuses \union {"none"}, executed : 0..Lots]]
Steps == {"idle", "orders", "ordersServed", "positions", "positionsServed"}

\* A tracker has one place in its insertion order for each record, and its
\* bound.
Trackers ==
  {t \in [records : [Orders -> Records], recency : Seq(Orders), evicted : SUBSET Orders] :
     /\ \A o \in Orders : t.records[o] # Absent <=> \E i \in 1..Len(t.recency) : t.recency[i] = o
     /\ \A i, j \in 1..Len(t.recency) : t.recency[i] = t.recency[j] => i = j
     /\ Len(t.recency) <= MaxRecords}

IsFrameOf(q, i, o) == q[i].kind = "order" /\ q[i].o = o
Pending(q, o) == \E i \in 1..Len(q) : IsFrameOf(q, i, o)
PositionPending(q) == \E i \in 1..Len(q) : q[i].kind = "account"
TradesOf(q, o) == {n \in 1..Lots : \E i \in 1..Len(q) : IsFrameOf(q, i, o) /\ q[i].trade = n}

\* x, a frame, a row or a record, is what the exchange says of an order.
Tells(x, s) == x.status = s.status /\ x.executed = s.executed

Typed ==
  /\ order \in OrderStates
  /\ position \in Amounts /\ shown \in Amounts
  /\ connected \in BOOLEAN /\ current \in BOOLEAN
  /\ frames \in Seq(Frames)
  /\ Tracker \in Trackers
  /\ pass \in [at : Steps, open : Seq(Rows), amount : Amounts, clean : BOOLEAN]
  /\ missed \subseteq Orders /\ evicted \subseteq missed
  /\ current => connected

\* An order that was not placed has no trade, an open one has lots left.
LifeCycle(ord) ==
  \A o \in Orders :
    /\ ord[o].status = "none" => ord[o].executed = 0
    /\ ord[o].status \in Open => ord[o].executed < Lots

\* The lots traded of a set of orders, and the position they amount to.
Executed(ord, S) == {p \in S \X (1..Lots) : p[2] <= ord[p[1]].executed}
Net(ord) == Cardinality(Executed(ord, Orders \ Sells)) - Cardinality(Executed(ord, Sells))

\* Nothing is on its way, and no pass is clean, while the stream is down.
QuietOffline == ~connected => frames = << >> /\ ~pass.clean

\* The last frame of an order tells its state, the last frame of the account
\* its position, and a terminal frame is the last of its order.
QueueTells(q, ord, pos) ==
  \A i \in 1..Len(q) :
    /\ q[i].kind = "order" =>
         /\ (\A j \in 1..Len(q) : j > i => ~IsFrameOf(q, j, q[i].o)) => Tells(q[i], ord[q[i].o])
         /\ q[i].status \in Terminal => \A j \in 1..Len(q) : j > i => ~IsFrameOf(q, j, q[i].o)
    /\ q[i].kind = "account" /\ (\A j \in 1..Len(q) : j > i => q[j].kind # "account")
         => q[i].amount = pos

\* A terminal record tells its order's end; no frame of that order is left.
RecordEnded(rec, q, ord) ==
  \A o \in Orders : rec[o].status \in Terminal => Tells(rec[o], ord[o]) /\ ~Pending(q, o)

\* The fills of an order are in its record or among its frames.
FillsKept(rec, q, ord, lost) ==
  \A o \in Orders \ lost : rec[o].fills \union TradesOf(q, o) = 1..ord[o].executed

PositionSeen(amount, q, pos) == PositionPending(q) \/ amount = pos

\* An order is in the view, or will be with the frames on their way, or was
\* evicted; or it will be when the rows of a snapshot are folded.
OrderSeen(o, rec, q, ord, gone) ==
  Pending(q, o) \/ (IF rec[o] # Absent THEN Tells(rec[o], ord[o]) ELSE o \in gone)

RowSeen(o, rows, q, ord) ==
  \/ Pending(q, o)
  \/ /\ \E k \in 1..Len(rows) : rows[k].o = o
     /\ \A k \in 1..Len(rows) : rows[k].o = o => Tells(rows[k], ord[o])

OpenSeen(rec, q, ord, gone) ==
  \A o \in Orders : ord[o].status \in Open => OrderSeen(o, rec, q, ord, gone)

SnapshotSeen(rows, q, ord) ==
  \A o \in Orders : ord[o].status \in Open => RowSeen(o, rows, q, ord)

\* What the view, or the clean pass that will update it, knows.
ViewFollows ==
  /\ current => PositionSeen(shown, frames, position)
  /\ current /\ pass.at \in {"idle", "orders", "ordersServed"} => OpenSeen(records, frames, order, evicted)
  /\ pass.clean /\ pass.at \in {"positions", "positionsServed"} => OpenSeen(records, frames, order, evicted)
  /\ pass.clean /\ pass.at = "ordersServed" => SnapshotSeen(pass.open, frames, order)
  /\ pass.clean /\ pass.at = "positionsServed" => PositionSeen(pass.amount, frames, position)

IInv ==
  /\ Typed
  /\ LifeCycle(order)
  /\ position = Net(order)
  /\ QuietOffline
  /\ QueueTells(frames, order, position)
  /\ RecordEnded(records, frames, order)
  /\ FillsKept(records, frames, order, missed)
  /\ ViewFollows

----------------------------------------------------------------------------
(* The tracker *)

LEMMA Constants == Lots \in Nat /\ Lots # 0 /\ MaxRecords \in Nat /\ MaxRecords # 0
                   /\ Sells \subseteq Orders /\ IsFiniteSet(Orders)
  BY AccountViewAssumption

LEMMA FoldType ==
  ASSUME NEW r \in Records, NEW u \in OrderFrames
  PROVE  /\ FoldOrderUpdate(r, u) \in Records
         /\ FoldOrderUpdate(r, u) # Absent
         /\ Tells(FoldOrderUpdate(r, u), u)
<1>1. u.trade # NoTrade => u.trade \in 1..Lots
  BY Constants DEF OrderFrames, NoTrade
<1>2. r.fills \subseteq 1..Lots /\ u.status \in Statuses /\ u.executed \in 0..Lots
  BY DEF Records, OrderFrames
<1>3. FoldOrderUpdate(r, u).fills \in SUBSET (1..Lots)
  BY <1>1, <1>2 DEF FoldOrderUpdate
<1>4. /\ FoldOrderUpdate(r, u).status = u.status
      /\ FoldOrderUpdate(r, u).executed = u.executed
      /\ FoldOrderUpdate(r, u) = [status |-> u.status, executed |-> u.executed,
                                  fills |-> FoldOrderUpdate(r, u).fills]
  BY DEF FoldOrderUpdate
<1>5. u.status # "absent"
  BY <1>2 DEF Statuses, Open, Terminal
<1>. QED
  BY <1>2, <1>3, <1>4, <1>5 DEF Records, Absent, Tells

\* r is t after the update u: its order has a record that is folded, or was
\* terminal; another record stays or is evicted.
IsUpdate(t, u, r) ==
  /\ t.records[u.o].status \in Terminal => r = t
  /\ t.records[u.o].status \notin Terminal => r.records[u.o] = FoldOrderUpdate(t.records[u.o], u)
  /\ t.evicted \subseteq r.evicted
  /\ \A o \in Orders \ {u.o} :
       r.records[o] = t.records[o] \/ (r.records[o] = Absent /\ o \in r.evicted)

LEMMA ApplyUpdateUpdates ==
  ASSUME NEW t \in Trackers, NEW u \in OrderFrames
  PROVE  ApplyUpdate(t, u) \in Trackers /\ IsUpdate(t, u, ApplyUpdate(t, u))
<1>. DEFINE o == u.o
            rec == t.records
            folded == FoldOrderUpdate(rec[o], u)
            r == [rec EXCEPT ![o] = folded]
            known == rec[o] # Absent
            q == IF known THEN t.recency ELSE Append(t.recency, o)
            after == ApplyUpdate(t, u)
<1>1. /\ o \in Orders /\ rec \in [Orders -> Records] /\ t.recency \in Seq(Orders)
      /\ t.evicted \subseteq Orders /\ rec[o] \in Records
      /\ t = [records |-> rec, recency |-> t.recency, evicted |-> t.evicted]
  BY DEF Trackers, OrderFrames
<1>2. /\ \A p \in Orders : rec[p] # Absent <=> \E i \in 1..Len(t.recency) : t.recency[i] = p
      /\ \A i, j \in 1..Len(t.recency) : t.recency[i] = t.recency[j] => i = j
      /\ Len(t.recency) <= MaxRecords /\ Len(t.recency) \in Nat
  BY <1>1 DEF Trackers
<1>3. folded \in Records /\ folded # Absent
  BY <1>1, FoldType
<1>. HIDE DEF folded
<1>4. r \in [Orders -> Records] /\ r[o] = folded /\ \A p \in Orders : p # o => r[p] = rec[p]
  BY <1>1, <1>3
<1>5. CASE rec[o].status \in Terminal
  <2>1. after = t
    BY <1>5 DEF ApplyUpdate
  <2>. QED
    BY <1>5, <2>1 DEF IsUpdate
<1>6. CASE rec[o].status \notin Terminal /\ known
  <2>1. q = t.recency /\ ~(Len(q) > MaxRecords)
    BY <1>2, <1>6, Constants
  <2>2. after = [records |-> r, recency |-> t.recency, evicted |-> t.evicted]
    BY <1>1, <1>6, <2>1 DEF ApplyUpdate, folded
  <2>. HIDE DEF after, r
  <2>3. \A p \in Orders : r[p] # Absent <=> \E i \in 1..Len(t.recency) : t.recency[i] = p
    BY <1>2, <1>3, <1>4, <1>6
  <2>4. after \in Trackers
    BY <1>1, <1>2, <1>4, <2>2, <2>3 DEF Trackers
  <2>5. IsUpdate(t, u, after)
    BY <1>1, <1>4, <1>6, <2>2 DEF IsUpdate, folded
  <2>. QED
    BY <2>4, <2>5 DEF after
<1>7. CASE rec[o].status \notin Terminal /\ ~known
  <2>1. q = Append(t.recency, o)
    BY <1>7
  <2>2. /\ q \in Seq(Orders) /\ Len(q) = Len(t.recency) + 1
        /\ \A i \in 1..Len(t.recency) : q[i] = t.recency[i]
        /\ q[Len(t.recency) + 1] = o
    BY <1>1, <2>1, AppendProperties
  <2>. HIDE DEF q
  <2>3. \A i \in 1..Len(t.recency) : t.recency[i] # o /\ t.recency[i] \in Orders
    BY <1>1, <1>2, <1>7, ElementOfSeq
  <2>4. \A p \in Orders : r[p] # Absent <=> \E i \in 1..Len(q) : q[i] = p
    <3>. SUFFICES ASSUME NEW p \in Orders
                  PROVE  r[p] # Absent <=> \E i \in 1..Len(q) : q[i] = p
      OBVIOUS
    <3>. HIDE DEF r
    <3>1. CASE p = o
      BY <1>2, <1>3, <1>4, <2>2, <3>1
    <3>2. CASE p # o
      <4>1. r[p] # Absent <=> \E i \in 1..Len(t.recency) : t.recency[i] = p
        BY <1>2, <1>4, <3>2
      <4>2. \A i \in 1..Len(q) : i # Len(t.recency) + 1 => i \in 1..Len(t.recency)
        BY <1>2, <2>2
      <4>3. \A i \in 1..Len(t.recency) : i \in 1..Len(q)
        BY <1>2, <2>2
      <4>. QED
        BY <2>2, <3>2, <4>1, <4>2, <4>3
    <3>. QED
      BY <3>1, <3>2
  <2>5. \A i, j \in 1..Len(q) : q[i] = q[j] => i = j
    BY <1>2, <2>2, <2>3
  <2>6. CASE ~(Len(q) > MaxRecords)
    <3>1. after = [records |-> r, recency |-> q, evicted |-> t.evicted]
      BY <1>1, <1>7, <2>1, <2>6 DEF ApplyUpdate, folded
    <3>. HIDE DEF after, r
    <3>2. after \in Trackers
      <4>1. Len(q) <= MaxRecords
        BY <1>2, <2>2, <2>6, Constants
      <4>. QED
        BY <1>1, <1>4, <2>2, <2>4, <2>5, <3>1, <4>1 DEF Trackers
    <3>3. IsUpdate(t, u, after)
      BY <1>1, <1>4, <1>7, <3>1 DEF IsUpdate, folded
    <3>. QED
      BY <3>2, <3>3 DEF after
  <2>7. CASE Len(q) > MaxRecords
    <3>. DEFINE gone == Head(q)
                kept == [r EXCEPT ![gone] = Absent]
    <3>1. after = [records |-> kept, recency |-> Tail(q), evicted |-> t.evicted \union {gone}]
      BY <1>1, <1>7, <2>1, <2>7 DEF ApplyUpdate, folded
    <3>2. Len(t.recency) \in 1..MaxRecords
      BY <1>2, <2>2, <2>7, Constants
    <3>3. /\ q # << >> /\ gone = q[1] /\ Tail(q) \in Seq(Orders)
          /\ Len(Tail(q)) = Len(q) - 1
          /\ \A i \in 1..Len(Tail(q)) : Tail(q)[i] = q[i + 1]
      BY <2>2, <3>2, HeadTailProperties
    <3>4. gone \in Orders /\ gone # o
      BY <2>2, <2>3, <3>2, <3>3
    <3>. HIDE DEF after, r, gone
    <3>5. Absent \in Records
      BY Constants DEF Absent, Records
    <3>6. /\ kept \in [Orders -> Records] /\ kept[gone] = Absent
          /\ \A p \in Orders : p # gone => kept[p] = r[p]
      BY <1>4, <3>4, <3>5
    <3>. HIDE DEF kept
    <3>7. \A i \in 1..Len(Tail(q)) : i + 1 \in 1..Len(q) /\ i + 1 # 1
      BY <2>2, <3>3, <1>2
    <3>8. \A i \in 1..Len(q) : i # 1 => i - 1 \in 1..Len(Tail(q)) /\ (i - 1) + 1 = i
      BY <2>2, <3>3, <1>2
    <3>9. \A p \in Orders : kept[p] # Absent <=> \E i \in 1..Len(Tail(q)) : Tail(q)[i] = p
      <4>. SUFFICES ASSUME NEW p \in Orders
                    PROVE  kept[p] # Absent <=> \E i \in 1..Len(Tail(q)) : Tail(q)[i] = p
        OBVIOUS
      <4>0. 1 \in 1..Len(q)
        BY <1>2, <2>2
      <4>1. CASE p = gone
        <5>1. \A i \in 1..Len(Tail(q)) : Tail(q)[i] # q[1]
          BY <2>5, <3>3, <3>7, <4>0
        <5>. QED
          BY <3>3, <3>6, <4>1, <5>1
      <4>2. CASE p # gone
        <5>1. kept[p] # Absent <=> \E i \in 1..Len(q) : q[i] = p
          BY <2>4, <3>6, <4>2
        <5>2. \A i \in 1..Len(q) : q[i] = p => i # 1
          BY <3>3, <4>2
        <5>3. ASSUME NEW i \in 1..Len(q), q[i] = p
              PROVE  \E j \in 1..Len(Tail(q)) : Tail(q)[j] = p
          <6>1. i - 1 \in 1..Len(Tail(q)) /\ (i - 1) + 1 = i
            BY <3>8, <5>2, <5>3
          <6>2. Tail(q)[i - 1] = p
            BY <3>3, <5>3, <6>1
          <6>. QED
            BY <6>1, <6>2
        <5>4. ASSUME NEW j \in 1..Len(Tail(q)), Tail(q)[j] = p
              PROVE  \E i \in 1..Len(q) : q[i] = p
          BY <3>3, <3>7, <5>4
        <5>. QED
          BY <5>1, <5>3, <5>4
      <4>. QED
        BY <4>1, <4>2
    <3>10. \A i, j \in 1..Len(Tail(q)) : Tail(q)[i] = Tail(q)[j] => i = j
      <4>. SUFFICES ASSUME NEW i \in 1..Len(Tail(q)), NEW j \in 1..Len(Tail(q)),
                           Tail(q)[i] = Tail(q)[j]
                    PROVE  i = j
        OBVIOUS
      <4>1. q[i + 1] = q[j + 1]
        BY <3>3
      <4>2. i + 1 = j + 1
        BY <2>5, <3>7, <4>1
      <4>. QED
        BY <4>2
    <3>11. Len(Tail(q)) <= MaxRecords
      BY <1>2, <2>2, <3>3
    <3>12. after \in Trackers
      <4>1. t.evicted \union {gone} \in SUBSET Orders
        BY <1>1, <3>4
      <4>. DEFINE rest == Tail(q)
      <4>2. /\ rest \in Seq(Orders) /\ Len(rest) <= MaxRecords
            /\ \A i, j \in 1..Len(rest) : rest[i] = rest[j] => i = j
            /\ \A p \in Orders : kept[p] # Absent <=> \E i \in 1..Len(rest) : rest[i] = p
            /\ after = [records |-> kept, recency |-> rest, evicted |-> t.evicted \union {gone}]
        BY <3>1, <3>3, <3>9, <3>10, <3>11
      <4>. HIDE DEF rest
      <4>. QED
        BY <3>6, <4>1, <4>2 DEF Trackers
    <3>13. IsUpdate(t, u, after)
      BY <1>1, <1>4, <1>7, <3>1, <3>4, <3>6 DEF IsUpdate, folded
    <3>. QED
      BY <3>12, <3>13 DEF after
  <2>. QED
    BY <2>6, <2>7
<1>. QED
  BY <1>5, <1>6, <1>7

\* A tracker has as many records as places.
LEMMA RecordsCounted ==
  ASSUME NEW t \in Trackers
  PROVE  Len(t.recency) = Cardinality({o \in Orders : t.records[o] # Absent})
<1>. DEFINE S == {o \in Orders : t.records[o] # Absent}
            n == Len(t.recency)
<1>1. t.recency \in Seq(Orders) /\ n \in Nat /\ t.recency \in [1..n -> Orders]
  BY LenProperties DEF Trackers
<1>2. \A i \in 1..n : t.recency[i] \in S
  BY <1>1 DEF Trackers
<1>3. t.recency \in [1..n -> S]
  <2>. HIDE DEF S, n
  <2>. QED BY <1>1, <1>2
<1>4. \A i, j \in 1..n : t.recency[i] = t.recency[j] => i = j
  BY DEF Trackers
<1>5. \A o \in S : \E i \in 1..n : t.recency[i] = o
  BY DEF Trackers
<1>. HIDE DEF S, n
<1>6. t.recency \in Bijection(1..n, S)
  BY <1>3, <1>4, <1>5 DEF Bijection, Injection, Surjection, IsInjective
<1>7. Cardinality(S) = n
  BY <1>1, <1>6, FS_CountingElements DEF ExistsBijection
<1>. QED
  BY <1>7 DEF S, n

----------------------------------------------------------------------------
(* The fold of a snapshot *)

Fold(start, rows) ==
  LET step[i \in 0..Len(rows)] ==
        IF i = 0 THEN start ELSE ApplyUpdate(step[i - 1], rows[i])
  IN step[Len(rows)]

\* The fold has a result, reached row by row.
LEMMA FoldRuns ==
  ASSUME NEW start \in Trackers, NEW rows \in Seq(Rows)
  PROVE  \E f : /\ Fold(start, rows) = f[Len(rows)]
                /\ f[0] = start
                /\ \A i \in 1..Len(rows) : f[i] = ApplyUpdate(f[i - 1], rows[i])
<1>. DEFINE n == Len(rows)
            V == Trackers
            run == [p \in V \X (1..n) |-> ApplyUpdate(p[1], rows[p[2]])]
            Def(f) == f = [i \in 0..n |-> IF i = 0 THEN start ELSE ApplyUpdate(f[i - 1], rows[i])]
            step == CHOOSE f : Def(f)
<1>0. n \in Nat /\ \A i \in 1..n : rows[i] \in OrderFrames
  BY ElementOfSeq, LenProperties DEF Rows
<1>1. run \in [V \X (1..n) -> V]
  <2>1. \A t \in V, i \in 1..n : ApplyUpdate(t, rows[i]) \in V
    BY <1>0, ApplyUpdateUpdates
  <2>. HIDE DEF V, n
  <2>. QED BY <2>1
<1>2. PICK g \in [0..n -> V] : IsRun(g, n, start, run)
  <2>. HIDE DEF V, n, run
  <2>1. start \in V
    BY DEF V
  <2>. QED BY <1>0, <1>1, <2>1, LoopExists
<1>3. g[0] = start /\ \A i \in 1..n : g[i] = ApplyUpdate(g[i - 1], rows[i])
  <2>1. \A i \in 1..n : i - 1 \in 0..n
    BY <1>0
  <2>2. \A i \in 1..n : g[i - 1] \in V
    <3>. HIDE DEF V, n, run
    <3>. QED BY <1>2, <2>1
  <2>3. \A i \in 1..n : <<g[i - 1], i>> \in V \X (1..n)
    <3>. HIDE DEF V, n, run
    <3>. QED BY <2>2
  <2>4. \A i \in 1..n : run[<<g[i - 1], i>>] = ApplyUpdate(g[i - 1], rows[i])
    <3>. HIDE DEF V, n
    <3>. QED BY <2>3
  <2>. HIDE DEF V, n, run
  <2>. QED BY <1>2, <2>4 DEF IsRun
<1>4. Def(g)
  <2>. HIDE DEF V, n
  <2>. QED BY <1>0, <1>2, <1>3
<1>5. Def(step)
  BY <1>4
<1>6. step[0] = start /\ \A i \in 1..n : step[i] = ApplyUpdate(step[i - 1], rows[i])
  <2>0. 0 \in 0..n /\ \A i \in 1..n : i \in 0..n /\ i # 0
    BY <1>0
  <2>. HIDE DEF step, n
  <2>. QED BY <1>5, <2>0
<1>7. Fold(start, rows) = step[n]
  BY DEF Fold
<1>. HIDE DEF step
<1>. QED
  BY <1>6, <1>7

\* What the rows of open orders leave alone: a record is terminal only if it
\* was before, and it keeps its fills unless it is evicted.
Folded(start) ==
  {t \in Trackers :
     /\ start.evicted \subseteq t.evicted
     /\ \A o \in Orders : t.records[o].status \in Terminal => t.records[o] = start.records[o]
     /\ \A o \in Orders : o \notin t.evicted => t.records[o].fills = start.records[o].fills}

LEMMA RowKeepsFolded ==
  ASSUME NEW start \in Trackers, NEW t \in Folded(start), NEW u \in Rows
  PROVE  ApplyUpdate(t, u) \in Folded(start)
<1>. DEFINE r == ApplyUpdate(t, u)
<1>1. t \in Trackers /\ u \in OrderFrames /\ u.o \in Orders /\ t.records[u.o] \in Records
  BY DEF Folded, Rows, OrderFrames, Trackers
<1>2. r \in Trackers /\ IsUpdate(t, u, r)
  BY <1>1, ApplyUpdateUpdates
<1>. HIDE DEF r
<1>3. CASE t.records[u.o].status \in Terminal
  BY <1>2, <1>3 DEF IsUpdate, r
<1>4. CASE t.records[u.o].status \notin Terminal
  <2>1. r.records[u.o] = FoldOrderUpdate(t.records[u.o], u)
    BY <1>2, <1>4 DEF IsUpdate
  <2>2. r.records[u.o].status \notin Terminal /\ r.records[u.o].fills = t.records[u.o].fills
    BY <1>1, <2>1 DEF FoldOrderUpdate, Rows, Open, Terminal, NoTrade
  <2>3. Absent.status \notin Terminal
    BY DEF Absent, Terminal
  <2>4. t.evicted \subseteq r.evicted /\ start.evicted \subseteq r.evicted
    BY <1>2 DEF IsUpdate, Folded
  <2>5. ASSUME NEW o \in Orders
        PROVE  /\ r.records[o].status \in Terminal => r.records[o] = start.records[o]
               /\ o \notin r.evicted => r.records[o].fills = start.records[o].fills
    <3>1. /\ t.records[o].status \in Terminal => t.records[o] = start.records[o]
          /\ o \notin t.evicted => t.records[o].fills = start.records[o].fills
      BY DEF Folded
    <3>2. CASE o = u.o
      BY <2>2, <2>4, <3>1, <3>2
    <3>3. CASE o # u.o
      <4>1. r.records[o] = t.records[o] \/ (r.records[o] = Absent /\ o \in r.evicted)
        BY <1>2, <3>3 DEF IsUpdate
      <4>. QED
        BY <2>3, <2>4, <3>1, <4>1
    <3>. QED
      BY <3>2, <3>3
  <2>. QED
    BY <1>2, <2>4, <2>5 DEF Folded, r
<1>. QED
  BY <1>3, <1>4

\* An order that was not terminal and whose rows all tell s: after the fold
\* its record tells s, or it was evicted.
Shows(t, o, s) == IF t.records[o] # Absent THEN Tells(t.records[o], s) ELSE o \in t.evicted

LEMMA RowShows ==
  ASSUME NEW start \in Trackers, NEW t \in Folded(start), NEW u \in Rows, NEW s,
         start.records[u.o].status \notin Terminal, Tells(u, s)
  PROVE  Shows(ApplyUpdate(t, u), u.o, s)
<1>1. t \in Trackers /\ u \in OrderFrames /\ u.o \in Orders /\ t.records[u.o] \in Records
  BY DEF Folded, Rows, OrderFrames, Trackers
<1>2. t.records[u.o].status \notin Terminal
  BY <1>1 DEF Folded
<1>3. ApplyUpdate(t, u).records[u.o] = FoldOrderUpdate(t.records[u.o], u)
  BY <1>1, <1>2, ApplyUpdateUpdates DEF IsUpdate
<1>. QED
  BY <1>1, <1>3, FoldType DEF Shows, Tells

LEMMA OtherRowShows ==
  ASSUME NEW start \in Trackers, NEW t \in Folded(start), NEW u \in Rows, NEW s,
         NEW o \in Orders, o # u.o, Shows(t, o, s)
  PROVE  Shows(ApplyUpdate(t, u), o, s)
<1>1. t \in Trackers /\ u \in OrderFrames
  BY DEF Folded, Rows
<1>. DEFINE r == ApplyUpdate(t, u)
<1>2. IsUpdate(t, u, r)
  BY <1>1, ApplyUpdateUpdates
<1>. HIDE DEF r
<1>3. /\ t.evicted \subseteq r.evicted
      /\ r.records[o] = t.records[o] \/ (r.records[o] = Absent /\ o \in r.evicted)
  BY <1>2 DEF IsUpdate
<1>4. Shows(r, o, s)
  BY <1>3 DEF Shows
<1>. QED
  BY <1>4 DEF r

LEMMA FoldKeeps ==
  ASSUME NEW start \in Trackers, NEW rows \in Seq(Rows)
  PROVE  /\ Fold(start, rows) \in Folded(start)
         /\ \A o \in Orders : \A s :
              /\ start.records[o].status \notin Terminal
              /\ \E k \in 1..Len(rows) : rows[k].o = o
              /\ \A k \in 1..Len(rows) : rows[k].o = o => Tells(rows[k], s)
              => Shows(Fold(start, rows), o, s)
<1>. DEFINE n == Len(rows)
<1>1. PICK f : /\ Fold(start, rows) = f[n]
               /\ f[0] = start
               /\ \A i \in 1..n : f[i] = ApplyUpdate(f[i - 1], rows[i])
  BY FoldRuns
<1>2. n \in Nat /\ \A i \in 1..n : rows[i] \in Rows
  BY ElementOfSeq, LenProperties
<1>. HIDE DEF n
<1>3. \A i \in 0..n : f[i] \in Folded(start)
  <2>. DEFINE V == Folded(start)
  <2>1. f[0] \in V
    BY <1>1 DEF Folded
  <2>2. \A i \in 1..n : f[i - 1] \in V => f[i] \in V
    BY <1>1, <1>2, RowKeepsFolded
  <2>3. ASSUME NEW i \in 0..n PROVE f[i] \in V
    <3>1. i \in Nat /\ \A j \in 1..i : j \in 1..n
      BY <1>2
    <3>2. \A j \in 1..i : f[j - 1] \in V => f[j] \in V
      BY <2>2, <3>1
    <3>. HIDE DEF V
    <3>. QED BY <2>1, <3>1, <3>2, LoopInvariant
  <2>. QED
    BY <2>3
<1>4. ASSUME NEW o \in Orders, NEW s, NEW k \in 1..n, rows[k].o = o,
             start.records[o].status \notin Terminal,
             \A j \in 1..n : rows[j].o = o => Tells(rows[j], s)
      PROVE  Shows(f[n], o, s)
  <2>. DEFINE W == {t \in Folded(start) : Shows(t, o, s)}
              g == [i \in 0..(n - k) |-> f[k + i]]
  <2>1. f[k] \in W
    <3>1. k - 1 \in 0..n /\ k \in 0..n
      BY <1>2
    <3>2. f[k] = ApplyUpdate(f[k - 1], rows[k]) /\ f[k - 1] \in Folded(start) /\ rows[k] \in Rows
      BY <1>1, <1>2, <1>3, <3>1
    <3>3. Shows(f[k], o, s)
      BY <1>4, <3>2, RowShows
    <3>. QED
      BY <1>3, <3>1, <3>3
  <2>2. ASSUME NEW i \in 1..n, f[i - 1] \in W PROVE f[i] \in W
    <3>1. f[i] = ApplyUpdate(f[i - 1], rows[i]) /\ f[i - 1] \in Folded(start) /\ rows[i] \in Rows
      BY <1>1, <1>2, <2>2
    <3>2. f[i] \in Folded(start)
      BY <3>1, RowKeepsFolded
    <3>3. CASE rows[i].o = o
      <4>1. Shows(f[i], o, s)
        BY <1>4, <3>1, <3>3, RowShows
      <4>. QED
        BY <3>2, <4>1
    <3>4. CASE rows[i].o # o
      <4>1. Shows(f[i - 1], o, s)
        BY <2>2
      <4>2. Shows(f[i], o, s)
        BY <3>1, <3>4, <4>1, OtherRowShows
      <4>. QED
        BY <3>2, <4>2
    <3>. QED
      BY <3>3, <3>4
  <2>3. n - k \in Nat /\ g[0] = f[k] /\ g[n - k] = f[n]
    BY <1>2
  <2>4. \A i \in 1..(n - k) : g[i - 1] = f[(k + i) - 1] /\ g[i] = f[k + i] /\ k + i \in 1..n
    BY <1>2
  <2>5. \A i \in 1..(n - k) : g[i - 1] \in W => g[i] \in W
    <3>. HIDE DEF W, g
    <3>. QED BY <2>2, <2>4
  <2>6. g[n - k] \in W
    <3>. HIDE DEF W, g
    <3>. QED BY <2>1, <2>3, <2>5, LoopInvariant
  <2>. QED
    BY <2>3, <2>6
<1>5. n \in 0..n
  BY <1>2
<1>. QED
  BY <1>1, <1>3, <1>4, <1>5 DEF n

----------------------------------------------------------------------------
(* Frames *)

\* A frame at the end of a queue, by its index.
LEMMA Appended ==
  ASSUME NEW q \in Seq(Frames), NEW f \in Frames
  PROVE  LET r == Append(q, f) IN
         /\ r \in Seq(Frames) /\ Len(q) \in Nat /\ Len(r) = Len(q) + 1
         /\ r[Len(q) + 1] = f
         /\ \A i \in 1..Len(q) : i \in 1..Len(r) /\ r[i] = q[i]
         /\ \A i \in 1..Len(r) : i = Len(q) + 1 \/ i \in 1..Len(q)
<1>1. Len(q) \in Nat
  BY LenProperties
<1>2. /\ Append(q, f) \in Seq(Frames) /\ Len(Append(q, f)) = Len(q) + 1
      /\ Append(q, f)[Len(q) + 1] = f
      /\ \A i \in 1..Len(q) : Append(q, f)[i] = q[i]
  BY AppendProperties
<1>. QED
  BY <1>1, <1>2

\* The queue without its head.
LEMMA Behind ==
  ASSUME NEW q \in Seq(Frames), q # << >>
  PROVE  LET r == Tail(q) IN
         /\ Head(q) = q[1] /\ q[1] \in Frames /\ 1 \in 1..Len(q)
         /\ r \in Seq(Frames) /\ Len(q) \in Nat /\ Len(r) = Len(q) - 1
         /\ \A i \in 1..Len(r) : i + 1 \in 1..Len(q) /\ i + 1 > 1 /\ r[i] = q[i + 1]
         /\ \A i \in 1..Len(q) : i > 1 => i - 1 \in 1..Len(r) /\ r[i - 1] = q[i]
<1>1. Len(q) \in Nat /\ Len(q) # 0
  BY LenProperties, EmptySeq
<1>2. /\ Tail(q) \in Seq(Frames) /\ Len(Tail(q)) = Len(q) - 1
      /\ \A i \in 1..Len(Tail(q)) : Tail(q)[i] = q[i + 1]
      /\ Head(q) = q[1] /\ q[1] \in Frames
  BY HeadTailProperties, ElementOfSeq, <1>1
<1>3. \A i \in 1..Len(q) : i > 1 => i - 1 \in 1..Len(Tail(q)) /\ (i - 1) + 1 = i
  BY <1>1, <1>2
<1>. QED
  BY <1>1, <1>2, <1>3

\* A frame of the account says nothing of the orders, but tells the position.
LEMMA AccountGrows ==
  ASSUME NEW q \in Seq(Frames), NEW ord, NEW pos, NEW amount \in Amounts,
         QueueTells(q, ord, pos)
  PROVE  LET r == Append(q, [kind |-> "account", amount |-> amount]) IN
         /\ r \in Seq(Frames)
         /\ QueueTells(r, ord, amount)
         /\ PositionPending(r)
         /\ \A o \in Orders : Pending(r, o) <=> Pending(q, o)
         /\ \A o \in Orders : TradesOf(r, o) = TradesOf(q, o)
<1>. DEFINE f == [kind |-> "account", amount |-> amount]
            r == Append(q, f)
            n == Len(q)
<1>1. f \in Frames /\ f.kind = "account" /\ f.amount = amount
  BY DEF Frames, AccountFrames
<1>2. /\ r \in Seq(Frames) /\ n \in Nat /\ Len(r) = n + 1 /\ r[n + 1] = f
      /\ \A i \in 1..n : i \in 1..Len(r) /\ r[i] = q[i]
      /\ \A i \in 1..Len(r) : i = n + 1 \/ i \in 1..n
  BY <1>1, Appended
<1>. HIDE DEF r, f, n
<1>3. \A o : ~IsFrameOf(r, n + 1, o)
  BY <1>1, <1>2 DEF IsFrameOf
<1>4. \A o : \A i \in 1..n : IsFrameOf(r, i, o) <=> IsFrameOf(q, i, o)
  BY <1>2 DEF IsFrameOf
<1>5. \A o \in Orders : Pending(r, o) <=> Pending(q, o)
  BY <1>2, <1>3, <1>4 DEF Pending, n
<1>6. \A o \in Orders : TradesOf(r, o) = TradesOf(q, o)
  BY <1>2, <1>3, <1>4 DEF TradesOf, n
<1>7. n + 1 \in 1..Len(r)
  BY <1>2
<1>8. PositionPending(r)
  BY <1>1, <1>2, <1>7 DEF PositionPending
<1>9. QueueTells(r, ord, amount)
  <2>. SUFFICES ASSUME NEW i \in 1..Len(r)
                PROVE  /\ r[i].kind = "order" =>
                            /\ (\A j \in 1..Len(r) : j > i => ~IsFrameOf(r, j, r[i].o))
                                 => Tells(r[i], ord[r[i].o])
                            /\ r[i].status \in Terminal =>
                                 \A j \in 1..Len(r) : j > i => ~IsFrameOf(r, j, r[i].o)
                       /\ /\ r[i].kind = "account"
                          /\ \A j \in 1..Len(r) : j > i => r[j].kind # "account"
                          => r[i].amount = amount
    BY DEF QueueTells
  <2>1. CASE i = n + 1
    BY <1>1, <1>2, <2>1
  <2>2. CASE i \in 1..n
    <3>1. r[n + 1].kind = "account" /\ n + 1 > i
      BY <1>1, <1>2, <2>2
    <3>2. r[i] = q[i] /\ i \in 1..Len(q)
      BY <1>2, <2>2 DEF n
    <3>3. (\A j \in 1..Len(r) : j > i => ~IsFrameOf(r, j, r[i].o))
          <=> (\A j \in 1..n : j > i => ~IsFrameOf(q, j, q[i].o))
      BY <1>2, <1>3, <1>4, <3>2
    <3>4. q[i].kind = "order" =>
            /\ (\A j \in 1..n : j > i => ~IsFrameOf(q, j, q[i].o)) => Tells(q[i], ord[q[i].o])
            /\ q[i].status \in Terminal => \A j \in 1..n : j > i => ~IsFrameOf(q, j, q[i].o)
      BY <3>2 DEF QueueTells, n
    <3>. QED
      BY <1>7, <3>1, <3>2, <3>3, <3>4
  <2>. QED
    BY <1>2, <2>1, <2>2
<1>. QED
  BY <1>2, <1>5, <1>6, <1>8, <1>9 DEF r, f

\* A frame of an order that had not ended tells its new state.
LEMMA OrderGrows ==
  ASSUME NEW q \in Seq(Frames), NEW ord \in OrderStates, NEW pos, QueueTells(q, ord, pos),
         NEW o \in Orders, ord[o].status \notin Terminal,
         NEW s \in [status : Statuses, executed : 0..Lots], NEW trade \in 0..Lots
  PROVE  LET r == Append(q, OrderFrame(o, s.status, s.executed, trade)) IN
         /\ r \in Seq(Frames)
         /\ QueueTells(r, [ord EXCEPT ![o] = s], pos)
         /\ PositionPending(r) <=> PositionPending(q)
         /\ \A p \in Orders : Pending(r, p) <=> p = o \/ Pending(q, p)
         /\ \A p \in Orders : p # o => TradesOf(r, p) = TradesOf(q, p)
         /\ TradesOf(r, o) = TradesOf(q, o) \union ({trade} \ {NoTrade})
<1>. DEFINE f == OrderFrame(o, s.status, s.executed, trade)
            r == Append(q, f)
            n == Len(q)
            new == [ord EXCEPT ![o] = s]
<1>1. /\ f \in Frames /\ f.kind = "order" /\ f.o = o /\ f.trade = trade
      /\ Tells(f, s)
  BY DEF Frames, OrderFrames, OrderFrame, Tells
<1>2. /\ r \in Seq(Frames) /\ n \in Nat /\ Len(r) = n + 1 /\ r[n + 1] = f
      /\ \A i \in 1..n : i \in 1..Len(r) /\ r[i] = q[i]
      /\ \A i \in 1..Len(r) : i = n + 1 \/ i \in 1..n
  BY <1>1, Appended
<1>e. new[o] = s /\ \A p : p # o /\ p \in Orders => new[p] = ord[p]
  BY DEF OrderStates
<1>. HIDE DEF r, f, n, new
<1>3. \A p : IsFrameOf(r, n + 1, p) <=> p = o
  BY <1>1, <1>2 DEF IsFrameOf
<1>4. \A p : \A i \in 1..n : IsFrameOf(r, i, p) <=> IsFrameOf(q, i, p)
  BY <1>2 DEF IsFrameOf
<1>7. n + 1 \in 1..Len(r)
  BY <1>2
<1>5. \A p \in Orders : Pending(r, p) <=> p = o \/ Pending(q, p)
  BY <1>2, <1>3, <1>4, <1>7 DEF Pending, n
<1>6. \A p \in Orders : p # o => TradesOf(r, p) = TradesOf(q, p)
  BY <1>2, <1>3, <1>4 DEF TradesOf, n
<1>8. TradesOf(r, o) = TradesOf(q, o) \union ({trade} \ {NoTrade})
  <2>1. \A k \in 1..Lots :
          (\E i \in 1..Len(r) : IsFrameOf(r, i, o) /\ r[i].trade = k)
          <=> k = trade \/ \E i \in 1..n : IsFrameOf(q, i, o) /\ q[i].trade = k
    BY <1>1, <1>2, <1>3, <1>4, <1>7
  <2>2. {trade} \ {NoTrade} = {k \in 1..Lots : k = trade}
    BY Constants DEF NoTrade
  <2>. QED
    BY <2>1, <2>2 DEF TradesOf, n
<1>9. PositionPending(r) <=> PositionPending(q)
  <2>1. r[n + 1].kind # "account"
    BY <1>1, <1>2
  <2>. QED
    BY <1>2, <2>1 DEF PositionPending, n
<1>10. QueueTells(r, new, pos)
  <2>. SUFFICES ASSUME NEW i \in 1..Len(r)
                PROVE  /\ r[i].kind = "order" =>
                            /\ (\A j \in 1..Len(r) : j > i => ~IsFrameOf(r, j, r[i].o))
                                 => Tells(r[i], new[r[i].o])
                            /\ r[i].status \in Terminal =>
                                 \A j \in 1..Len(r) : j > i => ~IsFrameOf(r, j, r[i].o)
                       /\ /\ r[i].kind = "account"
                          /\ \A j \in 1..Len(r) : j > i => r[j].kind # "account"
                          => r[i].amount = pos
    BY DEF QueueTells
  <2>1. CASE i = n + 1
    <3>1. \A j \in 1..Len(r) : ~(j > i)
      BY <1>2, <2>1
    <3>. QED
      BY <1>1, <1>2, <1>e, <2>1, <3>1
  <2>2. CASE i \in 1..n
    <3>1. r[n + 1].kind # "account" /\ n + 1 > i
      BY <1>1, <1>2, <2>2
    <3>2. r[i] = q[i] /\ i \in 1..Len(q) /\ q[i] \in Frames
      BY <1>2, <2>2, ElementOfSeq DEF n
    <3>3. q[i].kind = "order" =>
            /\ (\A j \in 1..n : j > i => ~IsFrameOf(q, j, q[i].o)) => Tells(q[i], ord[q[i].o])
            /\ q[i].status \in Terminal => \A j \in 1..n : j > i => ~IsFrameOf(q, j, q[i].o)
      BY <3>2 DEF QueueTells, n
    <3>4. q[i].kind = "account" /\ (\A j \in 1..n : j > i => q[j].kind # "account")
            => q[i].amount = pos
      BY <3>2 DEF QueueTells, n
    <3>5. (\A j \in 1..Len(r) : j > i => r[j].kind # "account")
            => \A j \in 1..n : j > i => q[j].kind # "account"
      BY <1>2
    <3>6. CASE q[i].kind = "order" /\ q[i].o = o
      <4>1. q[i].status \notin Terminal
        <5>. SUFFICES ASSUME q[i].status \in Terminal PROVE FALSE
          OBVIOUS
        <5>1. Tells(q[i], ord[o])
          BY <3>3, <3>6
        <5>. QED
          BY <5>1 DEF Tells
      <4>2. ~(\A j \in 1..Len(r) : j > i => ~IsFrameOf(r, j, r[i].o))
        BY <1>3, <1>7, <3>1, <3>2, <3>6
      <4>. QED
        BY <3>2, <3>6, <4>1, <4>2
    <3>7. CASE q[i].kind = "order" /\ q[i].o # o
      <4>1. (\A j \in 1..Len(r) : j > i => ~IsFrameOf(r, j, r[i].o))
            <=> (\A j \in 1..n : j > i => ~IsFrameOf(q, j, q[i].o))
        BY <1>2, <1>3, <1>4, <3>2, <3>7
      <4>2. q[i].o \in Orders
        BY <3>2, <3>7 DEF Frames, OrderFrames, AccountFrames
      <4>3. new[q[i].o] = ord[q[i].o]
        BY <1>e, <3>7, <4>2
      <4>. QED
        BY <3>2, <3>3, <3>7, <4>1, <4>3
    <3>8. CASE q[i].kind # "order"
      BY <3>2, <3>4, <3>5, <3>8
    <3>. QED
      BY <3>6, <3>7, <3>8
  <2>. QED
    BY <1>2, <2>1, <2>2
<1>. QED
  BY <1>2, <1>5, <1>6, <1>8, <1>9, <1>10 DEF r, f, new

\* Without its head a queue tells the same; of the head's order and of the
\* account, the head tells it if nothing follows.
LEMMA QueueShrinks ==
  ASSUME NEW q \in Seq(Frames), q # << >>, NEW ord, NEW pos, QueueTells(q, ord, pos)
  PROVE  LET f == Head(q)
             r == Tail(q)
         IN /\ f \in Frames /\ r \in Seq(Frames)
            /\ QueueTells(r, ord, pos)
            /\ f.kind = "order" =>
                 /\ f.o \in Orders
                 /\ Pending(q, f.o)
                 /\ Pending(r, f.o) \/ Tells(f, ord[f.o])
                 /\ f.status \in Terminal => ~Pending(r, f.o)
                 /\ f.trade \in 1..Lots => f.trade \in TradesOf(q, f.o)
                 /\ TradesOf(q, f.o) \subseteq TradesOf(r, f.o) \union {f.trade}
            /\ f.kind = "account" => PositionPending(r) \/ f.amount = pos
            /\ f.kind # "account" => (PositionPending(q) <=> PositionPending(r))
            /\ \A o \in Orders : ~(f.kind = "order" /\ f.o = o)
                 => (Pending(q, o) <=> Pending(r, o)) /\ TradesOf(q, o) = TradesOf(r, o)
            /\ \A o \in Orders : Pending(r, o) => Pending(q, o)
            /\ \A o \in Orders : TradesOf(r, o) \subseteq TradesOf(q, o)
<1>. DEFINE f == Head(q)
            r == Tail(q)
<1>1. /\ f = q[1] /\ q[1] \in Frames /\ 1 \in 1..Len(q)
      /\ r \in Seq(Frames) /\ Len(q) \in Nat /\ Len(r) = Len(q) - 1
      /\ \A i \in 1..Len(r) : i + 1 \in 1..Len(q) /\ i + 1 > 1 /\ r[i] = q[i + 1]
      /\ \A i \in 1..Len(q) : i > 1 => i - 1 \in 1..Len(r) /\ r[i - 1] = q[i]
  BY Behind
<1>. HIDE DEF f, r
<1>2. \A i \in 1..Len(q) : i = 1 \/ i > 1
  BY <1>1
<1>3. \A o : \A i \in 1..Len(r) : IsFrameOf(r, i, o) <=> IsFrameOf(q, i + 1, o)
  BY <1>1 DEF IsFrameOf
<1>4. \A o : \A i \in 1..Len(q) : i > 1 => (IsFrameOf(q, i, o) <=> IsFrameOf(r, i - 1, o))
  BY <1>1 DEF IsFrameOf
<1>5. \A o : IsFrameOf(q, 1, o) <=> f.kind = "order" /\ f.o = o
  BY <1>1 DEF IsFrameOf
<1>6. \A o \in Orders : Pending(r, o) => Pending(q, o)
  BY <1>1, <1>3 DEF Pending
<1>7. \A o \in Orders : TradesOf(r, o) \subseteq TradesOf(q, o)
  BY <1>1, <1>3 DEF TradesOf
<1>8. \A o \in Orders : ~(f.kind = "order" /\ f.o = o) =>
        (Pending(q, o) <=> Pending(r, o)) /\ TradesOf(q, o) = TradesOf(r, o)
  <2>. SUFFICES ASSUME NEW o \in Orders, ~(f.kind = "order" /\ f.o = o)
                PROVE  (Pending(q, o) => Pending(r, o)) /\ TradesOf(q, o) \subseteq TradesOf(r, o)
    BY <1>6, <1>7
  <2>1. \A i \in 1..Len(q) : IsFrameOf(q, i, o) => i > 1
    BY <1>2, <1>5
  <2>. QED
    BY <1>1, <1>4, <2>1 DEF Pending, TradesOf
<1>9. f.kind = "order" =>
        /\ f.o \in Orders
        /\ Pending(q, f.o)
        /\ Pending(r, f.o) \/ Tells(f, ord[f.o])
        /\ f.status \in Terminal => ~Pending(r, f.o)
        /\ f.trade \in 1..Lots => f.trade \in TradesOf(q, f.o)
        /\ TradesOf(q, f.o) \subseteq TradesOf(r, f.o) \union {f.trade}
  <2>. SUFFICES ASSUME f.kind = "order"
                PROVE  /\ f.o \in Orders
                       /\ Pending(q, f.o)
                       /\ Pending(r, f.o) \/ Tells(f, ord[f.o])
                       /\ f.status \in Terminal => ~Pending(r, f.o)
                       /\ f.trade \in 1..Lots => f.trade \in TradesOf(q, f.o)
                       /\ TradesOf(q, f.o) \subseteq TradesOf(r, f.o) \union {f.trade}
    OBVIOUS
  <2>1. f.o \in Orders
    BY <1>1 DEF Frames, OrderFrames, AccountFrames
  <2>2. Pending(q, f.o)
    BY <1>1, <1>5 DEF Pending
  <2>3. ~Pending(r, f.o) => \A j \in 1..Len(q) : j > 1 => ~IsFrameOf(q, j, f.o)
    BY <1>1, <1>4 DEF Pending
  <2>4. Pending(r, f.o) => ~(\A j \in 1..Len(q) : j > 1 => ~IsFrameOf(q, j, f.o))
    BY <1>1, <1>3 DEF Pending
  <2>5. /\ (\A j \in 1..Len(q) : j > 1 => ~IsFrameOf(q, j, f.o)) => Tells(f, ord[f.o])
        /\ f.status \in Terminal => \A j \in 1..Len(q) : j > 1 => ~IsFrameOf(q, j, f.o)
    BY <1>1 DEF QueueTells
  <2>6. f.trade \in 1..Lots => f.trade \in TradesOf(q, f.o)
    BY <1>1, <1>5 DEF TradesOf
  <2>7. TradesOf(q, f.o) \subseteq TradesOf(r, f.o) \union {f.trade}
    BY <1>1, <1>2, <1>4 DEF TradesOf
  <2>. QED
    BY <2>1, <2>2, <2>3, <2>4, <2>5, <2>6, <2>7
<1>10. f.kind = "account" => PositionPending(r) \/ f.amount = pos
  <2>1. ~PositionPending(r) => \A j \in 1..Len(q) : j > 1 => q[j].kind # "account"
    BY <1>1 DEF PositionPending
  <2>2. f.kind = "account" /\ (\A j \in 1..Len(q) : j > 1 => q[j].kind # "account") => f.amount = pos
    BY <1>1 DEF QueueTells
  <2>. QED
    BY <2>1, <2>2
<1>11. f.kind # "account" => (PositionPending(q) <=> PositionPending(r))
  BY <1>1, <1>2 DEF PositionPending
<1>12. QueueTells(r, ord, pos)
  <2>. SUFFICES ASSUME NEW i \in 1..Len(r)
                PROVE  /\ r[i].kind = "order" =>
                            /\ (\A j \in 1..Len(r) : j > i => ~IsFrameOf(r, j, r[i].o))
                                 => Tells(r[i], ord[r[i].o])
                            /\ r[i].status \in Terminal =>
                                 \A j \in 1..Len(r) : j > i => ~IsFrameOf(r, j, r[i].o)
                       /\ /\ r[i].kind = "account"
                          /\ \A j \in 1..Len(r) : j > i => r[j].kind # "account"
                          => r[i].amount = pos
    BY DEF QueueTells
  <2>1. i + 1 \in 1..Len(q) /\ r[i] = q[i + 1] /\ i \in Nat
    BY <1>1
  <2>2. \A j \in 1..Len(r) : j > i => j + 1 \in 1..Len(q) /\ j + 1 > i + 1
    BY <1>1
  <2>3. \A j \in 1..Len(q) : j > i + 1 => j - 1 \in 1..Len(r) /\ j - 1 > i /\ j > 1
    BY <1>1
  <2>4. (\A j \in 1..Len(r) : j > i => ~IsFrameOf(r, j, r[i].o))
        <=> (\A j \in 1..Len(q) : j > i + 1 => ~IsFrameOf(q, j, q[i + 1].o))
    BY <1>3, <1>4, <2>1, <2>2, <2>3
  <2>5. (\A j \in 1..Len(r) : j > i => r[j].kind # "account")
        => \A j \in 1..Len(q) : j > i + 1 => q[j].kind # "account"
    BY <1>1, <2>3
  <2>6. /\ q[i + 1].kind = "order" =>
             /\ (\A j \in 1..Len(q) : j > i + 1 => ~IsFrameOf(q, j, q[i + 1].o))
                  => Tells(q[i + 1], ord[q[i + 1].o])
             /\ q[i + 1].status \in Terminal =>
                  \A j \in 1..Len(q) : j > i + 1 => ~IsFrameOf(q, j, q[i + 1].o)
        /\ /\ q[i + 1].kind = "account"
           /\ \A j \in 1..Len(q) : j > i + 1 => q[j].kind # "account"
           => q[i + 1].amount = pos
    BY <2>1 DEF QueueTells
  <2>. QED
    BY <2>1, <2>4, <2>5, <2>6
<1>. QED
  BY <1>1, <1>6, <1>7, <1>8, <1>9, <1>10, <1>11, <1>12 DEF f, r

\* Nothing on its way says nothing.
LEMMA EmptyQueue ==
  /\ << >> \in Seq(Frames) /\ ~PositionPending(<< >>)
  /\ \A o : ~Pending(<< >>, o) /\ TradesOf(<< >>, o) = {}
  /\ \A ord : \A pos : QueueTells(<< >>, ord, pos)
<1>1. << >> \in Seq(Frames) /\ Len(<< >>) = 0
  BY EmptySeq
<1>2. \A i \in 1..Len(<< >>) : FALSE
  BY <1>1
<1>. QED
  BY <1>1, <1>2 DEF PositionPending, Pending, TradesOf, QueueTells

----------------------------------------------------------------------------
(* The position *)

LEMMA ExecutedBound ==
  ASSUME NEW ord, NEW S \in SUBSET Orders
  PROVE  /\ IsFiniteSet(Executed(ord, S)) /\ IsFiniteSet(S)
         /\ Cardinality(Executed(ord, S)) \in 0..(Cardinality(S) * Lots)
         /\ Cardinality(S) \in 0..Cardinality(Orders) /\ Cardinality(Orders) \in Nat
<1>1. IsFiniteSet(S) /\ Cardinality(S) <= Cardinality(Orders)
  BY Constants, FS_Subset
<1>2. IsFiniteSet(1..Lots) /\ Cardinality(1..Lots) = Lots
  BY Constants, FS_Interval
<1>3. IsFiniteSet(S \X (1..Lots)) /\ Cardinality(S \X (1..Lots)) = Cardinality(S) * Lots
  BY <1>1, <1>2, FS_Product
<1>4. Executed(ord, S) \in SUBSET (S \X (1..Lots))
  BY DEF Executed
<1>5. IsFiniteSet(Executed(ord, S)) /\ Cardinality(Executed(ord, S)) <= Cardinality(S) * Lots
  BY <1>3, <1>4, FS_Subset
<1>6. Cardinality(S) \in Nat /\ Cardinality(Orders) \in Nat /\ Cardinality(Executed(ord, S)) \in Nat
  BY <1>1, <1>5, Constants, FS_CardinalityType
<1>7. Cardinality(S) * Lots \in Nat
  BY <1>6, Constants
<1>. QED
  BY <1>1, <1>5, <1>6, <1>7

\* Whatever was traded, the position is within its bounds.
LEMMA NetBound ==
  ASSUME NEW ord
  PROVE  Net(ord) \in Amounts /\ 0 \in Amounts
<1>1. Sells \in SUBSET Orders /\ Orders \ Sells \in SUBSET Orders /\ Lots \in Nat
  BY Constants
<1>. DEFINE a == Cardinality(Executed(ord, Orders \ Sells))
            b == Cardinality(Executed(ord, Sells))
            c == Cardinality(Orders \ Sells)
            s == Cardinality(Sells)
            n == Cardinality(Orders)
<1>2. a \in 0..(c * Lots) /\ c \in 0..n /\ n \in Nat
  BY <1>1, ExecutedBound
<1>3. b \in 0..(s * Lots) /\ s \in 0..n
  BY <1>1, ExecutedBound
<1>. HIDE DEF a, b, c, s, n
<1>4. c * Lots <= n * Lots /\ c * Lots \in Nat /\ n * Lots \in Nat /\ s * Lots \in Nat
  <2>1. n - c \in Nat /\ c \in Nat /\ s \in Nat
    BY <1>2, <1>3
  <2>2. (n - c) * Lots \in Nat /\ c * Lots \in Nat /\ n * Lots \in Nat /\ s * Lots \in Nat
    BY <1>1, <1>2, <2>1
  <2>3. n * Lots = c * Lots + (n - c) * Lots
    BY <1>1, <1>2, <2>1
  <2>. QED
    BY <2>2, <2>3
<1>5. a - b \in (0 - s * Lots)..(n * Lots) /\ 0 \in (0 - s * Lots)..(n * Lots)
  BY <1>2, <1>3, <1>4
<1>. QED
  BY <1>5 DEF Net, Amounts, a, b, s, n

\* A trade of an order adds one lot to its side.
LEMMA LotTraded ==
  ASSUME NEW ord \in OrderStates, NEW o \in Orders, ord[o].executed < Lots,
         NEW status
  PROVE  Net([ord EXCEPT ![o] = [status |-> status, executed |-> ord[o].executed + 1]])
         = IF o \in Sells THEN Net(ord) - 1 ELSE Net(ord) + 1
<1>. DEFINE new == [ord EXCEPT ![o] = [status |-> status, executed |-> ord[o].executed + 1]]
            lot == <<o, ord[o].executed + 1>>
<1>1. /\ new[o].executed = ord[o].executed + 1 /\ \A p \in Orders \ {o} : new[p] = ord[p]
      /\ ord[o].executed \in Nat
      /\ \A p \in Orders : ord[p].executed \in Nat
  BY Constants DEF OrderStates
<1>2. ord[o].executed + 1 \in 1..Lots
  BY <1>1, Constants
<1>. HIDE DEF new
<1>3. ASSUME NEW S \in SUBSET Orders, o \in S
      PROVE  Cardinality(Executed(new, S)) = Cardinality(Executed(ord, S)) + 1
  <2>1. lot \in S \X (1..Lots) /\ lot \notin Executed(ord, S)
    BY <1>1, <1>2, <1>3 DEF Executed
  <2>2. Executed(new, S) = Executed(ord, S) \union {lot}
    <3>1. ASSUME NEW p \in S \X (1..Lots)
          PROVE  p[2] <= new[p[1]].executed <=> p[2] <= ord[p[1]].executed \/ p = lot
      <4>1. p[1] \in Orders /\ p[2] \in 1..Lots /\ p = <<p[1], p[2]>>
        OBVIOUS
      <4>2. CASE p[1] = o
        <5>1. p[2] <= ord[o].executed + 1 <=> p[2] <= ord[o].executed \/ p[2] = ord[o].executed + 1
          BY <1>1, <4>1
        <5>2. p = lot <=> p[2] = ord[o].executed + 1
          BY <4>1, <4>2
        <5>. QED
          BY <1>1, <4>2, <5>1, <5>2
      <4>3. CASE p[1] # o
        BY <1>1, <4>1, <4>3
      <4>. QED
        BY <4>2, <4>3
    <3>. QED
      BY <2>1, <3>1 DEF Executed
  <2>3. IsFiniteSet(Executed(ord, S))
    BY ExecutedBound
  <2>. DEFINE T == Executed(ord, S)
  <2>. HIDE DEF T, lot
  <2>4. Cardinality(T \union {lot}) = Cardinality(T) + 1
    <3>1. IsFiniteSet(T) /\ lot \notin T
      BY <2>1, <2>3 DEF T
    <3>. QED BY <3>1, FS_AddElement
  <2>. QED
    BY <2>2, <2>4 DEF T
<1>4. ASSUME NEW S \in SUBSET Orders, o \notin S
      PROVE  Executed(new, S) = Executed(ord, S)
  BY <1>1, <1>4 DEF Executed
<1>5. Sells \in SUBSET Orders /\ Orders \ Sells \in SUBSET Orders
  BY Constants
<1>6. Cardinality(Executed(ord, Sells)) \in Nat /\ Cardinality(Executed(ord, Orders \ Sells)) \in Nat
  BY <1>5, ExecutedBound, FS_CardinalityType
<1>7. CASE o \in Sells
  <2>1. Cardinality(Executed(new, Sells)) = Cardinality(Executed(ord, Sells)) + 1
    BY <1>3, <1>5, <1>7
  <2>2. Executed(new, Orders \ Sells) = Executed(ord, Orders \ Sells)
    BY <1>4, <1>5, <1>7
  <2>. QED
    BY <1>6, <1>7, <2>1, <2>2 DEF Net, new
<1>8. CASE o \notin Sells
  <2>1. Cardinality(Executed(new, Orders \ Sells)) = Cardinality(Executed(ord, Orders \ Sells)) + 1
    BY <1>3, <1>5, <1>8
  <2>2. Executed(new, Sells) = Executed(ord, Sells)
    BY <1>4, <1>5, <1>8
  <2>. QED
    BY <1>6, <1>8, <2>1, <2>2 DEF Net, new
<1>. QED
  BY <1>7, <1>8

\* Any other change of an order leaves the position as it is.
LEMMA NothingTraded ==
  ASSUME NEW ord \in OrderStates, NEW o \in Orders, NEW status
  PROVE  Net([ord EXCEPT ![o] = [status |-> status, executed |-> ord[o].executed]]) = Net(ord)
<1>. DEFINE new == [ord EXCEPT ![o] = [status |-> status, executed |-> ord[o].executed]]
<1>1. \A p \in Orders : new[p].executed = ord[p].executed
  BY DEF OrderStates
<1>2. \A S \in SUBSET Orders : Executed(new, S) = Executed(ord, S)
  <2>. HIDE DEF new
  <2>. QED BY <1>1 DEF Executed
<1>3. Sells \in SUBSET Orders /\ Orders \ Sells \in SUBSET Orders
  BY Constants
<1>. HIDE DEF new
<1>4. Executed(new, Sells) = Executed(ord, Sells)
      /\ Executed(new, Orders \ Sells) = Executed(ord, Orders \ Sells)
  BY <1>2, <1>3
<1>5. Net(new) = Net(ord)
  BY <1>4 DEF Net
<1>. QED
  BY <1>5 DEF new

----------------------------------------------------------------------------
(* The steps *)

LEMMA InitInvariant == Init => IInv
<1>. SUFFICES ASSUME Init PROVE IInv
  OBVIOUS
<1>. USE DEF Init
<1>1. frames = << >> /\ ~pass.clean /\ ~current /\ ~connected
  BY DEF Idle
<1>2. /\ order \in OrderStates
      /\ \A o \in Orders : order[o].status = "none" /\ order[o].executed = 0
  BY Constants DEF OrderStates
<1>3. LifeCycle(order)
  BY <1>2 DEF LifeCycle, Open
<1>4. Net(order) = 0
  <2>1. \A S \in SUBSET Orders : Executed(order, S) = {}
    BY <1>2, Constants DEF Executed
  <2>2. Executed(order, Sells) = {} /\ Executed(order, Orders \ Sells) = {}
    BY <2>1, Constants
  <2>. QED
    <3>1. \A S : S = {} => Cardinality(S) = 0
      BY FS_EmptySet
    <3>2. Cardinality(Executed(order, Sells)) = 0
      BY <2>2, <3>1
    <3>3. Cardinality(Executed(order, Orders \ Sells)) = 0
      BY <2>2, <3>1
    <3>. QED BY <3>2, <3>3 DEF Net
<1>5. Tracker \in Trackers
  <2>1. Absent \in Records
    BY Constants DEF Absent, Records
  <2>2. << >> \in Seq(Orders) /\ Len(<< >>) = 0
    BY EmptySeq
  <2>3. \A i \in 1..Len(<< >>) : FALSE
    BY <2>2
  <2>4. /\ records \in [Orders -> Records] /\ \A o \in Orders : records[o] = Absent
        /\ recency \in Seq(Orders) /\ Len(recency) <= MaxRecords
        /\ \A i \in 1..Len(recency) : FALSE
    BY <2>1, <2>2, <2>3, Constants
  <2>. QED
    BY <2>4 DEF Tracker, Trackers
<1>6. pass \in [at : Steps, open : Seq(Rows), amount : Amounts, clean : BOOLEAN]
  <2>1. << >> \in Seq(Rows) /\ 0 \in Amounts
    BY EmptySeq, NetBound
  <2>. QED
    BY <2>1 DEF Idle, Steps
<1>7. Typed
  BY <1>1, <1>2, <1>5, <1>6, EmptyQueue, NetBound DEF Typed
<1>8. QueueTells(frames, order, position)
  BY <1>1, EmptyQueue
<1>9. RecordEnded(records, frames, order)
  BY DEF RecordEnded, Absent, Terminal
<1>10. FillsKept(records, frames, order, missed)
  <2>1. \A o \in Orders : records[o].fills = {} /\ TradesOf(frames, o) = {} /\ 1..order[o].executed = {}
    BY <1>1, <1>2, EmptyQueue DEF Absent
  <2>. QED
    BY <2>1 DEF FillsKept
<1>11. QuietOffline /\ ViewFollows
  BY <1>1 DEF QuietOffline, ViewFollows
<1>. QED
  BY <1>3, <1>4, <1>7, <1>8, <1>9, <1>10, <1>11 DEF IInv

\* Nothing is both open and ended, and an open order has no terminal record.
LEMMA OpenNotEnded == Open \intersect Terminal = {} /\ "none" \notin Terminal \union Open
  BY DEF Open, Terminal

\* A change of an order at the exchange: a trade of one lot, or none.
LEMMA ChangesKeep ==
  ASSUME IInv, NEW o \in Orders, order[o].status \notin Terminal,
         NEW status \in Statuses, NEW executed \in 0..Lots, NEW trade \in 0..Lots,
         status \in Open => executed < Lots,
         \/ trade = NoTrade /\ executed = order[o].executed
         \/ trade = executed /\ executed = order[o].executed + 1,
         Changes(o, status, executed, trade)
  PROVE  IInv'
<1>. DEFINE s == [status |-> status, executed |-> executed]
            moved == IF trade = NoTrade THEN position
                     ELSE IF o \in Sells THEN position - 1 ELSE position + 1
<1>1. /\ Typed /\ LifeCycle(order) /\ position = Net(order) /\ QuietOffline
      /\ QueueTells(frames, order, position) /\ RecordEnded(records, frames, order)
      /\ FillsKept(records, frames, order, missed) /\ ViewFollows
  BY DEF IInv
<1>2. /\ order' = [order EXCEPT ![o] = s] /\ position' = moved
      /\ connected' = connected /\ pass' = pass /\ current' = current /\ evicted' = evicted
      /\ records' = records /\ recency' = recency /\ shown' = shown
  BY DEF Changes, viewVars
<1>3. /\ order \in OrderStates /\ s \in [status : Statuses, executed : 0..Lots]
      /\ order[o].executed \in 0..Lots /\ order[o].executed \in Nat
  BY <1>1, Constants DEF Typed, OrderStates
<1>4. /\ order' \in OrderStates /\ order'[o] = s
      /\ \A p \in Orders : p # o => order'[p] = order[p]
  BY <1>2, <1>3 DEF OrderStates
<1>5. LifeCycle(order')
  <2>1. status # "none"
    BY DEF Statuses, Open, Terminal
  <2>. QED
    BY <1>1, <1>4, <2>1 DEF LifeCycle
<1>6. position' = Net(order')
  <2>1. CASE trade = NoTrade /\ executed = order[o].executed
    <3>1. order' = [order EXCEPT ![o] = [status |-> status, executed |-> order[o].executed]]
      BY <1>2, <2>1
    <3>. QED
      <4>1. Net([order EXCEPT ![o] = [status |-> status, executed |-> order[o].executed]]) = Net(order)
        BY <1>3, NothingTraded
      <4>2. Net(order') = Net(order)
        BY <3>1, <4>1
      <4>. QED
        BY <1>1, <1>2, <2>1, <4>2
  <2>2. CASE trade = executed /\ executed = order[o].executed + 1
    <3>1. order' = [order EXCEPT ![o] = [status |-> status, executed |-> order[o].executed + 1]]
      BY <1>2, <2>2
    <3>2. trade # NoTrade /\ order[o].executed < Lots
      BY <1>3, <2>2, Constants DEF NoTrade
    <3>3. position' = IF o \in Sells THEN position - 1 ELSE position + 1
      BY <1>2, <3>2
    <3>. QED
      <4>1. Net([order EXCEPT ![o] = [status |-> status, executed |-> order[o].executed + 1]])
              = IF o \in Sells THEN Net(order) - 1 ELSE Net(order) + 1
        BY <1>3, <3>2, LotTraded
      <4>2. Net(order') = IF o \in Sells THEN Net(order) - 1 ELSE Net(order) + 1
        BY <3>1, <4>1
      <4>. QED
        BY <1>1, <3>3, <4>2
  <2>. QED
    BY <2>1, <2>2
<1>7. position' \in Amounts
  BY <1>6, NetBound
<1>8. Tracker' = Tracker
  BY <1>2 DEF Tracker
<1>9. \A p \in Orders : records[p].status \in Terminal => p # o /\ order'[p] = order[p]
  BY <1>1, <1>4 DEF RecordEnded, Tells
<1>10. CASE ~connected
  <2>1. frames' = frames /\ missed' = missed \union {o} /\ frames = << >> /\ ~pass.clean /\ ~current
    BY <1>1, <1>10 DEF Changes, QuietOffline, Typed
  <2>2. Typed'
    BY <1>1, <1>2, <1>4, <1>7, <1>8, <2>1 DEF Typed
  <2>3. QueueTells(frames', order', position')
    BY <2>1, EmptyQueue
  <2>4. RecordEnded(records', frames', order')
    BY <1>1, <1>2, <1>9, <2>1 DEF RecordEnded
  <2>5. FillsKept(records', frames', order', missed')
    BY <1>1, <1>2, <1>4, <2>1 DEF FillsKept
  <2>6. QuietOffline' /\ ViewFollows'
    BY <1>2, <2>1 DEF QuietOffline, ViewFollows
  <2>. QED
    BY <1>5, <1>6, <2>2, <2>3, <2>4, <2>5, <2>6 DEF IInv
<1>11. CASE connected
  <2>. DEFINE f == OrderFrame(o, status, executed, trade)
              a == [kind |-> "account", amount |-> moved]
              q == IF trade = NoTrade THEN frames ELSE Append(frames, a)
  <2>0. frames \in Seq(Frames) /\ a \in Frames
    BY <1>1, <1>2, <1>7 DEF Typed, Frames, AccountFrames
  <2>1. frames' = Append(q, f) /\ missed' = missed
    <3>1. /\ missed' = missed
          /\ frames' = Append(frames \o (IF trade = NoTrade THEN << >> ELSE <<a>>), f)
      BY <1>11 DEF Changes
    <3>2. trade = NoTrade => frames \o (IF trade = NoTrade THEN << >> ELSE <<a>>) = q
      BY <2>0, ConcatEmptySeq
    <3>3. trade # NoTrade => frames \o (IF trade = NoTrade THEN << >> ELSE <<a>>) = q
      BY <2>0, AppendIsConcat
    <3>. QED
      BY <3>1, <3>2, <3>3
  <2>2. /\ q \in Seq(Frames) /\ QueueTells(q, order, position')
        /\ PositionPending(q) \/ (position' = position /\ (PositionPending(q) <=> PositionPending(frames)))
        /\ \A p \in Orders : Pending(q, p) <=> Pending(frames, p)
        /\ \A p \in Orders : TradesOf(q, p) = TradesOf(frames, p)
    <3>1. CASE trade = NoTrade
      BY <1>1, <1>2, <2>0, <3>1
    <3>2. CASE trade # NoTrade
      <4>1. q = Append(frames, [kind |-> "account", amount |-> position'])
        BY <1>2, <3>2
      <4>. HIDE DEF q
      <4>. QED
        BY <1>1, <1>7, <2>0, <4>1, AccountGrows
    <3>. QED
      BY <3>1, <3>2
  <2>. HIDE DEF q, f, a
  <2>3. /\ frames' \in Seq(Frames)
        /\ QueueTells(frames', order', position')
        /\ PositionPending(frames') <=> PositionPending(q)
        /\ \A p \in Orders : Pending(frames', p) <=> p = o \/ Pending(q, p)
        /\ \A p \in Orders : p # o => TradesOf(frames', p) = TradesOf(q, p)
        /\ TradesOf(frames', o) = TradesOf(q, o) \union ({trade} \ {NoTrade})
    <3>1. frames' = Append(q, OrderFrame(o, s.status, s.executed, trade))
      BY <2>1 DEF f
    <3>. DEFINE r == Append(q, OrderFrame(o, s.status, s.executed, trade))
    <3>. HIDE DEF s
    <3>2. /\ r \in Seq(Frames)
          /\ QueueTells(r, [order EXCEPT ![o] = s], position')
          /\ PositionPending(r) <=> PositionPending(q)
          /\ \A p \in Orders : Pending(r, p) <=> p = o \/ Pending(q, p)
          /\ \A p \in Orders : p # o => TradesOf(r, p) = TradesOf(q, p)
          /\ TradesOf(r, o) = TradesOf(q, o) \union ({trade} \ {NoTrade})
      <4>1. q \in Seq(Frames) /\ QueueTells(q, order, position')
        BY <2>2
      <4>2. order \in OrderStates /\ s \in [status : Statuses, executed : 0..Lots]
        BY <1>3
      <4>. QED
        BY <4>1, <4>2, OrderGrows DEF r
    <3>. HIDE DEF r
    <3>3. frames' = r
      BY <3>1 DEF r
    <3>. QED
      BY <1>2, <3>2, <3>3
  <2>4. Typed'
    BY <1>1, <1>2, <1>4, <1>7, <1>8, <2>1, <2>3 DEF Typed
  <2>5. RecordEnded(records', frames', order')
    BY <1>1, <1>2, <1>9, <2>2, <2>3 DEF RecordEnded
  <2>6. FillsKept(records', frames', order', missed')
    <3>. SUFFICES ASSUME NEW p \in Orders \ missed
                  PROVE  records[p].fills \union TradesOf(frames', p) = 1..order'[p].executed
      BY <1>2, <2>1 DEF FillsKept
    <3>1. records[p].fills \union TradesOf(frames, p) = 1..order[p].executed
      BY <1>1 DEF FillsKept
    <3>2. CASE p # o
      BY <1>4, <2>2, <2>3, <3>1, <3>2
    <3>3. CASE p = o /\ trade = NoTrade /\ executed = order[o].executed
      BY <1>4, <2>2, <2>3, <3>1, <3>3
    <3>4. CASE p = o /\ trade = executed /\ executed = order[o].executed + 1
      <4>1. {trade} \ {NoTrade} = {order[o].executed + 1}
        BY <1>3, <3>4 DEF NoTrade
      <4>2. 1..(order[o].executed + 1) = (1..order[o].executed) \union {order[o].executed + 1}
        BY <1>3
      <4>3. order'[o].executed = order[o].executed + 1
        BY <1>4, <3>4
      <4>4. TradesOf(frames', o) = TradesOf(frames, o) \union {order[o].executed + 1}
        BY <2>2, <2>3, <4>1
      <4>. QED
        BY <3>1, <3>4, <4>2, <4>3, <4>4, Zenon
    <3>. QED
      BY <3>2, <3>3, <3>4
  <2>7. QuietOffline'
    BY <1>2, <1>11 DEF QuietOffline
  <2>8. ViewFollows'
    <3>1. \A amount : PositionSeen(amount, frames, position) => PositionSeen(amount, frames', position')
      BY <2>2, <2>3 DEF PositionSeen
    <3>2. \A p \in Orders : p # o => (Pending(frames', p) <=> Pending(frames, p))
      BY <2>2, <2>3
    <3>3. Pending(frames', o)
      BY <2>3
    <3>4. OpenSeen(records, frames, order, evicted) => OpenSeen(records', frames', order', evicted')
      BY <1>2, <1>4, <3>2, <3>3 DEF OpenSeen, OrderSeen
    <3>5. SnapshotSeen(pass.open, frames, order) => SnapshotSeen(pass'.open, frames', order')
      BY <1>2, <1>4, <3>2, <3>3 DEF SnapshotSeen, RowSeen
    <3>. QED
      BY <1>1, <1>2, <3>1, <3>4, <3>5 DEF ViewFollows
  <2>. QED
    BY <1>5, <1>6, <2>3, <2>4, <2>5, <2>6, <2>7, <2>8 DEF IInv
<1>. QED
  BY <1>10, <1>11

LEMMA PlaceKeeps ==
  ASSUME IInv, NEW o \in Orders, Place(o)
  PROVE  IInv'
<1>1. order[o].status = "none" /\ order[o].executed = 0 /\ Changes(o, "NEW", 0, NoTrade)
  BY DEF Place, IInv, LifeCycle
<1>2. /\ order[o].status \notin Terminal /\ "NEW" \in Statuses
      /\ 0 \in 0..Lots /\ NoTrade \in 0..Lots /\ 0 < Lots
  BY <1>1, Constants, OpenNotEnded DEF Statuses, Open, NoTrade
<1>. QED
  BY <1>1, <1>2, ChangesKeep

LEMMA TradeKeeps ==
  ASSUME IInv, NEW o \in Orders, Trade(o)
  PROVE  IInv'
<1>. DEFINE executed == order[o].executed + 1
            status == IF executed = Lots THEN "FILLED" ELSE "PARTIALLY_FILLED"
<1>1. order[o].status \in Open /\ Changes(o, status, executed, executed)
  BY DEF Trade
<1>2. order[o].executed \in 0..Lots /\ order[o].executed < Lots
  BY <1>1 DEF IInv, Typed, OrderStates, LifeCycle
<1>3. executed \in 0..Lots
  BY <1>2, Constants
<1>4. status \in Statuses /\ (status \in Open => executed < Lots)
  BY <1>3, Constants DEF Statuses, Open, Terminal
<1>5. order[o].status \notin Terminal
  BY <1>1, OpenNotEnded
<1>6. executed = order[o].executed + 1
  OBVIOUS
<1>. HIDE DEF executed, status
<1>. QED
  BY <1>1, <1>3, <1>4, <1>5, <1>6, ChangesKeep

LEMMA CancelKeeps ==
  ASSUME IInv, NEW o \in Orders, Cancel(o)
  PROVE  IInv'
<1>1. order[o].status \in Open /\ Changes(o, "CANCELED", order[o].executed, NoTrade)
  BY DEF Cancel
<1>2. order[o].executed \in 0..Lots /\ NoTrade \in 0..Lots
  BY Constants DEF IInv, Typed, OrderStates, NoTrade
<1>3. "CANCELED" \in Statuses /\ "CANCELED" \notin Open /\ order[o].status \notin Terminal
  BY <1>1, OpenNotEnded DEF Statuses, Open, Terminal
<1>. QED
  BY <1>1, <1>2, <1>3, ChangesKeep

\* A frame of an order reaches the tracker.
LEMMA OrderDelivered ==
  ASSUME IInv, Deliver, Head(frames).kind = "order"
  PROVE  IInv'
<1>. DEFINE f == Head(frames)
            q == Tail(frames)
            t == Tracker
            r == ApplyUpdate(t, f)
<1>1. /\ Typed /\ LifeCycle(order) /\ position = Net(order) /\ QuietOffline
      /\ QueueTells(frames, order, position) /\ RecordEnded(records, frames, order)
      /\ FillsKept(records, frames, order, missed) /\ ViewFollows
  BY DEF IInv
<1>2. /\ frames # << >> /\ frames \in Seq(Frames) /\ frames' = q
      /\ order' = order /\ position' = position /\ connected' = connected
      /\ shown' = shown /\ current' = current
      /\ pass' = [pass EXCEPT !.clean = @ /\ pass.at \notin {"ordersServed", "positionsServed"}]
      /\ BecomesTracker(r)
  BY <1>1 DEF Deliver, exchangeVars, Typed
<1>3. /\ q \in Seq(Frames) /\ QueueTells(q, order, position)
      /\ f \in Frames /\ f.o \in Orders /\ Pending(frames, f.o)
      /\ Pending(q, f.o) \/ Tells(f, order[f.o])
      /\ f.status \in Terminal => ~Pending(q, f.o)
      /\ f.trade \in 1..Lots => f.trade \in TradesOf(frames, f.o)
      /\ TradesOf(frames, f.o) \subseteq TradesOf(q, f.o) \union {f.trade}
      /\ TradesOf(q, f.o) \subseteq TradesOf(frames, f.o)
      /\ PositionPending(frames) <=> PositionPending(q)
      /\ \A o \in Orders : o # f.o => (Pending(frames, o) <=> Pending(q, o))
      /\ \A o \in Orders : o # f.o => TradesOf(frames, o) = TradesOf(q, o)
  BY <1>1, <1>2, QueueShrinks
<1>4. f \in OrderFrames
  BY <1>3 DEF Frames, OrderFrames, AccountFrames
<1>5. /\ t \in Trackers /\ t.records = records /\ t.recency = recency /\ t.evicted = {}
      /\ records \in [Orders -> Records] /\ records[f.o] \in Records
  BY <1>1, <1>3 DEF Typed, Tracker, Trackers
<1>6. r \in Trackers /\ IsUpdate(t, f, r)
  <2>. HIDE DEF t, f
  <2>. QED BY <1>4, <1>5, ApplyUpdateUpdates
<1>7. /\ records' = r.records /\ recency' = r.recency
      /\ evicted' = evicted \union r.evicted /\ missed' = missed \union r.evicted
  BY <1>2 DEF BecomesTracker
<1>. HIDE DEF r, t, f, q
<1>8. records[f.o].status \notin Terminal
  BY <1>1, <1>3 DEF RecordEnded
<1>9. /\ records'[f.o] = FoldOrderUpdate(records[f.o], f)
      /\ \A o \in Orders : o # f.o =>
           records'[o] = records[o] \/ (records'[o] = Absent /\ o \in r.evicted)
  BY <1>5, <1>6, <1>7, <1>8 DEF IsUpdate
<1>10. records'[f.o] # Absent /\ Tells(records'[f.o], f)
  BY <1>4, <1>5, <1>9, FoldType
<1>11. Tracker' \in Trackers
  <2>1. /\ r.records \in [Orders -> Records] /\ r.recency \in Seq(Orders)
        /\ \A o \in Orders : r.records[o] # Absent <=> \E i \in 1..Len(r.recency) : r.recency[i] = o
        /\ \A i, j \in 1..Len(r.recency) : r.recency[i] = r.recency[j] => i = j
        /\ Len(r.recency) <= MaxRecords
    BY <1>6 DEF Trackers
  <2>2. Tracker' = [records |-> r.records, recency |-> r.recency, evicted |-> {}]
    BY <1>7 DEF Tracker
  <2>. QED
    BY <2>1, <2>2 DEF Trackers
<1>12. r.evicted \subseteq Orders
  BY <1>6 DEF Trackers
<1>13. /\ pass' \in [at : Steps, open : Seq(Rows), amount : Amounts, clean : BOOLEAN]
       /\ pass'.at = pass.at
       /\ pass'.clean => pass.clean /\ pass.at \notin {"ordersServed", "positionsServed"}
  BY <1>1, <1>2 DEF Typed
<1>14. Typed'
  BY <1>1, <1>2, <1>3, <1>7, <1>11, <1>12, <1>13 DEF Typed
<1>15. QuietOffline'
  BY <1>1, <1>2 DEF QuietOffline
<1>16. RecordEnded(records', frames', order')
  <2>. SUFFICES ASSUME NEW o \in Orders, records'[o].status \in Terminal
                PROVE  Tells(records'[o], order[o]) /\ ~Pending(q, o)
    BY <1>2 DEF RecordEnded
  <2>1. CASE o = f.o
    <3>1. records'[o].status = f.status /\ records'[o].executed = f.executed
      BY <1>10, <2>1 DEF Tells
    <3>2. ~Pending(q, o) /\ Tells(f, order[o])
      BY <1>3, <2>1, <3>1
    <3>. QED
      BY <3>1, <3>2 DEF Tells
  <2>2. CASE o # f.o
    <3>1. records'[o] = records[o]
      BY <1>9, <2>2 DEF Absent, Terminal
    <3>. QED
      BY <1>1, <1>3, <2>2, <3>1 DEF RecordEnded
  <2>. QED
    BY <2>1, <2>2
<1>17. FillsKept(records', frames', order', missed')
  <2>. SUFFICES ASSUME NEW o \in Orders, o \notin missed, o \notin r.evicted
                PROVE  records'[o].fills \union TradesOf(q, o) = 1..order[o].executed
    BY <1>2, <1>7 DEF FillsKept
  <2>1. records[o].fills \union TradesOf(frames, o) = 1..order[o].executed
    BY <1>1 DEF FillsKept
  <2>2. CASE o = f.o
    <3>1. f.trade = NoTrade \/ f.trade \in 1..Lots
      BY <1>4, Constants DEF OrderFrames, NoTrade
    <3>2. TradesOf(frames, o) \subseteq 1..Lots
      BY DEF TradesOf
    <3>3. CASE f.trade = NoTrade
      <4>1. records'[o].fills = records[o].fills
        BY <1>9, <2>2, <3>3 DEF FoldOrderUpdate
      <4>2. NoTrade \notin 1..Lots
        BY Constants DEF NoTrade
      <4>3. TradesOf(frames, o) = TradesOf(q, o)
        <5>1. /\ TradesOf(q, o) \subseteq TradesOf(frames, o)
              /\ TradesOf(frames, o) \subseteq TradesOf(q, o) \union {NoTrade}
          BY <1>3, <2>2, <3>3
        <5>2. NoTrade \notin TradesOf(frames, o)
          BY <3>2, <4>2
        <5>. QED
          BY <5>1, <5>2
      <4>. QED
        BY <2>1, <4>1, <4>3
    <3>4. CASE f.trade \in 1..Lots
      <4>1. f.trade # NoTrade
        BY <3>4, Constants DEF NoTrade
      <4>2. records'[o].fills = records[o].fills \union {f.trade}
        BY <1>9, <2>2, <4>1 DEF FoldOrderUpdate
      <4>3. TradesOf(frames, o) = TradesOf(q, o) \union {f.trade}
        BY <1>3, <2>2, <3>4
      <4>4. (records[o].fills \union {f.trade}) \union TradesOf(q, o)
            = records[o].fills \union (TradesOf(q, o) \union {f.trade})
        OBVIOUS
      <4>. QED
        BY <2>1, <4>2, <4>3, <4>4
    <3>. QED
      BY <3>1, <3>3, <3>4
  <2>3. CASE o # f.o
    BY <1>3, <1>9, <2>1, <2>3
  <2>. QED
    BY <2>2, <2>3
<1>18. OpenSeen(records, frames, order, evicted) => OpenSeen(records', frames', order', evicted')
  <2>. SUFFICES ASSUME NEW o \in Orders, OrderSeen(o, records, frames, order, evicted)
                PROVE  OrderSeen(o, records', q, order, evicted')
    BY <1>2 DEF OpenSeen
  <2>1. CASE o = f.o
    <3>1. Pending(q, o) \/ Tells(records'[o], order[o])
      BY <1>3, <1>10, <2>1 DEF Tells
    <3>. QED
      BY <1>10, <2>1, <3>1 DEF OrderSeen
  <2>2. CASE o # f.o
    BY <1>3, <1>7, <1>9, <2>2 DEF OrderSeen
  <2>. QED
    BY <2>1, <2>2
<1>19. ViewFollows'
  <2>1. \A amount : PositionSeen(amount, frames, position) => PositionSeen(amount, frames', position')
    BY <1>2, <1>3 DEF PositionSeen
  <2>. QED
    BY <1>1, <1>2, <1>13, <1>18, <2>1 DEF ViewFollows
<1>20. QueueTells(frames', order', position')
  BY <1>2, <1>3
<1>21. LifeCycle(order') /\ position' = Net(order')
  BY <1>1, <1>2
<1>. QED
  BY <1>14, <1>15, <1>16, <1>17, <1>19, <1>20, <1>21 DEF IInv

\* A frame of the account sets the amount shown.
LEMMA AccountDelivered ==
  ASSUME IInv, Deliver, Head(frames).kind # "order"
  PROVE  IInv'
<1>. DEFINE f == Head(frames)
            q == Tail(frames)
<1>1. /\ Typed /\ LifeCycle(order) /\ position = Net(order) /\ QuietOffline
      /\ QueueTells(frames, order, position) /\ RecordEnded(records, frames, order)
      /\ FillsKept(records, frames, order, missed) /\ ViewFollows
  BY DEF IInv
<1>2. /\ frames # << >> /\ frames \in Seq(Frames) /\ frames' = q
      /\ order' = order /\ position' = position /\ connected' = connected
      /\ shown' = f.amount /\ current' = current
      /\ records' = records /\ recency' = recency /\ evicted' = evicted /\ missed' = missed
      /\ pass' = [pass EXCEPT !.clean = @ /\ pass.at \notin {"ordersServed", "positionsServed"}]
  BY <1>1 DEF Deliver, exchangeVars, Typed
<1>3. /\ q \in Seq(Frames) /\ QueueTells(q, order, position) /\ f \in Frames
      /\ f.kind = "account" => PositionPending(q) \/ f.amount = position
      /\ \A o \in Orders : Pending(frames, o) <=> Pending(q, o)
      /\ \A o \in Orders : TradesOf(frames, o) = TradesOf(q, o)
  BY <1>1, <1>2, QueueShrinks
<1>4. f.kind = "account" /\ f.amount \in Amounts
  BY <1>3 DEF Frames, OrderFrames, AccountFrames
<1>. HIDE DEF f, q
<1>5. /\ pass' \in [at : Steps, open : Seq(Rows), amount : Amounts, clean : BOOLEAN]
      /\ pass'.at = pass.at
      /\ pass'.clean => pass.clean /\ pass.at \notin {"ordersServed", "positionsServed"}
  BY <1>1, <1>2 DEF Typed
<1>6. Tracker' = Tracker
  BY <1>2 DEF Tracker
<1>7. Typed'
  BY <1>1, <1>2, <1>3, <1>4, <1>5, <1>6 DEF Typed
<1>8. QuietOffline'
  BY <1>1, <1>2 DEF QuietOffline
<1>9. RecordEnded(records', frames', order')
  BY <1>1, <1>2, <1>3 DEF RecordEnded
<1>10. FillsKept(records', frames', order', missed')
  BY <1>1, <1>2, <1>3 DEF FillsKept
<1>11. ViewFollows'
  <2>1. PositionSeen(shown', frames', position')
    BY <1>2, <1>3, <1>4 DEF PositionSeen
  <2>2. OpenSeen(records, frames, order, evicted) => OpenSeen(records', frames', order', evicted')
    BY <1>2, <1>3 DEF OpenSeen, OrderSeen
  <2>. QED
    BY <1>1, <1>2, <1>5, <2>1, <2>2 DEF ViewFollows
<1>12. QueueTells(frames', order', position') /\ LifeCycle(order') /\ position' = Net(order')
  BY <1>1, <1>2, <1>3
<1>. QED
  BY <1>7, <1>8, <1>9, <1>10, <1>11, <1>12 DEF IInv

LEMMA ConnectKeeps ==
  ASSUME IInv, Connect
  PROVE  IInv'
<1>1. /\ connected' = TRUE /\ frames' = frames /\ pass' = pass /\ current' = current
      /\ order' = order /\ position' = position /\ records' = records /\ recency' = recency
      /\ shown' = shown /\ missed' = missed /\ evicted' = evicted
  BY DEF Connect, exchangeVars, viewVars
<1>2. Typed'
  BY <1>1 DEF IInv, Typed, Tracker
<1>3. ViewFollows'
  BY <1>1 DEF IInv, ViewFollows
<1>4. QuietOffline'
  BY <1>1 DEF QuietOffline
<1>. QED
  BY <1>1, <1>2, <1>3, <1>4 DEF IInv

\* What was on its way is lost; nothing is known of the orders it was about.
LEMMA DropKeeps ==
  ASSUME IInv, Drop
  PROVE  IInv'
<1>. DEFINE lost == {frames[i].o : i \in {j \in DOMAIN frames : frames[j].kind = "order"}}
<1>1. /\ connected' = FALSE /\ frames' = << >> /\ current' = FALSE
      /\ pass' = [pass EXCEPT !.clean = FALSE] /\ missed' = missed \union lost
      /\ order' = order /\ position' = position /\ records' = records /\ recency' = recency
      /\ shown' = shown /\ evicted' = evicted
  BY DEF Drop, exchangeVars, viewVars
<1>2. frames \in Seq(Frames) /\ DOMAIN frames = 1..Len(frames)
  BY LenProperties DEF IInv, Typed
<1>3. lost \subseteq Orders
  <2>1. \A i \in 1..Len(frames) : frames[i] \in Frames
    BY <1>2, ElementOfSeq
  <2>2. \A i \in 1..Len(frames) : frames[i].kind = "order" => frames[i].o \in Orders
    BY <2>1 DEF Frames, OrderFrames, AccountFrames
  <2>. QED
    BY <1>2, <2>2
<1>4. \A o : Pending(frames, o) => o \in lost
  BY <1>2 DEF Pending, IsFrameOf
<1>. HIDE DEF lost
<1>5. /\ pass' \in [at : Steps, open : Seq(Rows), amount : Amounts, clean : BOOLEAN]
      /\ pass'.clean = FALSE
  BY <1>1 DEF IInv, Typed
<1>6. Typed'
  BY <1>1, <1>3, <1>5, EmptyQueue DEF IInv, Typed, Tracker
<1>7. QueueTells(frames', order', position')
  BY <1>1, EmptyQueue
<1>8. RecordEnded(records', frames', order')
  BY <1>1, EmptyQueue DEF IInv, RecordEnded
<1>9. FillsKept(records', frames', order', missed')
  <2>. SUFFICES ASSUME NEW o \in Orders, o \notin missed, o \notin lost
                PROVE  records[o].fills \union TradesOf(<< >>, o) = 1..order[o].executed
    BY <1>1 DEF FillsKept
  <2>1. records[o].fills \union TradesOf(frames, o) = 1..order[o].executed
    BY DEF IInv, FillsKept
  <2>2. TradesOf(frames, o) = {}
    BY <1>4 DEF TradesOf, Pending
  <2>3. TradesOf(<< >>, o) = {}
    BY EmptyQueue
  <2>. QED
    BY <2>1, <2>2, <2>3
<1>10. QuietOffline' /\ ViewFollows'
  BY <1>1, <1>5 DEF QuietOffline, ViewFollows
<1>. QED
  BY <1>1, <1>6, <1>7, <1>8, <1>9, <1>10 DEF IInv

\* A step of a pass that leaves the exchange, the stream and the view alone.
LEMMA PassMoves ==
  ASSUME IInv,
         pass' \in [at : Steps, open : Seq(Rows), amount : Amounts, clean : BOOLEAN],
         UNCHANGED <<exchangeVars, connected, frames, viewVars, missed, evicted>>,
         current' \in BOOLEAN, (current' \/ pass'.clean) => connected,
         ViewFollows'
  PROVE  IInv'
<1>1. /\ order' = order /\ position' = position /\ connected' = connected /\ frames' = frames
      /\ records' = records /\ recency' = recency /\ shown' = shown
      /\ missed' = missed /\ evicted' = evicted
  BY DEF exchangeVars, viewVars
<1>2. Typed'
  BY <1>1 DEF IInv, Typed, Tracker
<1>3. QuietOffline'
  BY <1>1 DEF IInv, QuietOffline
<1>. QED
  BY <1>1, <1>2, <1>3 DEF IInv

LEMMA IdleType == /\ Idle \in [at : Steps, open : Seq(Rows), amount : Amounts, clean : BOOLEAN]
                  /\ Idle.at = "idle" /\ Idle.clean = FALSE
<1>1. << >> \in Seq(Rows) /\ 0 \in Amounts
  BY EmptySeq, NetBound
<1>. QED
  BY <1>1 DEF Idle, Steps

LEMMA ReconcileKeeps ==
  ASSUME IInv, Reconcile
  PROVE  IInv'
<1>1. /\ UNCHANGED <<exchangeVars, connected, frames, viewVars, missed, evicted>>
      /\ current' = current /\ pass.at = "idle"
      /\ pass' = [Idle EXCEPT !.at = "orders", !.clean = connected]
  BY DEF Reconcile
<1>2. /\ pass' \in [at : Steps, open : Seq(Rows), amount : Amounts, clean : BOOLEAN]
      /\ pass'.at = "orders" /\ pass'.clean = connected
  <2>1. "orders" \in Steps /\ connected \in BOOLEAN
    BY DEF IInv, Typed, Steps
  <2>. DEFINE began == [Idle EXCEPT !.at = "orders"]
  <2>2. /\ began \in [at : Steps, open : Seq(Rows), amount : Amounts, clean : BOOLEAN]
        /\ began.at = "orders"
    BY <2>1, IdleType
  <2>3. pass' = [began EXCEPT !.clean = connected]
    BY <1>1, IdleType
  <2>. HIDE DEF began
  <2>. QED
    BY <2>1, <2>2, <2>3
<1>3. ViewFollows'
  BY <1>1, <1>2 DEF IInv, ViewFollows, exchangeVars, viewVars
<1>4. current' \in BOOLEAN /\ (current' => connected)
  BY <1>1 DEF IInv, Typed
<1>. QED
  BY <1>1, <1>2, <1>3, <1>4, PassMoves

\* The rows of the snapshot tell every order that is open now.
LEMMA OrdersServedKeeps ==
  ASSUME IInv, OrdersServed
  PROVE  IInv'
<1>. DEFINE open == {o \in Orders : order[o].status \in Open}
            n == Cardinality(open)
<1>1. /\ UNCHANGED <<exchangeVars, connected, frames, viewVars, missed, evicted>>
      /\ current' = current /\ pass.at = "orders"
  BY DEF OrdersServed
<1>2. PICK q \in [1..n -> Orders] :
        /\ {q[i] : i \in DOMAIN q} = open
        /\ pass' = [pass EXCEPT !.at = "ordersServed",
             !.open = [i \in DOMAIN q |->
                         OrderFrame(q[i], order[q[i]].status, order[q[i]].executed, NoTrade)]]
  BY Zenon DEF OrdersServed
<1>. DEFINE rows == [i \in 1..n |-> OrderFrame(q[i], order[q[i]].status, order[q[i]].executed, NoTrade)]
<1>3. n \in Nat
  <2>1. IsFiniteSet(open)
    <3>1. open \in SUBSET Orders
      OBVIOUS
    <3>. HIDE DEF open
    <3>. QED BY <3>1, Constants, FS_Subset
  <2>. HIDE DEF open
  <2>. QED BY <2>1, FS_CardinalityType
<1>4. pass \in [at : Steps, open : Seq(Rows), amount : Amounts, clean : BOOLEAN]
      /\ order \in OrderStates
  BY DEF IInv, Typed
<1>. HIDE DEF n
<1>5. \A i \in 1..n : q[i] \in open
  BY <1>2
<1>6. \A i \in 1..n : rows[i] \in Rows /\ rows[i].o = q[i] /\ Tells(rows[i], order[q[i]])
  <2>. SUFFICES ASSUME NEW i \in 1..n
                PROVE  rows[i] \in Rows /\ rows[i].o = q[i] /\ Tells(rows[i], order[q[i]])
    OBVIOUS
  <2>1. /\ q[i] \in Orders /\ order[q[i]].status \in Open /\ order[q[i]].executed \in 0..Lots
        /\ NoTrade \in 0..Lots
    BY <1>4, <1>5, Constants DEF OrderStates, NoTrade
  <2>2. rows[i] = OrderFrame(q[i], order[q[i]].status, order[q[i]].executed, NoTrade)
    OBVIOUS
  <2>. HIDE DEF rows
  <2>. QED
    BY <2>1, <2>2 DEF OrderFrame, Rows, OrderFrames, Statuses, Tells
<1>7. rows \in Seq(Rows) /\ Len(rows) = n
  <2>1. rows \in [1..n -> Rows]
    <3>1. rows = [i \in 1..n |-> rows[i]]
      OBVIOUS
    <3>. HIDE DEF rows
    <3>. QED BY <1>6, <3>1
  <2>2. rows \in Seq(Rows)
    <3>. HIDE DEF rows
    <3>. QED BY <1>3, <2>1, SeqDef
  <2>3. DOMAIN rows = 1..Len(rows) /\ Len(rows) \in Nat
    <3>. HIDE DEF rows
    <3>. QED BY <2>2, LenProperties
  <2>4. DOMAIN rows = 1..n
    OBVIOUS
  <2>. HIDE DEF rows
  <2>5. \A m \in Nat : 1..m = 1..n => m = n
    <3>. SUFFICES ASSUME NEW m \in Nat, 1..m = 1..n, m # n PROVE FALSE
      OBVIOUS
    <3>1. CASE m < n
      <4>1. n \in 1..n /\ n \notin 1..m
        BY <1>3, <3>1
      <4>. QED BY <4>1
    <3>2. CASE n < m
      <4>1. m \in 1..m /\ m \notin 1..n
        BY <1>3, <3>2
      <4>. QED BY <4>1
    <3>. QED BY <1>3, <3>1, <3>2
  <2>. QED BY <2>2, <2>3, <2>4, <2>5
<1>8. pass' = [pass EXCEPT !.at = "ordersServed", !.open = rows]
  BY <1>2
<1>. HIDE DEF rows
<1>9. /\ pass' \in [at : Steps, open : Seq(Rows), amount : Amounts, clean : BOOLEAN]
      /\ pass'.at = "ordersServed" /\ pass'.clean = pass.clean /\ pass'.open = rows
  BY <1>4, <1>7, <1>8 DEF Steps
<1>10. SnapshotSeen(rows, frames, order)
  <2>. SUFFICES ASSUME NEW o \in Orders, order[o].status \in Open
                PROVE  /\ \E k \in 1..Len(rows) : rows[k].o = o
                       /\ \A k \in 1..Len(rows) : rows[k].o = o => Tells(rows[k], order[o])
    BY DEF SnapshotSeen, RowSeen
  <2>1. \E k \in 1..n : q[k] = o
    BY <1>2
  <2>. QED
    BY <1>6, <1>7, <2>1
<1>11. ViewFollows'
  BY <1>1, <1>9, <1>10 DEF IInv, ViewFollows, exchangeVars, viewVars
<1>12. current' \in BOOLEAN /\ ((current' \/ pass'.clean) => connected)
  BY <1>1, <1>9 DEF IInv, Typed, QuietOffline
<1>. QED
  BY <1>1, <1>9, <1>11, <1>12, PassMoves

\* After the fold the tracker has what the rows tell, unless evicted.
LEMMA OrdersFoldedKeeps ==
  ASSUME IInv, OrdersFolded
  PROVE  IInv'
<1>. DEFINE t == Tracker
            rows == pass.open
            r == Fold(t, rows)
<1>1. /\ Typed /\ LifeCycle(order) /\ position = Net(order) /\ QuietOffline
      /\ QueueTells(frames, order, position) /\ RecordEnded(records, frames, order)
      /\ FillsKept(records, frames, order, missed) /\ ViewFollows
  BY DEF IInv
<1>2. /\ order' = order /\ position' = position /\ connected' = connected
      /\ frames' = frames /\ shown' = shown /\ current' = current
      /\ pass.at = "ordersServed" /\ pass' = [pass EXCEPT !.at = "positions", !.open = << >>]
  BY DEF OrdersFolded, exchangeVars
<1>3. BecomesTracker(r)
  BY DEF OrdersFolded, Fold
<1>4. /\ t \in Trackers /\ rows \in Seq(Rows) /\ t.records = records /\ t.evicted = {}
      /\ pass \in [at : Steps, open : Seq(Rows), amount : Amounts, clean : BOOLEAN]
  BY <1>1 DEF Typed, Tracker
<1>5. /\ records' = r.records /\ recency' = r.recency
      /\ evicted' = evicted \union r.evicted /\ missed' = missed \union r.evicted
  BY <1>3 DEF BecomesTracker
<1>. HIDE DEF t, rows
<1>6. /\ r \in Folded(t)
      /\ \A o \in Orders : \A s :
           /\ t.records[o].status \notin Terminal
           /\ \E k \in 1..Len(rows) : rows[k].o = o
           /\ \A k \in 1..Len(rows) : rows[k].o = o => Tells(rows[k], s)
           => Shows(r, o, s)
  BY <1>4, FoldKeeps
<1>. HIDE DEF r
<1>7. /\ r \in Trackers
      /\ \A o \in Orders : r.records[o].status \in Terminal => r.records[o] = records[o]
      /\ \A o \in Orders : o \notin r.evicted => r.records[o].fills = records[o].fills
  BY <1>4, <1>6 DEF Folded
<1>8. Tracker' \in Trackers /\ r.evicted \subseteq Orders
  <2>1. /\ r.records \in [Orders -> Records] /\ r.recency \in Seq(Orders)
        /\ \A o \in Orders : r.records[o] # Absent <=> \E i \in 1..Len(r.recency) : r.recency[i] = o
        /\ \A i, j \in 1..Len(r.recency) : r.recency[i] = r.recency[j] => i = j
        /\ Len(r.recency) <= MaxRecords /\ r.evicted \subseteq Orders
    BY <1>7 DEF Trackers
  <2>2. Tracker' = [records |-> r.records, recency |-> r.recency, evicted |-> {}]
    BY <1>5 DEF Tracker
  <2>. QED
    BY <2>1, <2>2 DEF Trackers
<1>9. /\ pass' \in [at : Steps, open : Seq(Rows), amount : Amounts, clean : BOOLEAN]
      /\ pass'.at = "positions" /\ pass'.clean = pass.clean
  <2>1. << >> \in Seq(Rows)
    BY EmptySeq
  <2>. QED
    BY <1>2, <1>4, <2>1 DEF Steps
<1>10. Typed'
  BY <1>1, <1>2, <1>5, <1>8, <1>9 DEF Typed
<1>11. QuietOffline'
  BY <1>1, <1>2, <1>9 DEF QuietOffline
<1>12. RecordEnded(records', frames', order')
  BY <1>1, <1>2, <1>5, <1>7 DEF RecordEnded
<1>13. FillsKept(records', frames', order', missed')
  BY <1>1, <1>2, <1>5, <1>7 DEF FillsKept
<1>14. SnapshotSeen(rows, frames, order) => OpenSeen(records', frames', order', evicted')
  <2>. SUFFICES ASSUME NEW o \in Orders, order[o].status \in Open, RowSeen(o, rows, frames, order)
                PROVE  OrderSeen(o, records', frames, order, evicted')
    BY <1>2 DEF SnapshotSeen, OpenSeen
  <2>1. t.records[o].status \notin Terminal
    BY <1>1, <1>4, OpenNotEnded DEF RecordEnded, Tells
  <2>2. Pending(frames, o) \/ Shows(r, o, order[o])
    BY <1>6, <2>1 DEF RowSeen
  <2>. QED
    BY <1>5, <2>2 DEF OrderSeen, Shows
<1>15. ViewFollows'
  BY <1>1, <1>2, <1>9, <1>14 DEF ViewFollows, rows
<1>16. QueueTells(frames', order', position') /\ LifeCycle(order') /\ position' = Net(order')
  BY <1>1, <1>2
<1>. QED
  BY <1>10, <1>11, <1>12, <1>13, <1>15, <1>16 DEF IInv

LEMMA PositionsServedKeeps ==
  ASSUME IInv, PositionsServed
  PROVE  IInv'
<1>1. /\ UNCHANGED <<exchangeVars, connected, frames, viewVars, missed, evicted>>
      /\ current' = current /\ pass.at = "positions"
      /\ pass' = [pass EXCEPT !.at = "positionsServed", !.amount = position]
  BY DEF PositionsServed
<1>2. /\ pass' \in [at : Steps, open : Seq(Rows), amount : Amounts, clean : BOOLEAN]
      /\ pass'.at = "positionsServed" /\ pass'.clean = pass.clean /\ pass'.amount = position
  BY <1>1 DEF IInv, Typed, Steps
<1>3. ViewFollows'
  BY <1>1, <1>2 DEF IInv, ViewFollows, PositionSeen, exchangeVars, viewVars
<1>4. current' \in BOOLEAN /\ ((current' \/ pass'.clean) => connected)
  BY <1>1, <1>2 DEF IInv, Typed, QuietOffline
<1>. QED
  BY <1>1, <1>2, <1>3, <1>4, PassMoves

LEMMA PositionsFoldedKeeps ==
  ASSUME IInv, PositionsFolded
  PROVE  IInv'
<1>1. /\ order' = order /\ position' = position /\ connected' = connected /\ frames' = frames
      /\ records' = records /\ recency' = recency /\ missed' = missed /\ evicted' = evicted
      /\ shown' = pass.amount /\ pass' = Idle /\ current' = pass.clean
      /\ pass.at = "positionsServed"
  BY DEF PositionsFolded, exchangeVars
<1>2. Typed'
  BY <1>1, IdleType DEF IInv, Typed, Tracker, QuietOffline
<1>3. QuietOffline'
  BY <1>1, IdleType DEF IInv, QuietOffline
<1>4. ViewFollows'
  BY <1>1, IdleType DEF IInv, ViewFollows
<1>. QED
  BY <1>1, <1>2, <1>3, <1>4 DEF IInv

LEMMA PassFailsKeeps ==
  ASSUME IInv, PassFails
  PROVE  IInv'
<1>1. /\ UNCHANGED <<exchangeVars, connected, frames, viewVars, missed, evicted>>
      /\ current' = (current /\ pass.clean) /\ pass' = Idle
      /\ pass.at \in {"orders", "ordersServed", "positions", "positionsServed"}
  BY DEF PassFails
<1>2. /\ pass' \in [at : Steps, open : Seq(Rows), amount : Amounts, clean : BOOLEAN]
      /\ pass'.at = "idle" /\ pass'.clean = FALSE
  BY <1>1, IdleType
<1>3. ViewFollows'
  BY <1>1, <1>2 DEF IInv, ViewFollows, exchangeVars, viewVars
<1>4. current' \in BOOLEAN /\ ((current' \/ pass'.clean) => connected)
  BY <1>1, <1>2 DEF IInv, Typed
<1>. QED
  BY <1>1, <1>2, <1>3, <1>4, PassMoves

LEMMA NextInvariant == IInv /\ [Next]_vars => IInv'
<1>. SUFFICES ASSUME IInv, [Next]_vars PROVE IInv'
  OBVIOUS
<1>1. ASSUME NEW o \in Orders, Place(o) PROVE IInv'
  BY <1>1, PlaceKeeps
<1>2. ASSUME NEW o \in Orders, Trade(o) PROVE IInv'
  BY <1>2, TradeKeeps
<1>3. ASSUME NEW o \in Orders, Cancel(o) PROVE IInv'
  BY <1>3, CancelKeeps
<1>4. CASE Deliver
  BY <1>4, OrderDelivered, AccountDelivered
<1>5. CASE Connect
  BY <1>5, ConnectKeeps
<1>6. CASE Drop
  BY <1>6, DropKeeps
<1>7. CASE Reconcile
  BY <1>7, ReconcileKeeps
<1>8. CASE OrdersServed
  BY <1>8, OrdersServedKeeps
<1>9. CASE OrdersFolded
  BY <1>9, OrdersFoldedKeeps
<1>10. CASE PositionsServed
  BY <1>10, PositionsServedKeeps
<1>11. CASE PositionsFolded
  BY <1>11, PositionsFoldedKeeps
<1>12. CASE PassFails
  BY <1>12, PassFailsKeeps
<1>13. CASE UNCHANGED vars
  <2>1. /\ UNCHANGED <<exchangeVars, connected, frames, viewVars, missed, evicted>>
        /\ pass' = pass /\ current' = current
    BY <1>13 DEF vars
  <2>2. ViewFollows'
    BY <2>1 DEF IInv, ViewFollows, exchangeVars, viewVars
  <2>3. /\ pass' \in [at : Steps, open : Seq(Rows), amount : Amounts, clean : BOOLEAN]
        /\ current' \in BOOLEAN /\ ((current' \/ pass'.clean) => connected)
    BY <2>1 DEF IInv, Typed, QuietOffline
  <2>. QED
    BY <2>1, <2>2, <2>3, PassMoves
<1>. QED
  BY <1>1, <1>2, <1>3, <1>4, <1>5, <1>6, <1>7, <1>8, <1>9, <1>10, <1>11, <1>12, <1>13 DEF Next

----------------------------------------------------------------------------
(* The theorems *)

\* The inductive invariant: the trackers, the frames and the rows on their way
\* together account for the exchange's orders and position.
THEOREM ViewInvariant == Spec => []IInv
  BY InitInvariant, NextInvariant, PTL DEF Spec

\* OrderTracker keeps one place in its insertion order for each record and
\* never more than maxRecords, and every amount shown is one the account can
\* have.
THEOREM ViewTypeCorrect == Spec => []TypeOK
<1>1. IInv => TypeOK
  <2>. SUFFICES ASSUME Typed PROVE TypeOK
    BY DEF IInv
  <2>1. /\ Tracker \in Trackers /\ Tracker.records = records /\ Tracker.recency = recency
    BY DEF Typed, Tracker
  <2>2. /\ records \in [Orders -> Records] /\ recency \in Seq(Orders) /\ Len(recency) <= MaxRecords
        /\ \A o \in Orders : records[o] # Absent <=> \E i \in 1..Len(recency) : recency[i] = o
    BY <2>1 DEF Trackers
  <2>3. DOMAIN recency = 1..Len(recency)
    BY <2>2, LenProperties
  <2>4. Len(recency) = Cardinality({o \in Orders : Tracked(o)})
    BY <2>1, RecordsCounted DEF Tracked
  <2>. QED
    BY <2>2, <2>3, <2>4 DEF Typed, TypeOK, Tracked, Records, OrderStates, Steps
<1>. QED
  BY <1>1, ViewInvariant, PTL

\* applyUpdate leaves a terminal record alone, so it must be right when it is
\* made: it tells the order's end, and all its fills if no frame was lost,
\* whatever snapshots, old or new, are folded by reconcile().
THEOREM EndsExact == Spec => []TerminalExact
<1>1. IInv => TerminalExact
  <2>. SUFFICES ASSUME IInv, NEW o \in Orders, records[o].status \in Terminal
                PROVE  /\ records[o].status = order[o].status
                       /\ records[o].executed = order[o].executed
                       /\ o \notin missed => records[o].fills = 1..order[o].executed
    BY DEF TerminalExact
  <2>1. Tells(records[o], order[o]) /\ ~Pending(frames, o)
    BY DEF IInv, RecordEnded
  <2>2. TradesOf(frames, o) = {}
    BY <2>1 DEF TradesOf, Pending
  <2>3. o \notin missed => records[o].fills \union TradesOf(frames, o) = 1..order[o].executed
    BY DEF IInv, FillsKept
  <2>. QED
    BY <2>1, <2>2, <2>3 DEF Tells
<1>. QED
  BY <1>1, ViewInvariant, PTL

\* Once a clean pass of reconcile() ran, and nothing is on its way, the trackers
\* show the exchange's position and every open order that was not evicted.
THEOREM CurrentView == Spec => []ViewCurrent
<1>1. IInv => ViewCurrent
  <2>. SUFFICES ASSUME IInv, current, Quiet
                PROVE  /\ shown = position
                       /\ \A o \in Orders : order[o].status \in Open =>
                            IF Tracked(o)
                            THEN /\ records[o].status = order[o].status
                                 /\ records[o].executed = order[o].executed
                            ELSE o \in evicted
    BY DEF ViewCurrent
  <2>1. frames = << >> /\ pass.at = "idle"
    BY DEF Quiet
  <2>2. PositionSeen(shown, frames, position) /\ OpenSeen(records, frames, order, evicted)
    BY <2>1 DEF IInv, ViewFollows
  <2>3. ~PositionPending(frames) /\ \A o : ~Pending(frames, o)
    BY <2>1, EmptyQueue
  <2>. QED
    BY <2>2, <2>3 DEF PositionSeen, OpenSeen, OrderSeen, Tells, Tracked
<1>. QED
  BY <1>1, ViewInvariant, PTL
=============================================================================
