--------------------------- MODULE RiskDayProofs ----------------------------
(***************************************************************************)
(* Proofs about RiskDay for every set of amounts, every limit, page size   *)
(* and bound: every row of income is counted once and on its own day, a    *)
(* saved trip survives restarts, and only an operator or the day roll      *)
(* clears a trip.                                                          *)
(***************************************************************************)
EXTENDS RiskDay, WellFoundedInduction, SequenceTheorems, TLAPS

----------------------------------------------------------------------------
(* Loops: induction and recursion over the natural numbers, stated over a  *)
(* set or a function instead of a predicate, for the sums.                 *)

\* The relation the library states well-foundedness about, as a set of pairs.
LEMMA LessThanPairs == OpToRel(<, Nat) = {p \in Nat \X Nat : p[1] < p[2]}
  BY DEF OpToRel

\* A nonempty set of natural numbers has a least element.
LEMMA LeastNumber ==
  ASSUME NEW T \in SUBSET Nat, T # {}
  PROVE  \E m \in T : \A k \in T : m <= k
<1>1. IsWellFoundedOn(OpToRel(<, Nat), Nat)
  BY NatLessThanWellFounded
<1>2. PICK m \in T : \A k \in T : ~(<<k, m>> \in OpToRel(<, Nat))
  BY <1>1, WFMin, Zenon
<1>3. \A k \in T : ~(k < m)
  BY <1>2, LessThanPairs
<1>4. \A k \in T : m <= k
  BY <1>3
<1>. QED
  BY <1>4

\* Induction: a set that holds 0 and is closed under successor holds every
\* natural number.
LEMMA NumberInduction ==
  ASSUME NEW S, 0 \in S, \A n \in Nat : n \in S => n + 1 \in S
  PROVE  \A n \in Nat : n \in S
<1>. SUFFICES ASSUME \E n \in Nat : n \notin S PROVE FALSE
  OBVIOUS
<1>. DEFINE D == {n \in Nat : n \notin S}
<1>1. D \in SUBSET Nat /\ D # {}
  OBVIOUS
<1>2. PICK m \in D : \A k \in D : m <= k
  <2>. HIDE DEF D
  <2>. QED BY <1>1, LeastNumber
<1>3. m # 0
  OBVIOUS
<1>4. m - 1 \in Nat /\ m - 1 \notin D
  BY <1>2, <1>3
<1>. QED
  BY <1>3, <1>4

\* f is a run of k iterations of step from start.
IsRun(f, k, start, step) ==
  f[0] = start /\ \A i \in 1..k : f[i] = step[f[i - 1], i]

\* Recursion: n iterations of a step have a result.
LEMMA LoopExists ==
  ASSUME NEW n \in Nat, NEW V, NEW start \in V, NEW step \in [V \X (1..n) -> V]
  PROVE  \E f \in [0..n -> V] : IsRun(f, n, start, step)
<1>. DEFINE S == {k \in Nat : k <= n => \E f \in [0..k -> V] : IsRun(f, k, start, step)}
<1>1. 0 \in S
  <2>. DEFINE g == [i \in 0..0 |-> start]
  <2>1. g \in [0..0 -> V] /\ g[0] = start
    OBVIOUS
  <2>2. IsRun(g, 0, start, step)
    BY <2>1 DEF IsRun
  <2>. QED
    BY <2>1, <2>2
<1>2. ASSUME NEW k \in Nat, k \in S PROVE k + 1 \in S
  <2>. SUFFICES ASSUME k + 1 <= n
                PROVE  \E g \in [0..(k + 1) -> V] : IsRun(g, k + 1, start, step)
    OBVIOUS
  <2>1. PICK f \in [0..k -> V] : IsRun(f, k, start, step)
    BY <1>2
  <2>2. f[k] \in V /\ k + 1 \in 1..n
    BY <2>1
  <2>. DEFINE last == step[f[k], k + 1]
  <2>3. last \in V
    BY <2>2
  <2>. HIDE DEF last
  <2>. DEFINE g == [i \in 0..(k + 1) |-> IF i = k + 1 THEN last ELSE f[i]]
  <2>4. g \in [0..(k + 1) -> V]
    BY <2>1, <2>3
  <2>5. g[k + 1] = last /\ \A i \in 0..k : g[i] = f[i]
    OBVIOUS
  <2>. HIDE DEF g
  <2>6. ASSUME NEW i \in 1..(k + 1) PROVE g[i] = step[g[i - 1], i]
    <3>1. CASE i = k + 1
      <4>1. g[i] = last /\ g[i - 1] = f[k]
        BY <2>5, <3>1
      <4>. QED BY <3>1, <4>1 DEF last
    <3>2. CASE i # k + 1
      <4>1. i \in 1..k /\ i \in 0..k /\ i - 1 \in 0..k
        BY <3>2
      <4>2. f[i] = step[f[i - 1], i]
        BY <2>1, <4>1 DEF IsRun
      <4>. QED BY <2>5, <4>1, <4>2
    <3>. QED
      BY <3>1, <3>2
  <2>7. f[0] = start
    BY <2>1 DEF IsRun
  <2>8. g[0] = start
    BY <2>5, <2>7
  <2>9. IsRun(g, k + 1, start, step)
    BY <2>6, <2>8 DEF IsRun
  <2>. QED
    BY <2>4, <2>9
<1>3. n \in S
  <2>. HIDE DEF S
  <2>. QED BY <1>1, <1>2, NumberInduction
<1>. QED
  BY <1>3

Reasons == {None, "maxDailyLoss", "maxConsecutiveFailures"}

DayState == [day : Int, pnl : Int, failures : Int, breaker : Reasons]

Ledgers == Seq([day : Nat, amount : Int])

TypeOK ==
  /\ today \in Nat
  /\ income \in Ledgers
  /\ \A r \in DOMAIN income : income[r].day <= today
  /\ up \in BOOLEAN
  /\ gw \in DayState /\ gw.day <= today
  /\ feed \in [day : Nat, seen : SUBSET (DOMAIN income)] /\ feed.day <= today
  /\ call.kind \in {None, "poll", "seed"} /\ call.start \in Nat
  /\ call.rows \subseteq DOMAIN income
  /\ saved \in DayState /\ saved.day <= today
  /\ spanned \in BOOLEAN /\ reviewed \in BOOLEAN /\ unsaved \in BOOLEAN

\* A process that does not run fetches nothing.
DownIsQuiet == ~up => call.kind = None /\ ~spanned

\* A snapshot of today was saved, or restored, by a gateway of today.
SavedIsRolled == up /\ saved.day = today => gw.day = today

\* A fetch that midnight did not fall into is one of today, for a feed of
\* today; a seed starts with nothing seen.
FetchOfToday ==
  call.kind # None /\ ~spanned =>
    /\ call.start = today /\ feed.day = today
    /\ \A r \in call.rows : income[r].day >= today
    /\ call.kind = "seed" => feed.seen = {}

\* Gateway and feed may stand on different days.  What the gateway has on the
\* feed's day is the sum of the rows seen; what the feed saw on a day that the
\* gateway has not begun sums to nothing; on a day that the feed has not begun
\* the gateway has counted nothing.
Accounted ==
  SeedDone /\ ~spanned =>
    /\ \A r \in feed.seen : income[r].day = feed.day
    /\ gw.day = feed.day => gw.pnl = Total(feed.seen)
    /\ gw.day < feed.day => Total(feed.seen) = 0
    /\ gw.day > feed.day => gw.pnl = 0

IInv ==
  /\ TypeOK
  /\ DownIsQuiet
  /\ SavedIsRolled
  /\ TripSurvives
  /\ FetchOfToday
  /\ Accounted

----------------------------------------------------------------------------
(* Sums of rows *)

Share(ledger, rows, i) == IF i \in rows THEN ledger[i].amount ELSE 0

\* f holds the partial sums of rows over ledger.
IsPartialSum(f, ledger, rows) ==
  /\ f \in [0..Len(ledger) -> Int]
  /\ f[0] = 0
  /\ \A i \in 1..Len(ledger) : f[i] = f[i - 1] + Share(ledger, rows, i)

\* The rows of a ledger are numbered from 1, and each has a day and an amount.
LEMMA LedgerRows ==
  ASSUME NEW ledger \in Ledgers
  PROVE  /\ Len(ledger) \in Nat /\ DOMAIN ledger = 1..Len(ledger)
         /\ \A i \in 1..Len(ledger) : ledger[i].day \in Nat /\ ledger[i].amount \in Int
<1>1. Len(ledger) \in Nat /\ DOMAIN ledger = 1..Len(ledger)
  BY DEF Ledgers
<1>2. \A i \in 1..Len(ledger) : ledger[i] \in [day : Nat, amount : Int]
  BY ElementOfSeq DEF Ledgers
<1>. QED
  BY <1>1, <1>2

\* The recursion of SumOf has a result, and SumOf is its last partial sum.
LEMMA SumOfIsPartialSum ==
  ASSUME NEW ledger \in Ledgers, NEW rows
  PROVE  \E f : IsPartialSum(f, ledger, rows) /\ SumOf(ledger, rows) = f[Len(ledger)]
<1>. DEFINE n == Len(ledger)
            V == Int
            step == [p \in V \X (1..n) |-> p[1] + Share(ledger, rows, p[2])]
            Def(f) == f = [i \in 0..n |->
                             IF i = 0 THEN 0
                             ELSE f[i - 1] + (IF i \in rows THEN ledger[i].amount ELSE 0)]
            sum == CHOOSE f : Def(f)
<1>0. n \in Nat /\ \A i \in 1..n : Share(ledger, rows, i) \in Int
  BY LedgerRows DEF Share
<1>1. step \in [V \X (1..n) -> V]
  <2>. HIDE DEF n
  <2>. QED BY <1>0
<1>2. PICK g \in [0..n -> V] : IsRun(g, n, 0, step)
  <2>1. n \in Nat /\ 0 \in V
    BY <1>0
  <2>. HIDE DEF n, step, V
  <2>. QED BY <1>1, <2>1, LoopExists
<1>3. g[0] = 0 /\ \A i \in 1..n : g[i] = g[i - 1] + Share(ledger, rows, i)
  <2>1. \A i \in 1..n : i - 1 \in 0..n /\ g[i - 1] \in Int
    <3>. HIDE DEF step, n
    <3>. QED BY <1>0, <1>2
  <2>2. \A i \in 1..n : <<g[i - 1], i>> \in Int \X (1..n)
    BY <2>1
  <2>. HIDE DEF n
  <2>. QED
    BY <1>2, <2>1, <2>2 DEF IsRun
<1>4. Def(g)
  <2>. HIDE DEF n
  <2>. QED BY <1>0, <1>2, <1>3 DEF Share
<1>5. Def(sum)
  BY <1>4
<1>6. SumOf(ledger, rows) = sum[n]
  BY DEF SumOf
<1>7. sum[0] = 0 /\ \A i \in 1..n : sum[i] = sum[i - 1] + Share(ledger, rows, i)
  <2>. HIDE DEF sum, n
  <2>. QED BY <1>0, <1>5 DEF Share
<1>8. sum \in [0..n -> Int]
  <2>1. \A i \in 0..n : sum[i] = g[i]
    <3>. DEFINE S == {i \in Nat : i <= n => sum[i] = g[i]}
    <3>1. 0 \in S
      BY <1>3, <1>7
    <3>2. \A i \in Nat : i \in S => i + 1 \in S
      <4>. HIDE DEF sum, n
      <4>. SUFFICES ASSUME NEW i \in Nat, sum[i] = g[i], i + 1 <= n
                    PROVE  sum[i + 1] = g[i + 1]
        BY <1>0
      <4>1. i + 1 \in 1..n /\ (i + 1) - 1 = i
        BY <1>0
      <4>. QED
        BY <1>3, <1>7, <4>1
    <3>3. \A i \in Nat : i \in S
      <4>. HIDE DEF S
      <4>. QED BY <3>1, <3>2, NumberInduction
    <3>. QED
      BY <3>3, <1>0
  <2>2. sum = [i \in 0..n |-> sum[i]]
    <3>1. DOMAIN sum = 0..n /\ sum = [i \in DOMAIN sum |-> sum[i]]
      <4>. HIDE DEF sum, n
      <4>. QED BY <1>5
    <3>. QED BY <3>1
  <2>. HIDE DEF sum, n
  <2>. QED BY <1>2, <2>1, <2>2
<1>. QED
  <2>. HIDE DEF sum
  <2>1. IsPartialSum(sum, ledger, rows)
    BY <1>7, <1>8 DEF IsPartialSum
  <2>. QED
    BY <1>6, <2>1

\* A sum of rows is a number.
LEMMA SumOfType ==
  ASSUME NEW ledger \in Ledgers, NEW rows
  PROVE  SumOf(ledger, rows) \in Int
<1>1. PICK f : IsPartialSum(f, ledger, rows) /\ SumOf(ledger, rows) = f[Len(ledger)]
  BY SumOfIsPartialSum
<1>2. Len(ledger) \in Nat
  BY DEF Ledgers
<1>. QED
  BY <1>1, <1>2 DEF IsPartialSum

\* No rows sum to nothing.
LEMMA SumOfNone ==
  ASSUME NEW ledger \in Ledgers
  PROVE  SumOf(ledger, {}) = 0
<1>1. PICK f : IsPartialSum(f, ledger, {}) /\ SumOf(ledger, {}) = f[Len(ledger)]
  BY SumOfIsPartialSum
<1>. DEFINE S == {i \in Nat : i <= Len(ledger) => f[i] = 0}
<1>2. Len(ledger) \in Nat
  BY DEF Ledgers
<1>3. 0 \in S
  BY <1>1 DEF IsPartialSum
<1>4. \A i \in Nat : i \in S => i + 1 \in S
  <2>. SUFFICES ASSUME NEW i \in Nat, f[i] = 0, i + 1 <= Len(ledger)
                PROVE  f[i + 1] = 0
    BY <1>2
  <2>1. i + 1 \in 1..Len(ledger) /\ (i + 1) - 1 = i
    BY <1>2
  <2>. QED
    BY <1>1, <2>1 DEF IsPartialSum, Share
<1>5. \A i \in Nat : i \in S
  <2>. HIDE DEF S
  <2>. QED BY <1>3, <1>4, NumberInduction
<1>. QED
  BY <1>1, <1>2, <1>5

\* The sum of two sets without a common row is the sum of their sums.
LEMMA SumOfUnion ==
  ASSUME NEW ledger \in Ledgers, NEW P, NEW Q, P \intersect Q = {}
  PROVE  SumOf(ledger, P \union Q) = SumOf(ledger, P) + SumOf(ledger, Q)
<1>1. PICK f : IsPartialSum(f, ledger, P) /\ SumOf(ledger, P) = f[Len(ledger)]
  BY SumOfIsPartialSum
<1>2. PICK g : IsPartialSum(g, ledger, Q) /\ SumOf(ledger, Q) = g[Len(ledger)]
  BY SumOfIsPartialSum
<1>3. PICK h : IsPartialSum(h, ledger, P \union Q) /\ SumOf(ledger, P \union Q) = h[Len(ledger)]
  BY SumOfIsPartialSum
<1>. DEFINE S == {i \in Nat : i <= Len(ledger) => h[i] = f[i] + g[i]}
<1>4. Len(ledger) \in Nat /\ \A i \in 1..Len(ledger) : ledger[i].amount \in Int
  BY LedgerRows
<1>5. 0 \in S
  BY <1>1, <1>2, <1>3 DEF IsPartialSum
<1>6. \A i \in Nat : i \in S => i + 1 \in S
  <2>. SUFFICES ASSUME NEW i \in Nat, h[i] = f[i] + g[i], i + 1 <= Len(ledger)
                PROVE  h[i + 1] = f[i + 1] + g[i + 1]
    BY <1>4
  <2>1. i + 1 \in 1..Len(ledger) /\ (i + 1) - 1 = i /\ i \in 0..Len(ledger)
    BY <1>4
  <2>2. /\ f[i + 1] = f[i] + Share(ledger, P, i + 1) /\ f[i] \in Int
        /\ g[i + 1] = g[i] + Share(ledger, Q, i + 1) /\ g[i] \in Int
        /\ h[i + 1] = h[i] + Share(ledger, P \union Q, i + 1)
    BY <1>1, <1>2, <1>3, <2>1 DEF IsPartialSum
  <2>3. /\ Share(ledger, P \union Q, i + 1) = Share(ledger, P, i + 1) + Share(ledger, Q, i + 1)
        /\ Share(ledger, P, i + 1) \in Int /\ Share(ledger, Q, i + 1) \in Int
    BY <1>4, <2>1 DEF Share
  <2>. QED
    BY <2>2, <2>3
<1>7. \A i \in Nat : i \in S
  <2>. HIDE DEF S
  <2>. QED BY <1>5, <1>6, NumberInduction
<1>. QED
  BY <1>1, <1>2, <1>3, <1>4, <1>7

\* A row booked later does not change the sum of the rows that were there.
LEMMA SumOfAppend ==
  ASSUME NEW ledger \in Ledgers, NEW row \in [day : Nat, amount : Int],
         NEW rows \in SUBSET (DOMAIN ledger)
  PROVE  SumOf(Append(ledger, row), rows) = SumOf(ledger, rows)
<1>. DEFINE n == Len(ledger)
            longer == Append(ledger, row)
<1>1. /\ n \in Nat /\ longer \in Ledgers /\ Len(longer) = n + 1 /\ DOMAIN ledger = 1..n
      /\ \A i \in 1..n : longer[i] = ledger[i]
  BY DEF Ledgers
<1>. HIDE DEF n, longer
<1>2. PICK f : IsPartialSum(f, ledger, rows) /\ SumOf(ledger, rows) = f[n]
  BY SumOfIsPartialSum DEF n
<1>3. PICK g : IsPartialSum(g, longer, rows) /\ SumOf(longer, rows) = g[n + 1]
  BY <1>1, SumOfIsPartialSum
<1>. DEFINE S == {i \in Nat : i <= n => g[i] = f[i]}
<1>4. 0 \in S
  BY <1>2, <1>3 DEF IsPartialSum
<1>5. \A i \in Nat : i \in S => i + 1 \in S
  <2>. SUFFICES ASSUME NEW i \in Nat, g[i] = f[i], i + 1 <= n
                PROVE  g[i + 1] = f[i + 1]
    BY <1>1
  <2>1. i + 1 \in 1..n /\ i + 1 \in 1..(n + 1) /\ (i + 1) - 1 = i
    BY <1>1
  <2>2. f[i + 1] = f[i] + Share(ledger, rows, i + 1)
    BY <1>2, <2>1 DEF IsPartialSum, n
  <2>3. g[i + 1] = g[i] + Share(longer, rows, i + 1)
    BY <1>1, <1>3, <2>1 DEF IsPartialSum
  <2>. QED
    BY <1>1, <2>1, <2>2, <2>3 DEF Share
<1>6. \A i \in Nat : i \in S
  <2>. HIDE DEF S
  <2>. QED BY <1>4, <1>5, NumberInduction
<1>7. g[n + 1] = g[n] + Share(longer, rows, n + 1)
  <2>1. n + 1 \in 1..(n + 1) /\ (n + 1) - 1 = n
    BY <1>1
  <2>. QED
    BY <1>1, <1>3, <2>1 DEF IsPartialSum
<1>8. g[n] = f[n] /\ f[n] \in Int /\ n + 1 \notin rows
  BY <1>1, <1>2, <1>6 DEF IsPartialSum, n
<1>. QED
  BY <1>2, <1>3, <1>7, <1>8 DEF Share, longer

----------------------------------------------------------------------------
(* The gateway's operators *)

\* Two fields of a day's state change, one after the other.
LEMMA DayStateUpdates ==
  ASSUME NEW g \in DayState
  PROVE  /\ \A d \in Int : [g EXCEPT !.day = d, !.pnl = 0] \in DayState
         /\ \A b \in Reasons : [g EXCEPT !.breaker = b, !.failures = 0] \in DayState
<1>1. ASSUME NEW d \in Int PROVE [g EXCEPT !.day = d, !.pnl = 0] \in DayState
  <2>. DEFINE h == [g EXCEPT !.day = d]
  <2>1. h \in DayState
    BY DEF DayState
  <2>2. [h EXCEPT !.pnl = 0] \in DayState
    <3>. HIDE DEF h
    <3>. QED BY <2>1 DEF DayState
  <2>3. [g EXCEPT !.day = d, !.pnl = 0] = [h EXCEPT !.pnl = 0]
    BY DEF DayState
  <2>. QED
    BY <2>2, <2>3
<1>2. ASSUME NEW b \in Reasons PROVE [g EXCEPT !.breaker = b, !.failures = 0] \in DayState
  <2>. DEFINE h == [g EXCEPT !.breaker = b]
  <2>1. h \in DayState
    BY DEF DayState
  <2>2. [h EXCEPT !.failures = 0] \in DayState
    <3>. HIDE DEF h
    <3>. QED BY <2>1 DEF DayState
  <2>3. [g EXCEPT !.breaker = b, !.failures = 0] = [h EXCEPT !.failures = 0]
    BY DEF DayState
  <2>. QED
    BY <2>2, <2>3
<1>. QED
  BY <1>1, <1>2

\* Rolling moves a gateway to today, without its PnL, and clears a daily-loss
\* trip of an earlier day.
LEMMA RolledFacts ==
  ASSUME TypeOK, NEW g \in DayState
  PROVE  /\ Rolled(g) \in DayState /\ Rolled(g).day = today
         /\ g.day = today => Rolled(g) = g
         /\ g.day # today => Rolled(g).pnl = 0
         /\ g.breaker # None /\ Rolled(g).breaker = None =>
              g.breaker = "maxDailyLoss" /\ g.day # today
<1>1. CASE g.day = today
  BY <1>1 DEF Rolled
<1>2. CASE g.day # today
  <2>1. CASE g.breaker = "maxDailyLoss"
    <3>1. Rolled(g) = [day |-> today, pnl |-> 0, breaker |-> None, failures |-> 0]
      BY <1>2, <2>1 DEF Rolled
    <3>2. None \in Reasons /\ today \in Int
      BY DEF Reasons, TypeOK
    <3>. QED
      BY <1>2, <2>1, <3>1, <3>2 DEF DayState
  <2>2. CASE g.breaker # "maxDailyLoss"
    <3>1. Rolled(g) = [g EXCEPT !.day = today, !.pnl = 0]
      BY <1>2, <2>2 DEF Rolled
    <3>2. today \in Int
      BY DEF TypeOK
    <3>3. Rolled(g).day = today /\ Rolled(g).pnl = 0 /\ Rolled(g).breaker = g.breaker
      BY <3>1 DEF DayState
    <3>4. Rolled(g) \in DayState
      BY <3>1, <3>2, DayStateUpdates
    <3>5. Rolled(g).pnl = 0
      BY <3>1 DEF DayState
    <3>. QED
      BY <1>2, <3>3, <3>4, <3>5
  <2>. QED
    BY <2>1, <2>2
<1>. QED
  BY <1>1, <1>2

\* A trip keeps the day and the PnL, and the reason that was there.
LEMMA TrippedFacts ==
  ASSUME NEW g \in DayState, NEW reason \in {"maxDailyLoss", "maxConsecutiveFailures"}
  PROVE  /\ Tripped(g, reason) \in DayState
         /\ Tripped(g, reason).day = g.day /\ Tripped(g, reason).pnl = g.pnl
         /\ Tripped(g, reason).breaker # None
<1>1. reason \in Reasons /\ reason # None
  BY DEF Reasons, None
<1>. QED
  BY <1>1 DEF Tripped, DayState

\* A realized PnL is added on today's day; it may trip and clears nothing but
\* what the roll clears.
LEMMA RecordFacts ==
  ASSUME TypeOK, NEW g \in DayState, NEW delta \in Int
  PROVE  /\ RecordRealizedPnl(g, delta) \in DayState
         /\ RecordRealizedPnl(g, delta).day = today
         /\ RecordRealizedPnl(g, delta).pnl = (IF g.day = today THEN g.pnl ELSE 0) + delta
         /\ g.breaker # None /\ RecordRealizedPnl(g, delta).breaker = None =>
              g.breaker = "maxDailyLoss" /\ g.day # today
<1>. DEFINE r == [Rolled(g) EXCEPT !.pnl = @ + delta]
<1>1. /\ r \in DayState /\ r.day = today /\ r.pnl = (IF g.day = today THEN g.pnl ELSE 0) + delta
      /\ r.breaker = Rolled(g).breaker
  BY RolledFacts DEF DayState
<1>2. \/ RecordRealizedPnl(g, delta) = r
      \/ RecordRealizedPnl(g, delta) = Tripped(r, "maxDailyLoss")
  BY DEF RecordRealizedPnl
<1>. HIDE DEF r
<1>. QED
  BY <1>1, <1>2, RolledFacts, TrippedFacts

\* Restoring a snapshot of today takes over its PnL and clears no trip.
LEMMA RestoreFacts ==
  ASSUME NEW g \in DayState, NEW state \in DayState
  PROVE  /\ RestoreDailyState(g, state) \in DayState
         /\ state.day # today => RestoreDailyState(g, state) = g
         /\ state.day = today => /\ RestoreDailyState(g, state).day = today
                                 /\ RestoreDailyState(g, state).pnl = state.pnl
         /\ g.breaker # None \/ (state.day = today /\ state.breaker # None) =>
              RestoreDailyState(g, state).breaker # None
<1>1. CASE state.day # today
  BY <1>1 DEF RestoreDailyState
<1>2. CASE state.day = today
  <2>. DEFINE b == IF -state.pnl >= MaxDailyLoss THEN "maxDailyLoss"
                   ELSE IF state.breaker # None THEN state.breaker
                   ELSE g.breaker
  <2>1. RestoreDailyState(g, state) = [state EXCEPT !.breaker = b]
    BY <1>2 DEF RestoreDailyState
  <2>2. /\ b \in Reasons
        /\ g.breaker # None \/ state.breaker # None => b # None
    BY DEF DayState, Reasons, None
  <2>. HIDE DEF b
  <2>. QED
    BY <1>2, <2>1, <2>2 DEF DayState
<1>. QED
  BY <1>1, <1>2

----------------------------------------------------------------------------
(* The steps of the gateway *)

LEMMA InitIInv == Init => IInv
<1>. SUFFICES ASSUME Init PROVE IInv
  OBVIOUS
<1>1. TypeOK
  <2>1. income \in Ledgers /\ DOMAIN income = {}
    BY EmptySeq DEF Init, Ledgers
  <2>2. Fresh(0) \in DayState /\ NotSaved \in DayState
    <3>1. None \in Reasons
      BY DEF Reasons
    <3>. QED
      BY <3>1 DEF Fresh, NotSaved, DayState
  <2>3. gw.day = 0 /\ saved.day = -1
    BY DEF Init, Fresh, NotSaved
  <2>4. /\ call.kind = None /\ call.start = 0 /\ call.rows = {}
        /\ feed.day = 0 /\ feed \in [day : Nat, seen : SUBSET (DOMAIN income)]
    BY <2>1 DEF Init, NoCall
  <2>5. /\ today \in Nat /\ up \in BOOLEAN /\ gw \in DayState /\ saved \in DayState
        /\ spanned \in BOOLEAN /\ reviewed \in BOOLEAN /\ unsaved \in BOOLEAN
    BY <2>2 DEF Init
  <2>6. gw.day <= today /\ saved.day <= today /\ feed.day <= today
    BY <2>3, <2>4 DEF Init
  <2>. QED
    BY <2>1, <2>4, <2>5, <2>6 DEF TypeOK
<1>. QED
  BY <1>1 DEF Init, IInv, DownIsQuiet, SavedIsRolled, TripSurvives, FetchOfToday, Accounted, SeedDone,
       NoCall, None

\* A gateway that rolls still has what the feed saw of today.
LEMMA RollAccounted ==
  ASSUME IInv, gw' = Rolled(gw), UNCHANGED <<today, income, up, feed, call, spanned>>
  PROVE  Accounted'
<1>. SUFFICES ASSUME SeedDone, ~spanned
              PROVE  /\ \A r \in feed.seen : income[r].day = feed.day
                     /\ gw'.day = feed.day => gw'.pnl = Total(feed.seen)
                     /\ gw'.day < feed.day => Total(feed.seen) = 0
                     /\ gw'.day > feed.day => gw'.pnl = 0
  BY DEF Accounted, SeedDone, Total
<1>1. /\ TypeOK /\ gw \in DayState /\ gw.day <= today /\ today \in Nat
      /\ feed.day \in Nat /\ feed.day <= today /\ gw.day \in Int
  BY DEF IInv, TypeOK, DayState
<1>2. /\ gw'.day = today
      /\ gw.day = today => gw' = gw
      /\ gw.day # today => gw'.pnl = 0
  BY <1>1, RolledFacts
<1>3. /\ \A r \in feed.seen : income[r].day = feed.day
      /\ gw.day = feed.day => gw.pnl = Total(feed.seen)
      /\ gw.day < feed.day => Total(feed.seen) = 0
      /\ gw.day > feed.day => gw.pnl = 0
  BY DEF IInv, Accounted
<1>4. CASE gw.day = today
  BY <1>2, <1>3, <1>4
<1>5. CASE gw.day # today
  <2>1. gw.day < today
    BY <1>1, <1>5
  <2>. QED
    BY <1>1, <1>2, <1>3, <1>5, <2>1
<1>. QED
  BY <1>4, <1>5

\* check() rolls the day.
LEMMA CheckIInv == ASSUME IInv, Check PROVE IInv'
<1>1. /\ TypeOK /\ gw' \in DayState /\ gw'.day = today
  <2>1. TypeOK /\ gw \in DayState
    BY DEF IInv, TypeOK
  <2>. QED
    BY <2>1, RolledFacts DEF Check
<1>2. TypeOK'
  <2>1. /\ UNCHANGED <<today, income, up, feed, call, saved, spanned, unsaved>>
        /\ reviewed' = FALSE
    BY DEF Check
  <2>2. gw'.day <= today'
    <3>1. today \in Nat
      BY <1>1 DEF TypeOK
    <3>. QED
      BY <1>1, <2>1, <3>1
  <2>. QED
    BY <1>1, <2>1, <2>2 DEF TypeOK
<1>3. Accounted'
  BY RollAccounted DEF Check
<1>4. SavedIsRolled' /\ TripSurvives'
  BY <1>1 DEF IInv, Check, SavedIsRolled, TripSurvives
<1>. QED
  BY <1>2, <1>3, <1>4 DEF IInv, Check, DownIsQuiet, FetchOfToday

\* A failure or a success leaves the day and the PnL; a failure may trip.
LEMMA OutcomeIInv == ASSUME IInv, RecordFailure \/ RecordSuccess PROVE IInv'
<1>1. /\ gw' \in DayState /\ gw'.day = gw.day /\ gw'.pnl = gw.pnl
      /\ gw.breaker # None => gw'.breaker # None
  <2>0. gw \in DayState
    BY DEF IInv, TypeOK
  <2>1. CASE RecordSuccess
    BY <2>0, <2>1 DEF RecordSuccess, DayState
  <2>2. CASE RecordFailure
    <3>. DEFINE g == [gw EXCEPT !.failures = @ + 1]
    <3>1. g \in DayState /\ g.day = gw.day /\ g.pnl = gw.pnl /\ g.breaker = gw.breaker
      BY <2>0 DEF DayState
    <3>2. gw' = Tripped(g, "maxConsecutiveFailures") \/ gw' = g
      BY <2>2 DEF RecordFailure
    <3>. HIDE DEF g
    <3>. QED
      BY <3>1, <3>2, TrippedFacts
  <2>. QED
    BY <2>1, <2>2
<1>2. UNCHANGED <<today, income, up, feed, call, saved, faults, spanned, reviewed, unsaved>>
  BY DEF RecordFailure, RecordSuccess
<1>3. Accounted'
  BY <1>1, <1>2 DEF IInv, Accounted, SeedDone, Total
<1>. QED
  BY <1>1, <1>2, <1>3 DEF IInv, TypeOK, DownIsQuiet, SavedIsRolled, TripSurvives, FetchOfToday

\* A reset is remembered when the storage still has a trip.
LEMMA ResetBreakerIInv == ASSUME IInv, ResetBreaker PROVE IInv'
<1>1. gw' \in DayState /\ gw'.day = gw.day /\ gw'.pnl = gw.pnl
  <2>1. gw \in DayState /\ None \in Reasons
    BY DEF IInv, TypeOK, Reasons
  <2>2. gw' = [gw EXCEPT !.breaker = None, !.failures = 0]
    BY DEF ResetBreaker
  <2>. QED
    BY <2>1, <2>2, DayStateUpdates DEF DayState
<1>2. Accounted'
  BY <1>1 DEF IInv, Accounted, SeedDone, Total, ResetBreaker
<1>. QED
  BY <1>1, <1>2 DEF IInv, TypeOK, DownIsQuiet, SavedIsRolled, TripSurvives, FetchOfToday, ResetBreaker

\* persistedState() rolls the day; what it saves is what the gateway has.
LEMMA SaveIInv == ASSUME IInv, Save PROVE IInv'
<1>1. /\ TypeOK /\ gw' \in DayState /\ gw'.day = today /\ today \in Nat
  <2>1. TypeOK /\ gw \in DayState /\ today \in Nat
    BY DEF IInv, TypeOK
  <2>. QED
    BY <2>1, RolledFacts DEF Save
<1>2. UNCHANGED <<today, income, up, feed, call, spanned>> /\ saved' = gw' /\ unsaved' = FALSE
  BY DEF Save
<1>3. reviewed' \in BOOLEAN
  BY DEF Save
<1>4. gw'.day <= today'
  BY <1>1, <1>2
<1>5. TypeOK'
  BY <1>1, <1>2, <1>3, <1>4 DEF TypeOK
<1>6. Accounted'
  BY <1>2, RollAccounted DEF Save
<1>7. SavedIsRolled' /\ TripSurvives'
  BY <1>1, <1>2 DEF SavedIsRolled, TripSurvives
<1>. QED
  BY <1>2, <1>5, <1>6, <1>7 DEF IInv, DownIsQuiet, FetchOfToday

----------------------------------------------------------------------------
(* The steps of the feed *)

\* A poll on a new day starts with nothing seen, and whatever the gateway has
\* of that day is nothing.
LEMMA PollIInv == ASSUME IInv, Poll PROVE IInv'
<1>1. /\ TypeOK /\ today \in Nat /\ gw.day \in Int /\ gw.day <= today
      /\ feed.day \in Nat /\ feed.day <= today /\ income \in Ledgers
  BY DEF IInv, TypeOK, DayState
<1>2. /\ UNCHANGED <<today, income, up, gw, saved, spanned, reviewed, unsaved>>
      /\ up /\ call.kind = None
      /\ call'.kind = "poll" /\ call'.start = today /\ call'.rows = {}
      /\ feed' = IF feed.day = today THEN feed ELSE [day |-> today, seen |-> {}]
  BY DEF Poll, Request
<1>3. feed'.day = today /\ feed' \in [day : Nat, seen : SUBSET (DOMAIN income)]
  BY <1>1, <1>2 DEF TypeOK
<1>4. TypeOK'
  <2>1. feed'.day <= today' /\ call'.start \in Nat
    BY <1>1, <1>2, <1>3
  <2>. QED
    BY <1>1, <1>2, <1>3, <2>1 DEF TypeOK
<1>5. FetchOfToday'
  BY <1>2, <1>3 DEF FetchOfToday
<1>6. Accounted'
  <2>. SUFFICES ASSUME ~spanned
                PROVE  /\ \A r \in feed'.seen : income[r].day = feed'.day
                       /\ gw.day = feed'.day => gw.pnl = Total(feed'.seen)
                       /\ gw.day < feed'.day => Total(feed'.seen) = 0
                       /\ gw.day > feed'.day => gw.pnl = 0
    BY <1>2 DEF Accounted, Total
  <2>1. SeedDone
    BY <1>2 DEF SeedDone, None
  <2>2. CASE feed.day = today
    BY <1>2, <2>1, <2>2 DEF IInv, Accounted
  <2>3. CASE feed.day # today
    <3>1. feed'.seen = {} /\ Total({}) = 0
      BY <1>1, <1>2, <2>3, SumOfNone DEF Total
    <3>2. gw.day = today => gw.pnl = 0
      BY <1>1, <2>1, <2>3 DEF IInv, Accounted
    <3>3. ~(gw.day > feed'.day)
      BY <1>1, <1>3
    <3>. QED
      BY <1>3, <3>1, <3>2, <3>3
  <2>. QED
    BY <2>2, <2>3
<1>. QED
  BY <1>2, <1>4, <1>5, <1>6 DEF IInv, DownIsQuiet, SavedIsRolled, TripSurvives

\* The poll's fetch ends: rows of today, counted once whatever was seen.
LEMMA PollRecordedIInv ==
  ASSUME IInv, NEW rows \in SUBSET (DOMAIN income), up, call.kind = "poll",
         ~spanned => \A r \in rows : income[r].day >= today,
         call' = NoCall, PollRecorded(rows), reviewed' \in BOOLEAN,
         UNCHANGED <<today, income, up, saved, faults, spanned, unsaved>>
  PROVE  IInv'
<1>. DEFINE delta == Total(rows \ feed.seen)
<1>1. /\ TypeOK /\ today \in Nat /\ gw \in DayState /\ gw.day \in Int /\ gw.day <= today
      /\ gw.pnl \in Int /\ income \in Ledgers
      /\ feed \in [day : Nat, seen : SUBSET (DOMAIN income)] /\ feed.day <= today
      /\ \A r \in DOMAIN income : income[r].day <= today /\ income[r].day \in Nat
  <2>1. income \in Ledgers
    BY DEF IInv, TypeOK
  <2>2. \A r \in DOMAIN income : income[r].day \in Nat
    BY <2>1, LedgerRows
  <2>. QED
    BY <2>2 DEF IInv, TypeOK, DayState
<1>2. delta \in Int
  BY <1>1, SumOfType DEF Total
<1>3. /\ gw' = IF delta # 0 THEN RecordRealizedPnl(gw, delta) ELSE gw
      /\ feed' = [feed EXCEPT !.seen = @ \union rows]
  BY DEF PollRecorded
<1>4. /\ feed'.day = feed.day /\ feed'.seen = feed.seen \union rows
      /\ feed' \in [day : Nat, seen : SUBSET (DOMAIN income)]
  BY <1>1, <1>3
<1>. HIDE DEF delta
<1>5. /\ gw' \in DayState
      /\ delta # 0 => /\ gw'.day = today
                      /\ gw'.pnl = (IF gw.day = today THEN gw.pnl ELSE 0) + delta
      /\ delta = 0 => gw' = gw
      /\ gw.breaker # None /\ gw'.breaker = None => gw.day # today
  BY <1>1, <1>2, <1>3, RecordFacts
<1>6. gw'.day <= today /\ (gw.day = today => gw'.day = today)
  BY <1>1, <1>5
<1>7. TypeOK'
  <2>1. call'.kind = None /\ call'.start = 0 /\ call'.rows = {}
    BY DEF NoCall
  <2>. QED
    BY <1>1, <1>4, <1>5, <1>6, <2>1 DEF TypeOK
<1>8. SavedIsRolled' /\ TripSurvives'
  BY <1>5, <1>6 DEF IInv, SavedIsRolled, TripSurvives
<1>9. Accounted'
  <2>. SUFFICES ASSUME ~spanned
                PROVE  /\ \A r \in feed'.seen : income[r].day = feed'.day
                       /\ gw'.day = feed'.day => gw'.pnl = Total(feed'.seen)
                       /\ gw'.day < feed'.day => Total(feed'.seen) = 0
                       /\ gw'.day > feed'.day => gw'.pnl = 0
    BY DEF Accounted, Total
  <2>1. SeedDone /\ feed.day = today
    BY DEF IInv, FetchOfToday, SeedDone, None
  <2>2. /\ \A r \in feed.seen : income[r].day = feed.day
        /\ gw.day = feed.day => gw.pnl = Total(feed.seen)
        /\ gw.day < feed.day => Total(feed.seen) = 0
    BY <2>1 DEF IInv, Accounted
  <2>3. \A r \in rows : income[r].day = today
    <3>1. \A r \in rows : income[r].day >= today /\ income[r].day <= today /\ income[r].day \in Nat
      BY <1>1
    <3>. QED
      BY <1>1, <3>1
  <2>4. Total(feed'.seen) = Total(feed.seen) + delta /\ Total(feed.seen) \in Int
    <3>1. feed.seen \intersect (rows \ feed.seen) = {}
          /\ feed.seen \union (rows \ feed.seen) = feed'.seen
      BY <1>4
    <3>2. SumOf(income, feed.seen \union (rows \ feed.seen))
            = SumOf(income, feed.seen) + SumOf(income, rows \ feed.seen)
      BY <1>1, <3>1, SumOfUnion
    <3>. QED
      BY <1>1, <3>1, <3>2, SumOfType DEF delta, Total
  <2>5. \A r \in feed'.seen : income[r].day = feed'.day
    BY <1>4, <2>1, <2>2, <2>3
  <2>6. gw.day < today => Total(feed.seen) = 0
    BY <2>1, <2>2
  <2>7. gw.day = today => gw.pnl = Total(feed.seen)
    BY <2>1, <2>2
  <2>8. CASE delta = 0
    BY <1>1, <1>2, <1>4, <1>5, <1>6, <2>1, <2>4, <2>5, <2>6, <2>7, <2>8
  <2>9. CASE delta # 0
    <3>1. gw'.day = today /\ gw'.pnl = Total(feed.seen) + delta
      BY <1>1, <1>2, <1>5, <2>4, <2>6, <2>7, <2>9
    <3>. QED
      BY <1>1, <1>4, <2>1, <2>4, <2>5, <3>1
  <2>. QED
    BY <2>8, <2>9
<1>. QED
  BY <1>7, <1>8, <1>9 DEF IInv, DownIsQuiet, FetchOfToday, NoCall

\* The seed's fetch ends: the day's PnL is the sum of the day's rows.
LEMMA SeedRecordedIInv ==
  ASSUME IInv, NEW rows \in SUBSET (DOMAIN income), up, call.kind = "seed",
         ~spanned => \A r \in rows : income[r].day >= today,
         call' = NoCall, SeedRecorded(rows), reviewed' \in BOOLEAN,
         UNCHANGED <<today, income, up, saved, faults, spanned, unsaved>>
  PROVE  IInv'
<1>. DEFINE state == [day |-> today, pnl |-> Total(rows), breaker |-> None, failures |-> 0]
<1>1. /\ TypeOK /\ today \in Nat /\ gw \in DayState /\ income \in Ledgers
      /\ feed \in [day : Nat, seen : SUBSET (DOMAIN income)] /\ feed.day <= today
      /\ \A r \in DOMAIN income : income[r].day <= today /\ income[r].day \in Nat
  <2>1. income \in Ledgers
    BY DEF IInv, TypeOK
  <2>2. \A r \in DOMAIN income : income[r].day \in Nat
    BY <2>1, LedgerRows
  <2>. QED
    BY <2>2 DEF IInv, TypeOK, DayState
<1>2. state \in DayState /\ state.day = today /\ state.pnl = Total(rows)
  <2>1. Total(rows) \in Int /\ None \in Reasons
    BY <1>1, SumOfType DEF Total, Reasons
  <2>. QED
    BY <1>1, <2>1 DEF DayState
<1>3. /\ gw' = RestoreDailyState(gw, state)
      /\ feed' = [feed EXCEPT !.seen = @ \union rows]
  BY DEF SeedRecorded
<1>. HIDE DEF state
<1>4. /\ feed'.day = feed.day /\ feed'.seen = feed.seen \union rows
      /\ feed' \in [day : Nat, seen : SUBSET (DOMAIN income)]
  BY <1>1, <1>3
<1>5. /\ gw' \in DayState /\ gw'.day = today /\ gw'.pnl = Total(rows)
      /\ gw.breaker # None => gw'.breaker # None
  BY <1>1, <1>2, <1>3, RestoreFacts
<1>6. TypeOK'
  <2>1. call'.kind = None /\ call'.start = 0 /\ call'.rows = {}
    BY DEF NoCall
  <2>2. gw'.day <= today
    BY <1>1, <1>5
  <2>. QED
    BY <1>1, <1>4, <1>5, <2>1, <2>2 DEF TypeOK
<1>7. SavedIsRolled' /\ TripSurvives'
  BY <1>5 DEF IInv, SavedIsRolled, TripSurvives
<1>8. Accounted'
  <2>. SUFFICES ASSUME ~spanned
                PROVE  /\ \A r \in feed'.seen : income[r].day = feed'.day
                       /\ gw'.day = feed'.day /\ gw'.pnl = Total(feed'.seen)
    <3>1. gw'.day \in Int /\ feed'.day \in Int
      BY <1>4, <1>5 DEF DayState
    <3>. QED
      BY <3>1 DEF Accounted, Total
  <2>1. feed.day = today /\ feed.seen = {}
    BY DEF IInv, FetchOfToday, None
  <2>2. \A r \in rows : income[r].day = today
    <3>1. \A r \in rows : income[r].day >= today /\ income[r].day <= today /\ income[r].day \in Nat
      BY <1>1
    <3>. QED
      BY <1>1, <3>1
  <2>. QED
    BY <1>4, <1>5, <2>1, <2>2
<1>. QED
  BY <1>6, <1>7, <1>8 DEF IInv, DownIsQuiet, FetchOfToday, NoCall

\* A page brings rows of the ledger from the fetch's first day on.  It asks for
\* more, or the fetch ends with the rows collected.
LEMMA PageArrivesCases ==
  ASSUME IInv, PageArrives
  PROVE  \E rows \in SUBSET (DOMAIN income) :
           /\ ~spanned => \A r \in rows : income[r].day >= today
           /\ \/ /\ call'.kind = call.kind /\ call'.start = today /\ call'.rows = rows
                 /\ UNCHANGED <<gw, feed, reviewed>>
              \/ /\ call' = NoCall
                 /\ IF call.kind = "poll" THEN PollRecorded(rows) ELSE SeedRecorded(rows)
                 /\ reviewed' \in BOOLEAN
<1>. DEFINE page == Newest(Asked)
            rows == call.rows \union page
<1>1. page \subseteq DOMAIN income /\ \A r \in page : income[r].day >= call.start
  BY DEF Newest, Asked
<1>2. rows \in SUBSET (DOMAIN income)
  BY <1>1 DEF IInv, TypeOK
<1>3. ~spanned => \A r \in rows : income[r].day >= today
  BY <1>1 DEF PageArrives, IInv, FetchOfToday
<1>4. \/ /\ call' = Request(call.kind, Min(page) - 1, rows)
         /\ UNCHANGED <<gw, feed, reviewed>>
      \/ /\ call' = NoCall
         /\ IF call.kind = "poll" THEN PollRecorded(rows) ELSE SeedRecorded(rows)
         /\ reviewed' = (reviewed /\ gw'.day = gw.day)
  BY DEF PageArrives
<1>. HIDE DEF rows, page
<1>5. \/ /\ call'.kind = call.kind /\ call'.start = today /\ call'.rows = rows
         /\ UNCHANGED <<gw, feed, reviewed>>
      \/ /\ call' = NoCall
         /\ IF call.kind = "poll" THEN PollRecorded(rows) ELSE SeedRecorded(rows)
         /\ reviewed' \in BOOLEAN
  <2>1. CASE call' = Request(call.kind, Min(page) - 1, rows) /\ UNCHANGED <<gw, feed, reviewed>>
    BY <2>1 DEF Request
  <2>2. ASSUME reviewed' = (reviewed /\ gw'.day = gw.day) PROVE reviewed' \in BOOLEAN
    BY <2>2
  <2>. QED
    BY <1>4, <2>1, <2>2
<1>. QED
  BY <1>2, <1>3, <1>5

LEMMA PageArrivesIInv == ASSUME IInv, PageArrives PROVE IInv'
<1>0. /\ up /\ call.kind \in {"poll", "seed"}
      /\ UNCHANGED <<today, income, up, saved, faults, spanned, unsaved>>
  BY DEF IInv, TypeOK, PageArrives
<1>1. PICK rows \in SUBSET (DOMAIN income) :
           /\ ~spanned => \A r \in rows : income[r].day >= today
           /\ \/ /\ call'.kind = call.kind /\ call'.start = today /\ call'.rows = rows
                 /\ UNCHANGED <<gw, feed, reviewed>>
              \/ /\ call' = NoCall
                 /\ IF call.kind = "poll" THEN PollRecorded(rows) ELSE SeedRecorded(rows)
                 /\ reviewed' \in BOOLEAN
  BY PageArrivesCases
<1>2. CASE /\ call'.kind = call.kind /\ call'.start = today /\ call'.rows = rows
           /\ UNCHANGED <<gw, feed, reviewed>>
  <2>1. TypeOK'
    BY <1>0, <1>1, <1>2 DEF IInv, TypeOK
  <2>2. FetchOfToday'
    BY <1>0, <1>1, <1>2 DEF IInv, FetchOfToday, None
  <2>3. Accounted'
    BY <1>0, <1>2 DEF IInv, Accounted, SeedDone, Total
  <2>. QED
    BY <1>0, <1>2, <2>1, <2>2, <2>3 DEF IInv, DownIsQuiet, SavedIsRolled, TripSurvives
<1>3. CASE call' = NoCall /\ call.kind = "poll" /\ PollRecorded(rows) /\ reviewed' \in BOOLEAN
  BY <1>0, <1>1, <1>3, PollRecordedIInv
<1>4. CASE call' = NoCall /\ call.kind = "seed" /\ SeedRecorded(rows) /\ reviewed' \in BOOLEAN
  BY <1>0, <1>1, <1>4, SeedRecordedIInv
<1>. QED
  BY <1>0, <1>1, <1>2, <1>3, <1>4

\* A poll that fails has changed nothing.
LEMMA PollFailsIInv == ASSUME IInv, PollFails PROVE IInv'
<1>1. /\ UNCHANGED <<today, income, up, gw, feed, saved, spanned, reviewed, unsaved>>
      /\ call.kind = "poll" /\ call' = NoCall
  BY DEF PollFails
<1>2. call'.kind = None /\ call'.start = 0 /\ call'.rows = {}
  BY <1>1 DEF NoCall
<1>3. TypeOK'
  BY <1>1, <1>2 DEF IInv, TypeOK
<1>4. Accounted'
  BY <1>1 DEF IInv, Accounted, SeedDone, Total
<1>. QED
  BY <1>1, <1>2, <1>3, <1>4 DEF IInv, DownIsQuiet, SavedIsRolled, TripSurvives, FetchOfToday

----------------------------------------------------------------------------
(* The steps of the host and the exchange *)

\* A row booked now changes nothing that was counted.
LEMMA BookIInv == ASSUME IInv, Book PROVE IInv'
<1>1. UNCHANGED <<today, up, gw, feed, call, saved, faults, spanned, reviewed, unsaved>>
  BY DEF Book
<1>2. PICK a \in Int : income' = Append(income, [day |-> today, amount |-> a])
  BY RiskDayAssumption DEF Book
<1>3. /\ income \in Ledgers /\ today \in Nat /\ Len(income) \in Nat
      /\ DOMAIN income = 1..Len(income)
      /\ \A r \in DOMAIN income : income[r].day <= today
      /\ feed.seen \in SUBSET (DOMAIN income) /\ call.rows \subseteq DOMAIN income
      /\ [day |-> today, amount |-> a] \in [day : Nat, amount : Int]
  <2>1. income \in Ledgers /\ today \in Nat
    BY DEF IInv, TypeOK
  <2>2. Len(income) \in Nat /\ DOMAIN income = 1..Len(income)
    BY <2>1, LedgerRows
  <2>. QED
    BY <2>1, <2>2 DEF IInv, TypeOK
<1>4. /\ income' \in Ledgers /\ DOMAIN income' = 1..(Len(income) + 1)
      /\ \A r \in DOMAIN income : r \in DOMAIN income' /\ income'[r] = income[r]
      /\ income'[Len(income) + 1].day = today
  BY <1>2, <1>3 DEF Ledgers
<1>5. \A r \in DOMAIN income' : income'[r].day <= today
  <2>1. \A r \in DOMAIN income' : r \in DOMAIN income \/ r = Len(income) + 1
    BY <1>3, <1>4
  <2>. QED
    BY <1>3, <1>4, <2>1
<1>6. Total(feed.seen)' = Total(feed.seen)
  BY <1>1, <1>2, <1>3, SumOfAppend DEF Total
<1>7. TypeOK'
  <2>1. call'.rows \subseteq DOMAIN income' /\ feed' \in [day : Nat, seen : SUBSET (DOMAIN income')]
    BY <1>1, <1>3, <1>4 DEF IInv, TypeOK
  <2>. QED
    BY <1>1, <1>4, <1>5, <2>1 DEF IInv, TypeOK
<1>8. FetchOfToday'
  BY <1>1, <1>3, <1>4 DEF IInv, FetchOfToday
<1>9. Accounted'
  BY <1>1, <1>3, <1>4, <1>6 DEF IInv, Accounted, SeedDone
<1>. QED
  BY <1>1, <1>7, <1>8, <1>9 DEF IInv, DownIsQuiet, SavedIsRolled, TripSurvives

\* At midnight every snapshot is of another day, and a fetch under way spans it.
LEMMA MidnightIInv == ASSUME IInv, Midnight PROVE IInv'
<1>1. /\ UNCHANGED <<income, up, gw, feed, call, saved, faults, reviewed, unsaved>>
      /\ today' = today + 1
      /\ spanned' = (spanned \/ call.kind # None)
  BY DEF Midnight
<1>2. /\ today \in Nat /\ gw.day <= today /\ saved.day <= today /\ feed.day <= today
      /\ gw.day \in Int /\ saved.day \in Int /\ feed.day \in Nat /\ income \in Ledgers
      /\ \A r \in DOMAIN income : income[r].day <= today
  BY DEF IInv, TypeOK, DayState
<1>3. /\ today' \in Nat /\ gw.day <= today' /\ saved.day < today' /\ feed.day <= today'
  BY <1>1, <1>2
<1>4. \A r \in DOMAIN income : income[r].day <= today'
  <2>1. \A r \in DOMAIN income : income[r].day \in Nat
    BY <1>2, LedgerRows
  <2>. QED
    BY <1>1, <1>2, <2>1
<1>5. TypeOK'
  <2>1. spanned' \in BOOLEAN
    BY <1>1
  <2>2. UNCHANGED <<income, up, gw, feed, call, saved, reviewed, unsaved>>
    BY <1>1
  <2>3. saved.day <= today'
    BY <1>1, <1>2
  <2>. QED
    BY <1>3, <1>4, <2>1, <2>2, <2>3 DEF IInv, TypeOK
<1>6. SavedIsRolled' /\ TripSurvives'
  <2>1. saved'.day # today'
    BY <1>1, <1>2, <1>3
  <2>. QED
    BY <2>1 DEF SavedIsRolled, TripSurvives
<1>7. FetchOfToday'
  BY <1>1 DEF FetchOfToday
<1>8. Accounted'
  BY <1>1 DEF IInv, Accounted, SeedDone, Total
<1>9. DownIsQuiet'
  BY <1>1 DEF IInv, DownIsQuiet
<1>. QED
  BY <1>5, <1>6, <1>7, <1>8, <1>9 DEF IInv

\* A crash leaves the ledger and the storage.
LEMMA CrashIInv == ASSUME IInv, Crash PROVE IInv'
<1>1. /\ UNCHANGED <<today, income, saved, unsaved>>
      /\ up' = FALSE /\ spanned' = FALSE /\ reviewed' = FALSE /\ call' = NoCall
      /\ gw' = Fresh(0) /\ feed' = [day |-> 0, seen |-> {}]
  BY DEF Crash
<1>2. /\ gw' \in DayState /\ gw'.day = 0
      /\ feed' \in [day : Nat, seen : SUBSET (DOMAIN income')] /\ feed'.day = 0
      /\ call'.kind = None /\ call'.start = 0 /\ call'.rows = {}
  <2>1. None \in Reasons
    BY DEF Reasons
  <2>. QED
    BY <1>1, <2>1 DEF Fresh, DayState, NoCall
<1>3. TypeOK'
  <2>1. gw'.day <= today' /\ feed'.day <= today'
    BY <1>1, <1>2 DEF IInv, TypeOK
  <2>. QED
    BY <1>1, <1>2, <2>1 DEF IInv, TypeOK
<1>. QED
  BY <1>1, <1>2, <1>3 DEF IInv, DownIsQuiet, SavedIsRolled, TripSurvives, FetchOfToday, Accounted, SeedDone

\* A boot restores a trip of today and seeds a feed of today that saw nothing.
LEMMA BootIInv == ASSUME IInv, Boot PROVE IInv'
<1>1. /\ UNCHANGED <<today, income, saved, spanned, reviewed, unsaved>>
      /\ ~up /\ up' = TRUE
      /\ gw' = RestoreDailyState(Fresh(today), saved)
      /\ feed' = [day |-> today, seen |-> {}]
      /\ call'.kind = "seed" /\ call'.start = today /\ call'.rows = {}
  BY DEF Boot, Request
<1>2. today \in Nat /\ saved \in DayState
  BY DEF IInv, TypeOK
<1>3. Fresh(today) \in DayState /\ Fresh(today).day = today
  <2>1. None \in Reasons
    BY DEF Reasons
  <2>. QED
    BY <1>2, <2>1 DEF Fresh, DayState
<1>4. /\ gw' \in DayState /\ gw'.day = today
      /\ saved.day = today /\ saved.breaker # None => gw'.breaker # None
  BY <1>1, <1>2, <1>3, RestoreFacts
<1>5. TypeOK'
  <2>1. gw'.day <= today' /\ feed'.day <= today'
    BY <1>1, <1>2, <1>4
  <2>2. feed' \in [day : Nat, seen : SUBSET (DOMAIN income')]
    BY <1>1, <1>2
  <2>. QED
    BY <1>1, <1>2, <1>4, <2>1, <2>2 DEF IInv, TypeOK
<1>. QED
  BY <1>1, <1>4, <1>5 DEF IInv, DownIsQuiet, SavedIsRolled, TripSurvives, FetchOfToday, Accounted, SeedDone

LEMMA NextIInv == IInv /\ [Next]_vars => IInv'
<1>. SUFFICES ASSUME IInv, [Next]_vars PROVE IInv'
  OBVIOUS
<1>1. CASE Check
  BY <1>1, CheckIInv
<1>2. CASE RecordFailure \/ RecordSuccess
  BY <1>2, OutcomeIInv
<1>3. CASE ResetBreaker
  BY <1>3, ResetBreakerIInv
<1>4. CASE Poll
  BY <1>4, PollIInv
<1>5. CASE PageArrives
  BY <1>5, PageArrivesIInv
<1>6. CASE PollFails
  BY <1>6, PollFailsIInv
<1>7. CASE Book
  BY <1>7, BookIInv
<1>8. CASE Midnight
  BY <1>8, MidnightIInv
<1>9. CASE Save
  BY <1>9, SaveIInv
<1>10. CASE Crash
  BY <1>10, CrashIInv
<1>11. CASE Boot
  BY <1>11, BootIInv
<1>12. CASE UNCHANGED vars
  BY <1>12 DEF vars, IInv, TypeOK, DownIsQuiet, SavedIsRolled, TripSurvives, FetchOfToday, Accounted,
       SeedDone, Total
<1>. QED
  BY <1>1, <1>2, <1>3, <1>4, <1>5, <1>6, <1>7, <1>8, <1>9, <1>10, <1>11, <1>12 DEF Next

\* A step that clears a trip is a reset, or rolls a daily-loss trip of an
\* earlier day away.
LEMMA ClearingStep ==
  ASSUME IInv, [Next]_vars, up, up', gw.breaker # None, gw'.breaker = None
  PROVE  reviewed' \/ (gw.breaker = "maxDailyLoss" /\ gw'.day > gw.day)
<1>0. TypeOK /\ today \in Nat /\ gw \in DayState /\ gw.day \in Int /\ gw.day <= today
  BY DEF IInv, TypeOK, DayState
<1>1. CASE ResetBreaker
  BY <1>1 DEF ResetBreaker
<1>2. CASE gw' = Rolled(gw)
  BY <1>0, <1>2, RolledFacts
<1>3. CASE RecordFailure \/ RecordSuccess
  <2>1. CASE RecordSuccess
    BY <1>0, <2>1 DEF RecordSuccess, DayState
  <2>2. CASE RecordFailure
    <3>. DEFINE g == [gw EXCEPT !.failures = @ + 1]
    <3>1. g \in DayState /\ g.breaker = gw.breaker
      BY <1>0 DEF DayState
    <3>2. gw' = Tripped(g, "maxConsecutiveFailures") \/ gw' = g
      BY <2>2 DEF RecordFailure
    <3>. HIDE DEF g
    <3>. QED
      BY <3>1, <3>2, TrippedFacts
  <2>. QED
    BY <1>3, <2>1, <2>2
<1>4. CASE PageArrives
  <2>1. PICK rows \in SUBSET (DOMAIN income) :
             \/ gw' = gw
             \/ PollRecorded(rows)
             \/ SeedRecorded(rows)
    BY <1>4, PageArrivesCases
  <2>2. income \in Ledgers /\ Total(rows \ feed.seen) \in Int /\ Total(rows) \in Int
    BY SumOfType DEF IInv, TypeOK, Total
  <2>3. CASE PollRecorded(rows)
    <3>1. gw' = gw \/ gw' = RecordRealizedPnl(gw, Total(rows \ feed.seen))
      BY <2>3 DEF PollRecorded
    <3>2. gw' = RecordRealizedPnl(gw, Total(rows \ feed.seen))
      BY <3>1
    <3>3. gw'.day = today /\ gw.breaker = "maxDailyLoss" /\ gw.day # today
      BY <1>0, <2>2, <3>2, RecordFacts
    <3>. QED
      BY <1>0, <3>3
  <2>4. CASE SeedRecorded(rows)
    <3>. DEFINE state == [day |-> today, pnl |-> Total(rows), breaker |-> None, failures |-> 0]
    <3>1. state \in DayState
      <4>1. None \in Reasons
        BY DEF Reasons
      <4>. QED
        BY <1>0, <2>2, <4>1 DEF DayState
    <3>2. gw' = RestoreDailyState(gw, state)
      BY <2>4 DEF SeedRecorded
    <3>. HIDE DEF state
    <3>. QED
      BY <1>0, <3>1, <3>2, RestoreFacts
  <2>. QED
    BY <2>1, <2>3, <2>4
<1>5. CASE Boot \/ Crash
  BY <1>5 DEF Boot, Crash
<1>. QED
  BY <1>1, <1>2, <1>3, <1>4, <1>5
  DEF Next, Check, Save, Poll, PollFails, Book, Midnight, vars

----------------------------------------------------------------------------
(* The theorems *)

\* Every state that host, gateway, feed and exchange reach satisfies the
\* invariant.
THEOREM DayInvariant == Spec => []IInv
<1>. QED
  BY InitIInv, NextIInv, PTL DEF Spec

\* Once the seed is done, the day's PnL is the sum of the rows the feed has
\* seen, all of that day, whatever pages, failures and crashes came before,
\* unless midnight fell into a request of this process.
THEOREM EveryRowOnce == Spec => []CountedOnce
<1>1. IInv => CountedOnce
  BY DEF IInv, Accounted, CountedOnce
<1>. QED
  BY <1>1, DayInvariant, PTL

\* A trip that was saved today is there after any number of restarts.
THEOREM TripOutlivesRestarts == Spec => []TripSurvives
<1>1. IInv => TripSurvives
  BY DEF IInv
<1>. QED
  BY <1>1, DayInvariant, PTL

\* In a running process only an operator clears a trip, or the roll of the day
\* when it was for the daily loss.
THEOREM ClearedByReview == Spec => OnlyReviewClears
<1>1. IInv /\ [Next]_vars =>
        [up /\ up' /\ gw.breaker # None /\ gw'.breaker = None =>
           \/ reviewed'
           \/ gw.breaker = "maxDailyLoss" /\ gw'.day > gw.day]_vars
  BY ClearingStep
<1>. QED
  BY <1>1, DayInvariant, PTL DEF Spec, OnlyReviewClears
=============================================================================
