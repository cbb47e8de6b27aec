-------------------------- MODULE BookEngineProofs --------------------------
(***************************************************************************)
(* Proofs about BookEngine for every number of watches, every bound and    *)
(* every buffer size: its type invariant, and that a book in sync carries  *)
(* every update of the exchange up to its lastUpdateId (BookExact).        *)
(***************************************************************************)
EXTENDS BookEngine, WellFoundedInduction, FiniteSetTheorems, SequenceTheorems, TLAPS

----------------------------------------------------------------------------
(* Loops: induction and recursion over the natural numbers, stated over a  *)
(* set or a function instead of a predicate, for OrderBook's loops.        *)

\* The relation the library states well-foundedness about, as a set of pairs.
LEMMA LessThanPairs == OpToRel(<, Nat) = {p \in Nat \X Nat : p[1] < p[2]}
  BY DEF OpToRel

\* A nonempty set of natural numbers has a least element.
LEMMA LeastNumber ==
  ASSUME NEW T \in SUBSET Nat, T # {}
  PROVE  \E m \in T : \A k \in T : m <= k
<1>1. IsWellFoundedOn(OpToRel(<, Nat), Nat)
  BY NatLessThanWellFounded
<1>2. PICK m \in T : \A k \in T : ~(<<k, m>> \in OpToRel(<, Nat))
  BY <1>1, WFMin, Zenon
<1>3. \A k \in T : ~(k < m)
  BY <1>2, LessThanPairs
<1>4. \A k \in T : m <= k
  BY <1>3
<1>. QED
  BY <1>4

\* Induction: a set that holds 0 and is closed under successor holds every
\* natural number.
LEMMA NumberInduction ==
  ASSUME NEW S, 0 \in S, \A n \in Nat : n \in S => n + 1 \in S
  PROVE  \A n \in Nat : n \in S
<1>. SUFFICES ASSUME \E n \in Nat : n \notin S PROVE FALSE
  OBVIOUS
<1>. DEFINE D == {n \in Nat : n \notin S}
<1>1. D \in SUBSET Nat /\ D # {}
  OBVIOUS
<1>2. PICK m \in D : \A k \in D : m <= k
  <2>. HIDE DEF D
  <2>. QED BY <1>1, LeastNumber
<1>3. m # 0
  OBVIOUS
<1>4. m - 1 \in Nat /\ m - 1 \notin D
  BY <1>2, <1>3
<1>. QED
  BY <1>3, <1>4

\* The invariant of a loop: what holds of the state at the start, and is kept
\* by each of the n iterations, holds at the end.
LEMMA LoopInvariant ==
  ASSUME NEW n \in Nat, NEW f, NEW V, f[0] \in V,
         \A i \in 1..n : f[i - 1] \in V => f[i] \in V
  PROVE  f[n] \in V
<1>. DEFINE S == {i \in Nat : i <= n => f[i] \in V}
<1>1. 0 \in S
  OBVIOUS
<1>2. \A i \in Nat : i \in S => i + 1 \in S
  <2>. SUFFICES ASSUME NEW i \in Nat, i \in S, i + 1 <= n
                PROVE  f[i + 1] \in V
    OBVIOUS
  <2>1. i + 1 \in 1..n /\ (i + 1) - 1 = i /\ f[i] \in V
    OBVIOUS
  <2>. QED
    BY <2>1
<1>3. n \in S
  <2>. HIDE DEF S
  <2>. QED BY <1>1, <1>2, NumberInduction
<1>. QED
  BY <1>3

\* f is a run of k iterations of step from start.
IsRun(f, k, start, step) ==
  f[0] = start /\ \A i \in 1..k : f[i] = step[f[i - 1], i]

\* Recursion: n iterations of a step have a result.
LEMMA LoopExists ==
  ASSUME NEW n \in Nat, NEW V, NEW start \in V, NEW step \in [V \X (1..n) -> V]
  PROVE  \E f \in [0..n -> V] : IsRun(f, n, start, step)
<1>. DEFINE S == {k \in Nat : k <= n => \E f \in [0..k -> V] : IsRun(f, k, start, step)}
<1>1. 0 \in S
  <2>. DEFINE g == [i \in 0..0 |-> start]
  <2>1. g \in [0..0 -> V] /\ g[0] = start
    OBVIOUS
  <2>2. IsRun(g, 0, start, step)
    BY <2>1 DEF IsRun
  <2>. QED
    BY <2>1, <2>2
<1>2. ASSUME NEW k \in Nat, k \in S PROVE k + 1 \in S
  <2>. SUFFICES ASSUME k + 1 <= n
                PROVE  \E g \in [0..(k + 1) -> V] : IsRun(g, k + 1, start, step)
    OBVIOUS
  <2>1. PICK f \in [0..k -> V] : IsRun(f, k, start, step)
    BY <1>2
  <2>2. f[k] \in V /\ k + 1 \in 1..n
    BY <2>1
  <2>. DEFINE last == step[f[k], k + 1]
  <2>3. last \in V
    BY <2>2
  <2>. HIDE DEF last
  <2>. DEFINE g == [i \in 0..(k + 1) |-> IF i = k + 1 THEN last ELSE f[i]]
  <2>4. g \in [0..(k + 1) -> V]
    BY <2>1, <2>3
  <2>5. g[k + 1] = last /\ \A i \in 0..k : g[i] = f[i]
    OBVIOUS
  <2>. HIDE DEF g
  <2>6. ASSUME NEW i \in 1..(k + 1) PROVE g[i] = step[g[i - 1], i]
    <3>1. CASE i = k + 1
      <4>1. g[i] = last /\ g[i - 1] = f[k]
        BY <2>5, <3>1
      <4>. QED BY <3>1, <4>1 DEF last
    <3>2. CASE i # k + 1
      <4>1. i \in 1..k /\ i \in 0..k /\ i - 1 \in 0..k
        BY <3>2
      <4>2. f[i] = step[f[i - 1], i]
        BY <2>1, <4>1 DEF IsRun
      <4>. QED BY <2>5, <4>1, <4>2
    <3>. QED
      BY <3>1, <3>2
  <2>7. f[0] = start
    BY <2>1 DEF IsRun
  <2>8. g[0] = start
    BY <2>5, <2>7
  <2>9. IsRun(g, k + 1, start, step)
    BY <2>6, <2>8 DEF IsRun
  <2>. QED
    BY <2>4, <2>9
<1>3. n \in S
  <2>. HIDE DEF S
  <2>. QED BY <1>1, <1>2, NumberInduction
<1>. QED
  BY <1>3

----------------------------------------------------------------------------
(* The data *)

\* The diffs of the exchange's first x updates.
KnownDiffs(x) == {d \in Diffs : d.u <= x}

\* The books a client that has heard of the first x updates may hold: one that
\* is in sync has every update up to its own last one.
GoodBooks(x) ==
  {b \in Books : /\ b.last <= x
                 /\ IsSynced(b) => b.content = 1 .. b.last}

GoodManagedBooks(x) ==
  {m \in ManagedBooks : /\ m.book \in GoodBooks(x)
                        /\ m.st = "live" => IsSynced(m.book)
                        /\ m.buf \in Seq(KnownDiffs(x))}

----------------------------------------------------------------------------
(* The book's operators *)

\* applyDiff keeps a book good.
LEMMA ApplyDiffGood ==
  ASSUME NEW x \in Nat, NEW b \in GoodBooks(x), NEW d \in KnownDiffs(x)
  PROVE  ApplyDiff(b, d) \in GoodBooks(x)
<1>0. b \in Books /\ d \in Diffs /\ d.u <= x /\ b.last <= x
  BY DEF GoodBooks, KnownDiffs
<1>1. CASE ~b.synced
  BY <1>1 DEF ApplyDiff
<1>2. CASE b.synced /\ ~Accepts(b, d)
  <2>1. ApplyDiff(b, d) = [b EXCEPT !.desynced = TRUE]
    BY <1>2 DEF ApplyDiff
  <2>. QED
    BY <1>0, <2>1 DEF GoodBooks, Books, IsSynced
<1>3. CASE Accepts(b, d) /\ Stale(b, d)
  BY <1>3 DEF ApplyDiff, Accepts
<1>4. CASE Accepts(b, d) /\ ~Stale(b, d)
  <2>1. ApplyDiff(b, d) = ApplyDiffUngated(b, d)
    BY <1>4 DEF ApplyDiff, Accepts
  <2>2. d.U <= b.last + 1 /\ b.last < d.u /\ d.U >= 1 /\ d.U \in Nat /\ d.u \in Nat
    BY <1>0, <1>4 DEF Accepts, Stale, Gap, Diffs, Books
  <2>3. ApplyDiffUngated(b, d) \in Books
    <3>1. b.content \union d.U .. d.u \in SUBSET Nat
      BY <1>0, <2>2 DEF Books
    <3>. QED
      BY <1>0, <2>2, <3>1 DEF ApplyDiffUngated, Books
  <2>4. ApplyDiffUngated(b, d).last = d.u
    BY <1>0 DEF ApplyDiffUngated, Books
  <2>5. IsSynced(ApplyDiffUngated(b, d)) => IsSynced(b)
    BY <1>0 DEF ApplyDiffUngated, Books, IsSynced
  <2>6. ApplyDiffUngated(b, d).content = b.content \union d.U .. d.u
    BY <1>0 DEF ApplyDiffUngated, Books
  <2>7. (1 .. b.last) \union (d.U .. d.u) = 1 .. d.u
    BY <1>0, <2>2 DEF Books
  <2>. QED
    BY <1>0, <2>1, <2>3, <2>4, <2>5, <2>6, <2>7 DEF GoodBooks
<1>. QED
  BY <1>1, <1>2, <1>3, <1>4 DEF Accepts

\* A diff that applies leaves a book that was in sync in sync.
LEMMA AcceptedStaysSynced ==
  ASSUME NEW b \in Books, NEW d \in Diffs, IsSynced(b), Accepts(b, d)
  PROVE  IsSynced(ApplyDiff(b, d))
  BY DEF ApplyDiff, ApplyDiffUngated, Books, IsSynced, Accepts

\* The buffer keeps its bound by dropping its oldest diff.
LEMMA PushDiffType ==
  ASSUME NEW D, NEW buf \in Seq(D), NEW d \in D
  PROVE  PushDiff(buf, d) \in Seq(D)
<1>1. Append(buf, d) \in Seq(D) /\ Append(buf, d) # << >>
  BY AppendProperties
<1>2. Tail(Append(buf, d)) \in Seq(D)
  BY <1>1, HeadTailProperties
<1>. QED
  BY <1>1, <1>2 DEF PushDiff

\* receiveDiff keeps a managed book good.
LEMMA ReceiveDiffGood ==
  ASSUME NEW x \in Nat, NEW m \in GoodManagedBooks(x), NEW d \in KnownDiffs(x)
  PROVE  ReceiveDiff(m, d) \in GoodManagedBooks(x)
<1>0. m \in ManagedBooks /\ m.book \in GoodBooks(x) /\ m.buf \in Seq(KnownDiffs(x))
  BY DEF GoodManagedBooks
<1>d. d \in Diffs /\ KnownDiffs(x) \subseteq Diffs
  BY DEF KnownDiffs
<1>1. CASE m.st = "closed"
  BY <1>1 DEF ReceiveDiff
<1>2. CASE m.st # "closed" /\ ~IsSynced(m.book)
  <2>1. ReceiveDiff(m, d) = [m EXCEPT !.buf = PushDiff(m.buf, d)]
    BY <1>2 DEF ReceiveDiff
  <2>2. PushDiff(m.buf, d) \in Seq(KnownDiffs(x))
    BY <1>0, PushDiffType
  <2>3. PushDiff(m.buf, d) \in Seq(Diffs)
    BY <1>0, <1>d, PushDiffType DEF ManagedBooks
  <2>. QED
    BY <1>0, <2>1, <2>2, <2>3 DEF GoodManagedBooks, ManagedBooks
<1>3. CASE m.st # "closed" /\ IsSynced(m.book)
  <2>1. ReceiveDiff(m, d) = ApplyLiveDiff(m, d)
    BY <1>3 DEF ReceiveDiff
  <2>2. ApplyDiff(m.book, d) \in GoodBooks(x)
    BY <1>0, ApplyDiffGood
  <2>3. Accepts(m.book, d) => IsSynced(ApplyDiff(m.book, d))
    BY <1>0, <1>d, <1>3, AcceptedStaysSynced DEF ManagedBooks
  <2>. QED
    BY <1>0, <2>1, <2>2, <2>3
    DEF ApplyLiveDiff, GoodManagedBooks, ManagedBooks, BookStates, GoodBooks
<1>. QED
  BY <1>1, <1>2, <1>3

\* However many listeners hand a frame over, the book keeps what receiveDiff
\* keeps; with one at least, the last of them decides.
LEMMA ReceiveTimesKeeps ==
  ASSUME NEW V, NEW m \in V, NEW d, NEW n \in Nat,
         \A k \in V : ReceiveDiff(k, d) \in V
  PROVE  /\ ReceiveTimes(m, d, n) \in V
         /\ n # 0 => \E k \in V : ReceiveTimes(m, d, n) = ReceiveDiff(k, d)
<1>. DEFINE step == [p \in V \X (1..n) |-> ReceiveDiff(p[1], d)]
            Def(f) == f = [i \in 0..n |-> IF i = 0 THEN m ELSE ReceiveDiff(f[i - 1], d)]
            after == CHOOSE f : Def(f)
<1>1. step \in [V \X (1..n) -> V]
  OBVIOUS
<1>2. PICK g \in [0..n -> V] : IsRun(g, n, m, step)
  <2>. HIDE DEF step
  <2>. QED BY <1>1, LoopExists
<1>3. \A i \in 1..n : i - 1 \in 0..n /\ g[i - 1] \in V /\ <<g[i - 1], i>> \in V \X (1..n)
  OBVIOUS
<1>4. g[0] = m /\ \A i \in 1..n : g[i] = ReceiveDiff(g[i - 1], d)
  BY <1>2, <1>3 DEF IsRun
<1>5. Def(g)
  BY <1>4
<1>6. Def(after)
  BY <1>5
<1>7. after[0] = m /\ \A i \in 1..n : after[i] = ReceiveDiff(after[i - 1], d)
  <2>. HIDE DEF after
  <2>. QED BY <1>6
<1>8. \A i \in 0..n : after[i] \in V
  <2>1. ASSUME NEW i \in 0..n PROVE after[i] \in V
    <3>1. \A j \in 1..i : after[j - 1] \in V => after[j] \in V
      <4>. HIDE DEF after
      <4>. QED BY <1>7
    <3>. HIDE DEF after
    <3>. QED BY <1>7, <3>1, LoopInvariant
  <2>. QED
    BY <2>1
<1>9. ReceiveTimes(m, d, n) = after[n]
  BY DEF ReceiveTimes
<1>10. n # 0 => after[n] = ReceiveDiff(after[n - 1], d) /\ after[n - 1] \in V
  <2>1. n # 0 => n \in 1..n /\ n - 1 \in 0..n
    OBVIOUS
  <2>. HIDE DEF after
  <2>. QED BY <1>7, <1>8, <2>1
<1>. HIDE DEF after
<1>. QED
  BY <1>8, <1>9, <1>10

\* However many listeners hand a frame over, the book stays good.
LEMMA ReceiveTimesGood ==
  ASSUME NEW x \in Nat, NEW m \in GoodManagedBooks(x), NEW d \in KnownDiffs(x),
         NEW n \in Nat
  PROVE  ReceiveTimes(m, d, n) \in GoodManagedBooks(x)
<1>. DEFINE V == GoodManagedBooks(x)
<1>1. m \in V /\ \A k \in V : ReceiveDiff(k, d) \in V
  BY ReceiveDiffGood
<1>2. ReceiveTimes(m, d, n) \in V
  <2>. HIDE DEF V
  <2>. QED BY <1>1, ReceiveTimesKeeps
<1>. QED
  BY <1>2

\* One round of the replay over a snapshot at n.
Replayed(b, d, n) == IF ExceedsSnapshot(d, n) THEN ApplyDiff(b, d) ELSE b

\* A snapshot and the buffered tail on top of it make a good book, and so does
\* every part of the tail.
LEMMA SeededBookRun ==
  ASSUME NEW x \in Nat, NEW n \in 0..x, NEW buf \in Seq(KnownDiffs(x))
  PROVE  \E after :
           /\ SeededBook(n, buf) = after[Len(buf)]
           /\ after[0] = SnapshotBook(n)
           /\ \A i \in 1..Len(buf) : after[i] = Replayed(after[i - 1], buf[i], n)
           /\ \A i \in 0..Len(buf) : after[i] \in GoodBooks(x)
<1>. DEFINE V == GoodBooks(x)
            Next1(b, i) == IF ExceedsSnapshot(buf[i], n) THEN ApplyDiff(b, buf[i]) ELSE b
            step == [p \in V \X (1..Len(buf)) |-> Next1(p[1], p[2])]
            Def(f) == f = [i \in 0..Len(buf) |->
                             IF i = 0 THEN SnapshotBook(n)
                             ELSE IF ExceedsSnapshot(buf[i], n)
                                  THEN ApplyDiff(f[i - 1], buf[i])
                             ELSE f[i - 1]]
            after == CHOOSE f : Def(f)
<1>0. Len(buf) \in Nat /\ \A i \in 1..Len(buf) : buf[i] \in KnownDiffs(x)
  BY ElementOfSeq, LenProperties
<1>s. SnapshotBook(n) \in V
  BY DEF SnapshotBook, GoodBooks, Books, IsSynced
<1>a. \A b \in V, i \in 1..Len(buf) : Next1(b, i) \in V
  BY <1>0, ApplyDiffGood
<1>1. step \in [V \X (1..Len(buf)) -> V]
  <2>. HIDE DEF V, Next1
  <2>. QED BY <1>a
<1>2. PICK g \in [0..Len(buf) -> V] : IsRun(g, Len(buf), SnapshotBook(n), step)
  <2>. HIDE DEF V, step
  <2>. QED BY <1>0, <1>1, <1>s, LoopExists
<1>3. \A i \in 1..Len(buf) : g[i - 1] \in V /\ <<g[i - 1], i>> \in V \X (1..Len(buf))
  <2>1. \A i \in 1..Len(buf) : i - 1 \in 0..Len(buf)
    BY <1>0
  <2>. HIDE DEF V
  <2>. QED BY <1>2, <2>1
<1>4. g[0] = SnapshotBook(n) /\ \A i \in 1..Len(buf) : g[i] = Next1(g[i - 1], i)
  <2>. HIDE DEF V, Next1
  <2>. QED BY <1>2, <1>3 DEF IsRun
<1>5. Def(g)
  <2>. HIDE DEF V
  <2>. QED BY <1>0, <1>2, <1>4
<1>6. Def(after)
  BY <1>5
<1>7. after[0] = SnapshotBook(n) /\ \A i \in 1..Len(buf) : after[i] = Next1(after[i - 1], i)
  <2>0. 0 \in 0..Len(buf) /\ \A i \in 1..Len(buf) : i \in 0..Len(buf) /\ i # 0
    BY <1>0
  <2>. HIDE DEF after
  <2>1. after[0] = SnapshotBook(n)
    BY <1>6, <2>0
  <2>2. \A i \in 1..Len(buf) : after[i] = Next1(after[i - 1], i)
    BY <1>6, <2>0
  <2>. QED
    BY <2>1, <2>2
<1>8. \A i \in 0..Len(buf) : after[i] \in V
  <2>1. ASSUME NEW i \in 0..Len(buf) PROVE after[i] \in V
    <3>1. i \in Nat /\ \A j \in 1..i : j \in 1..Len(buf)
      BY <1>0
    <3>2. \A j \in 1..i : after[j - 1] \in V => after[j] \in V
      <4>. HIDE DEF after, V, Next1
      <4>. QED BY <1>7, <1>a, <3>1
    <3>. HIDE DEF after, V
    <3>. QED BY <1>7, <1>s, <3>1, <3>2, LoopInvariant
  <2>. QED
    BY <2>1
<1>9. SeededBook(n, buf) = after[Len(buf)]
  BY DEF SeededBook
<1>10. \A i \in 1..Len(buf) : after[i] = Replayed(after[i - 1], buf[i], n)
  <2>. HIDE DEF after
  <2>. QED BY <1>7 DEF Replayed
<1>. HIDE DEF after
<1>. QED
  BY <1>7, <1>8, <1>9, <1>10

\* A snapshot and the buffered tail on top of it make a good book.
LEMMA SeededBookGood ==
  ASSUME NEW x \in Nat, NEW n \in 0..x, NEW buf \in Seq(KnownDiffs(x))
  PROVE  SeededBook(n, buf) \in GoodBooks(x)
<1>1. PICK after : /\ SeededBook(n, buf) = after[Len(buf)]
                   /\ \A i \in 0..Len(buf) : after[i] \in GoodBooks(x)
  BY SeededBookRun
<1>2. Len(buf) \in 0..Len(buf)
  BY LenProperties
<1>. QED
  BY <1>1, <1>2

\* applySnapshot keeps a managed book good.
LEMMA ApplySnapshotGood ==
  ASSUME NEW x \in Nat, NEW m \in GoodManagedBooks(x), NEW n \in 0..x
  PROVE  ApplySnapshot(m, n) \in GoodManagedBooks(x)
<1>. DEFINE seeded == SeededBook(n, m.buf)
<1>1. CASE m.st = "closed"
  BY <1>1 DEF ApplySnapshot
<1>2. CASE m.st # "closed"
  <2>1. seeded \in GoodBooks(x)
    BY SeededBookGood DEF GoodManagedBooks
  <2>2. seeded \in Books
    BY <2>1 DEF GoodBooks
  <2>3. ApplySnapshot(m, n) = [st |-> IF IsSynced(seeded) THEN "live" ELSE "desynced",
                               book |-> seeded, buf |-> << >>]
    BY <1>2 DEF ApplySnapshot
  <2>4. << >> \in Seq(Diffs) /\ << >> \in Seq(KnownDiffs(x))
    BY EmptySeq
  <2>5. ApplySnapshot(m, n) \in ManagedBooks
    <3>. HIDE DEF seeded
    <3>. QED BY <2>2, <2>3, <2>4 DEF ManagedBooks, BookStates
  <2>. HIDE DEF seeded
  <2>6. ApplySnapshot(m, n).book = seeded /\ ApplySnapshot(m, n).buf = << >>
    BY <2>3
  <2>7. ApplySnapshot(m, n).st = "live" => IsSynced(seeded)
    BY <2>3 DEF IsSynced
  <2>. QED
    BY <2>1, <2>4, <2>5, <2>6, <2>7 DEF GoodManagedBooks
<1>. QED
  BY <1>1, <1>2

\* markInterrupted keeps a managed book good.
LEMMA MarkInterruptedGood ==
  ASSUME NEW x \in Nat, NEW m \in GoodManagedBooks(x)
  PROVE  MarkInterrupted(m) \in GoodManagedBooks(x)
  BY DEF MarkInterrupted, GoodManagedBooks, ManagedBooks, BookStates

\* A new book and a closed one are good.
LEMMA FreshBooksGood ==
  ASSUME NEW x \in Nat
  PROVE  NewBook \in GoodManagedBooks(x) /\ ClosedBook \in GoodManagedBooks(x)
<1>1. << >> \in Seq(Diffs) /\ << >> \in Seq(KnownDiffs(x))
  BY EmptySeq
<1>2. EmptyBook \in GoodBooks(x) /\ EmptyBook \in Books
  BY DEF EmptyBook, GoodBooks, Books, IsSynced
<1>3. NewBook \in ManagedBooks /\ ClosedBook \in ManagedBooks
  BY <1>1, <1>2 DEF NewBook, ClosedBook, ManagedBooks, BookStates
<1>. QED
  BY <1>1, <1>2, <1>3 DEF NewBook, ClosedBook, GoodManagedBooks

\* What was heard of stays heard of when the exchange moves on.
LEMMA GoodGrows ==
  ASSUME NEW x \in Nat, NEW y \in Nat, x <= y
  PROVE  /\ GoodManagedBooks(x) \subseteq GoodManagedBooks(y)
         /\ Seq(KnownDiffs(x)) \subseteq Seq(KnownDiffs(y))
<1>1. KnownDiffs(x) \subseteq KnownDiffs(y)
  BY DEF KnownDiffs, Diffs
<1>2. Seq(KnownDiffs(x)) \subseteq Seq(KnownDiffs(y))
  BY <1>1
<1>3. GoodBooks(x) \subseteq GoodBooks(y)
  BY DEF GoodBooks, Books
<1>. QED
  BY <1>2, <1>3 DEF GoodManagedBooks

----------------------------------------------------------------------------
(* The inductive invariant: TypeOK and BookExact say nothing of the diffs on *)
(* their way and in the buffer, which is where the next step's content comes *)
(* from.                                                                     *)

DataOK ==
  /\ mb \in GoodManagedBooks(exId)
  /\ chan \in Seq(KnownDiffs(exId))

IInv == TypeOK /\ DataOK

\* The data's part of TypeOK follows from DataOK.
LEMMA DataTypes ==
  ASSUME NEW x \in Nat
  PROVE  /\ GoodManagedBooks(x) \subseteq ManagedBooks
         /\ Seq(KnownDiffs(x)) \subseteq Seq(Diffs)
<1>1. KnownDiffs(x) \subseteq Diffs
  BY DEF KnownDiffs
<1>. QED
  BY <1>1 DEF GoodManagedBooks

LEMMA TaskTypes ==
  ASSUME NEW pcs, NEW pc \in pcs
  PROVE  /\ NoTask(pc) \in Tasks(pcs)
         /\ \A b \in Watches \union {None}, n \in Nat : Task(pc, b, n) \in Tasks(pcs)
  BY DEF NoTask, Task, Tasks

LEMMA InitIInv == Init => IInv
<1>. SUFFICES ASSUME Init PROVE IInv
  OBVIOUS
<1>1. mb \in GoodManagedBooks(exId) /\ chan \in Seq(KnownDiffs(exId))
  BY FreshBooksGood, EmptySeq DEF Init
<1>2. mb \in ManagedBooks /\ chan \in Seq(Diffs) /\ exId \in Nat
  BY <1>1, DataTypes DEF Init
<1>3. watch \in [Watches -> Tasks(WatchPcs)] /\ resync \in Tasks(ResyncPcs)
  BY TaskTypes DEF Init, WatchPcs, ResyncPcs
<1>4. /\ product \in Products /\ online \in BOOLEAN /\ closed \in BOOLEAN
      /\ faults = [f \in FaultKinds |-> 0]
  BY Zenon DEF Init
<1>5. exId \in Nat /\ exPub \in Nat /\ exPub <= exId /\ faults \in [FaultKinds -> Nat]
  BY <1>4 DEF Init
<1>6. /\ registered \in SUBSET Watches
      /\ listening \in SUBSET registered
      /\ confirmed \in SUBSET registered
      /\ cur \in Watches \union {None}
      /\ sub \in Watches \union {None}
  BY DEF Init
<1>7. TypeOK
  BY <1>2, <1>3, <1>4, <1>5, <1>6 DEF TypeOK
<1>. QED
  BY <1>1, <1>7 DEF IInv, DataOK

\* scheduleResync starts a task or leaves the one there is.
LEMMA ScheduleResyncType ==
  ASSUME TypeOK, NEW desyncs, NEW m, ScheduleResync(desyncs, m)
  PROVE  resync' \in Tasks(ResyncPcs)
  BY TaskTypes DEF TypeOK, ScheduleResync, ResyncPcs

\* A release takes the listeners and confirmations it takes registrations of.
LEMMA ReleaseType ==
  ASSUME TypeOK, NEW gone, Release(gone)
  PROVE  /\ registered' \in SUBSET Watches
         /\ listening' \in SUBSET registered'
         /\ confirmed' \in SUBSET registered'
         /\ online' \in BOOLEAN
         /\ chan' = << >> \/ chan' = chan
  BY DEF TypeOK, Release

LEMMA FaultType ==
  ASSUME TypeOK, NEW f \in FaultKinds, NEW bound, Fault(f, bound)
  PROVE  faults' \in [FaultKinds -> Nat]
  BY DEF TypeOK, Fault

\* The end of a watch on a symbol: of the book nothing is left.
LEMMA DropBookKeeps ==
  ASSUME IInv, DropBook, exId' = exId
  PROVE  /\ DataOK'
         /\ cur' = None /\ sub' = None
         /\ registered' \in SUBSET Watches
         /\ listening' \in SUBSET registered'
         /\ confirmed' \in SUBSET registered'
         /\ online' \in BOOLEAN
<1>1. Release({sub}) /\ mb' = ClosedBook /\ exId \in Nat
  BY DEF DropBook, IInv, TypeOK
<1>2. mb' \in GoodManagedBooks(exId)
  BY <1>1, FreshBooksGood
<1>3. chan' \in Seq(KnownDiffs(exId))
  BY <1>1, ReleaseType, EmptySeq DEF IInv, DataOK
<1>. QED
  BY <1>1, <1>2, <1>3, ReleaseType DEF IInv, DataOK, DropBook

\* Hearing of an interruption keeps the book good.
LEMMA InterruptBookKeeps ==
  ASSUME IInv, NEW heard, InterruptBook(heard)
  PROVE  mb' \in GoodManagedBooks(exId) /\ resync' \in Tasks(ResyncPcs)
<1>1. mb \in GoodManagedBooks(exId) /\ exId \in Nat /\ TypeOK
  BY DEF IInv, DataOK, TypeOK
<1>2. CASE cur \in heard
  BY <1>1, <1>2, MarkInterruptedGood, ScheduleResyncType DEF InterruptBook
<1>3. CASE cur \notin heard
  BY <1>1, <1>3 DEF InterruptBook, TypeOK
<1>. QED
  BY <1>2, <1>3

----------------------------------------------------------------------------
(* Every step keeps the invariant *)

\* The steps of the exchange and of the connection.
LEMMA StreamSteps ==
  ASSUME IInv, Trade \/ Publish \/ Reconnect \/ Rotate \/ Interrupt \/ StreamClosed
  PROVE  IInv'
<1>. USE DEF IInv, DataOK
<1>0. TypeOK /\ exId \in Nat /\ exPub \in Nat /\ exPub <= exId
  BY DEF TypeOK
<1>1. CASE Trade
  <2>1. exId' = exId + 1 /\ mb' = mb /\ chan' = chan
    BY <1>1 DEF Trade, stream, engine
  <2>2. DataOK'
    BY <1>0, <2>1, GoodGrows
  <2>3. TypeOK'
    BY <1>0, <1>1 DEF Trade, TypeOK, stream, engine
  <2>. QED
    BY <2>2, <2>3
<1>2. CASE Publish
  <2>1. mb' = mb /\ exId' = exId /\ exPub' = exId
    BY <1>2 DEF Publish, engine
  <2>2. chan' \in Seq(KnownDiffs(exId))
    <3>. DEFINE d == [U |-> exPub + 1, u |-> exId,
                      pu |-> IF product = "usdm" THEN exPub ELSE NoPu]
    <3>1. d \in KnownDiffs(exId)
      BY <1>0, <1>2 DEF Publish, KnownDiffs, Diffs, NoPu
    <3>2. chan' = Append(chan, d) \/ chan' = chan
      BY <1>2 DEF Publish
    <3>. HIDE DEF d
    <3>. QED BY <3>1, <3>2, AppendProperties
  <2>3. chan' \in Seq(Diffs)
    BY <1>0, <2>2, DataTypes
  <2>4. TypeOK'
    BY <1>0, <1>2, <2>1, <2>3 DEF Publish, TypeOK, engine
  <2>. QED
    BY <2>1, <2>2, <2>4
<1>3. CASE Reconnect
  <2>1. DataOK'
    BY <1>3 DEF Reconnect, exchange, engine
  <2>2. TypeOK'
    BY <1>0, <1>3 DEF Reconnect, TypeOK, exchange, engine
  <2>. QED
    BY <2>1, <2>2
<1>4. CASE Rotate
  <2>1. chan' \in Seq(KnownDiffs(exId))
    <3>1. PICK k \in 1..Len(chan) : chan' = SubSeq(chan, k + 1, Len(chan))
      BY <1>4 DEF Rotate
    <3>2. Len(chan) \in Nat /\ \A i \in (k + 1)..Len(chan) : chan[i] \in KnownDiffs(exId)
      BY <3>1, LenProperties, ElementOfSeq
    <3>. QED
      BY <3>1, <3>2, SubSeqProperties
  <2>2. chan' \in Seq(Diffs)
    BY <1>0, <2>1, DataTypes
  <2>3. faults' \in [FaultKinds -> Nat]
    BY <1>0, <1>4, FaultType DEF Rotate, FaultKinds
  <2>4. TypeOK'
    BY <1>0, <1>4, <2>2, <2>3 DEF Rotate, TypeOK, exchange, engine
  <2>. QED
    BY <1>4, <2>1, <2>4 DEF Rotate, exchange, engine
<1>5. CASE Interrupt
  <2>1. mb' \in GoodManagedBooks(exId) /\ resync' \in Tasks(ResyncPcs)
    BY <1>5, InterruptBookKeeps DEF Interrupt
  <2>2. mb' \in ManagedBooks /\ chan' = << >> /\ << >> \in Seq(Diffs)
    BY <1>0, <1>5, <2>1, DataTypes, EmptySeq DEF Interrupt
  <2>3. faults' \in [FaultKinds -> Nat]
    BY <1>0, <1>5, FaultType DEF Interrupt, FaultKinds
  <2>4. TypeOK'
    BY <1>0, <1>5, <2>1, <2>2, <2>3 DEF Interrupt, TypeOK, exchange
  <2>. QED
    BY <1>5, <2>1, <2>2, <2>4, EmptySeq DEF Interrupt, exchange
<1>6. CASE StreamClosed
  <2>1. mb' \in GoodManagedBooks(exId) /\ resync' \in Tasks(ResyncPcs)
    BY <1>6, InterruptBookKeeps DEF StreamClosed
  <2>2. mb' \in ManagedBooks /\ chan' = << >> /\ << >> \in Seq(Diffs)
    BY <1>0, <1>6, <2>1, DataTypes, EmptySeq DEF StreamClosed
  <2>3. faults' \in [FaultKinds -> Nat]
    BY <1>0, <1>6, FaultType DEF StreamClosed, FaultKinds
  <2>4. TypeOK'
    BY <1>0, <1>6, <2>1, <2>2, <2>3 DEF StreamClosed, TypeOK, exchange
  <2>. QED
    BY <1>6, <2>1, <2>2, <2>4, EmptySeq DEF StreamClosed, exchange
<1>. QED
  BY <1>1, <1>2, <1>3, <1>4, <1>5, <1>6

\* A frame, the user's unwatch and close.
LEMMA EngineSteps ==
  ASSUME IInv, Deliver \/ Unwatch \/ Close
  PROVE  IInv'
<1>. USE DEF IInv, DataOK
<1>0. TypeOK /\ exId \in Nat
  BY DEF TypeOK
<1>1. CASE Deliver
  <2>1. chan # << >> /\ chan' = Tail(chan) /\ exId' = exId
    BY <1>1 DEF Deliver, exchange
  <2>2. Head(chan) \in KnownDiffs(exId) /\ chan' \in Seq(KnownDiffs(exId))
    BY <2>1, HeadTailProperties
  <2>3. Cardinality(listening) \in Nat
    <3>1. listening \in SUBSET Watches
      BY <1>0 DEF TypeOK
    <3>. QED
      BY <3>1, WatchesAssumption, FS_Subset, FS_CardinalityType
  <2>4. mb' \in GoodManagedBooks(exId)
    <3>1. ReceiveTimes(mb, Head(chan), Cardinality(listening)) \in GoodManagedBooks(exId)
      BY <1>0, <2>2, <2>3, ReceiveTimesGood
    <3>. QED
      BY <1>1, <3>1 DEF Deliver
  <2>5. resync' \in Tasks(ResyncPcs)
    BY <1>0, <1>1, ScheduleResyncType DEF Deliver, TypeOK
  <2>6. mb' \in ManagedBooks /\ chan' \in Seq(Diffs)
    BY <1>0, <2>2, <2>4, DataTypes
  <2>7. TypeOK'
    BY <1>0, <1>1, <2>5, <2>6 DEF Deliver, TypeOK, exchange
  <2>. QED
    BY <2>1, <2>2, <2>4, <2>7
<1>2. CASE Unwatch
  <2>1. DropBook /\ exId' = exId
    BY <1>2 DEF Unwatch, exchange
  <2>2. mb' \in ManagedBooks /\ chan' \in Seq(Diffs)
    BY <1>0, <2>1, DropBookKeeps, DataTypes
  <2>3. TypeOK'
    BY <1>0, <1>2, <2>1, <2>2, DropBookKeeps DEF Unwatch, TypeOK, exchange
  <2>. QED
    BY <2>1, <2>3, DropBookKeeps
<1>3. CASE Close
  <2>1. DropBook /\ exId' = exId
    BY <1>3 DEF Close, exchange
  <2>2. mb' \in ManagedBooks /\ chan' \in Seq(Diffs)
    BY <1>0, <2>1, DropBookKeeps, DataTypes
  <2>3. TypeOK'
    BY <1>0, <1>3, <2>1, <2>2, DropBookKeeps DEF Close, TypeOK, exchange
  <2>. QED
    BY <2>1, <2>3, DropBookKeeps
<1>. QED
  BY <1>1, <1>2, <1>3

\* A watch call moves on.
LEMMA WatchSteps ==
  ASSUME IInv, NEW w \in Watches, WatchStep(w)
  PROVE  IInv'
<1>. USE DEF IInv, DataOK
<1>0. TypeOK /\ exId \in Nat /\ mb \in ManagedBooks /\ chan \in Seq(Diffs)
  BY DEF TypeOK
<1>t. \A t \in Tasks(WatchPcs) : [watch EXCEPT ![w] = t] \in [Watches -> Tasks(WatchPcs)]
  BY <1>0 DEF TypeOK
<1>1. CASE WatchExisting(w)
  <2>1. DataOK'
    BY <1>1 DEF WatchExisting, exchange, stream, engine
  <2>2. Task("resolved", cur, 0) \in Tasks(WatchPcs)
    BY <1>0, TaskTypes DEF TypeOK, WatchPcs
  <2>3. TypeOK'
    BY <1>0, <1>1, <1>t, <2>2 DEF WatchExisting, TypeOK, exchange, stream, engine
  <2>. QED
    BY <2>1, <2>3
<1>2. CASE WatchRefused(w)
  <2>1. DataOK'
    BY <1>2 DEF WatchRefused, exchange, stream, engine
  <2>2. NoTask("rejected") \in Tasks(WatchPcs)
    BY TaskTypes DEF WatchPcs
  <2>3. TypeOK'
    BY <1>0, <1>2, <1>t, <2>2 DEF WatchRefused, TypeOK, exchange, stream, engine
  <2>. QED
    BY <2>1, <2>3
<1>3. CASE WatchStart(w)
  <2>1. DataOK'
    BY <1>0, <1>3, FreshBooksGood DEF WatchStart, exchange
  <2>2. mb' \in ManagedBooks
    BY <1>0, <1>3, <2>1, DataTypes DEF WatchStart, exchange
  <2>3. watch' \in [Watches -> Tasks(WatchPcs)]
    BY <1>3, <1>t, TaskTypes DEF WatchStart, WatchPcs
  <2>4. TypeOK'
    BY <1>0, <1>3, <2>2, <2>3 DEF WatchStart, TypeOK, exchange
  <2>. QED
    BY <2>1, <2>4
<1>4. ASSUME AttachAndFetch(w) PROVE DataOK' /\ watch' \in [Watches -> Tasks(WatchPcs)]
  <2>1. DataOK'
    BY <1>4 DEF AttachAndFetch, exchange
  <2>2. Task("resolved", w, 0) \in Tasks(WatchPcs) /\ Task("fetching", cur, exId) \in Tasks(WatchPcs)
    BY <1>0, TaskTypes DEF TypeOK, WatchPcs
  <2>. QED
    BY <1>4, <1>t, <2>1, <2>2 DEF AttachAndFetch
<1>5. CASE WatchAcked(w)
  <2>1. AttachAndFetch(w)
    BY <1>5 DEF WatchAcked
  <2>2. TypeOK'
    BY <1>0, <1>4, <1>5, <2>1 DEF WatchAcked, AttachAndFetch, TypeOK, exchange
  <2>. QED
    BY <1>4, <2>1, <2>2
<1>6. CASE WatchJoined(w)
  <2>1. AttachAndFetch(w)
    BY <1>6 DEF WatchJoined
  <2>2. TypeOK'
    BY <1>0, <1>4, <1>6, <2>1 DEF WatchJoined, AttachAndFetch, TypeOK, exchange
  <2>. QED
    BY <1>4, <2>1, <2>2
<1>7. CASE WatchFails(w)
  <2>1. DropBook /\ exId' = exId
    BY <1>7 DEF WatchFails, exchange
  <2>2. mb' \in ManagedBooks /\ chan' \in Seq(Diffs)
    BY <1>0, <2>1, DropBookKeeps, DataTypes
  <2>3. faults' \in [FaultKinds -> Nat]
    BY <1>0, <1>7, FaultType DEF WatchFails, FaultKinds, TypeOK
  <2>4. watch' \in [Watches -> Tasks(WatchPcs)]
    BY <1>7, <1>t, TaskTypes DEF WatchFails, WatchPcs
  <2>5. TypeOK'
    BY <1>0, <1>7, <2>1, <2>2, <2>3, <2>4, DropBookKeeps DEF WatchFails, TypeOK, exchange
  <2>. QED
    BY <2>1, <2>5, DropBookKeeps
<1>8. CASE WatchSnapshot(w)
  <2>1. mb' \in GoodManagedBooks(exId) /\ resync' \in Tasks(ResyncPcs)
    <3>1. CASE cur = watch[w].book
      <4>1. PICK n \in watch[w].asked .. exId :
              mb' = ApplySnapshot(mb, n) /\ ScheduleResync(TRUE, mb')
        BY <1>8, <3>1 DEF WatchSnapshot
      <4>2. n \in 0..exId
        BY <1>0, <4>1 DEF TypeOK, Tasks
      <4>. QED
        BY <1>0, <4>1, <4>2, ApplySnapshotGood, ScheduleResyncType
    <3>2. CASE cur # watch[w].book
      BY <1>0, <1>8, <3>2 DEF WatchSnapshot, TypeOK
    <3>. QED
      BY <3>1, <3>2
  <2>2. mb' \in ManagedBooks
    BY <1>0, <2>1, DataTypes
  <2>3. watch' \in [Watches -> Tasks(WatchPcs)]
    BY <1>0, <1>8, <1>t, TaskTypes DEF WatchSnapshot, WatchPcs
  <2>4. TypeOK'
    BY <1>0, <1>8, <2>1, <2>2, <2>3 DEF WatchSnapshot, TypeOK, exchange, stream
  <2>. QED
    BY <1>8, <2>1, <2>4 DEF WatchSnapshot, exchange, stream
<1>. QED
  BY <1>1, <1>2, <1>3, <1>5, <1>6, <1>7, <1>8 DEF WatchStep

\* The resync task moves on.
LEMMA ResyncSteps ==
  ASSUME IInv, ResyncWakes \/ ResyncSnapshot \/ ResyncFails
  PROVE  IInv'
<1>. USE DEF IInv, DataOK
<1>0. TypeOK /\ exId \in Nat /\ mb \in ManagedBooks
  BY DEF TypeOK
<1>i. NoTask("idle") \in Tasks(ResyncPcs)
  BY TaskTypes DEF ResyncPcs
<1>1. CASE ResyncWakes
  <2>1. Task("fetching", cur, exId) \in Tasks(ResyncPcs)
    BY <1>0, TaskTypes DEF TypeOK, ResyncPcs
  <2>2. TypeOK'
    BY <1>0, <1>1, <1>i, <2>1 DEF ResyncWakes, TypeOK, exchange, stream, engine
  <2>. QED
    BY <1>1, <2>2 DEF ResyncWakes, exchange, stream, engine
<1>2. CASE ResyncSnapshot
  <2>1. mb' \in GoodManagedBooks(exId)
    <3>1. CASE cur = resync.book
      <4>1. PICK n \in resync.asked .. exId : mb' = ApplySnapshot(mb, n)
        BY <1>2, <3>1 DEF ResyncSnapshot
      <4>2. n \in 0..exId
        BY <1>0, <4>1 DEF TypeOK, Tasks
      <4>. QED
        BY <1>0, <4>1, <4>2, ApplySnapshotGood
    <3>2. CASE cur # resync.book
      BY <1>2, <3>2 DEF ResyncSnapshot
    <3>. QED
      BY <3>1, <3>2
  <2>2. mb' \in ManagedBooks
    BY <1>0, <2>1, DataTypes
  <2>3. TypeOK'
    BY <1>0, <1>2, <1>i, <2>2 DEF ResyncSnapshot, TypeOK, exchange, stream
  <2>. QED
    BY <1>2, <2>1, <2>3 DEF ResyncSnapshot, exchange, stream
<1>3. CASE ResyncFails
  <2>1. faults' \in [FaultKinds -> Nat]
    BY <1>0, <1>3, FaultType DEF ResyncFails, FaultKinds
  <2>2. TypeOK'
    BY <1>0, <1>3, <1>i, <2>1 DEF ResyncFails, TypeOK, exchange, stream, engine
  <2>. QED
    BY <1>3, <2>2 DEF ResyncFails, exchange, stream, engine
<1>. QED
  BY <1>1, <1>2, <1>3

LEMMA NextIInv == IInv /\ [Next]_vars => IInv'
<1>. SUFFICES ASSUME IInv, [Next]_vars PROVE IInv'
  OBVIOUS
<1>1. CASE Next
  BY <1>1, StreamSteps, EngineSteps, WatchSteps, ResyncSteps DEF Next
<1>2. CASE UNCHANGED vars
  BY <1>2 DEF vars, exchange, stream, engine, IInv, DataOK, TypeOK
<1>. QED
  BY <1>1, <1>2

----------------------------------------------------------------------------
(* Two action properties.  They need to know besides that a book is closed   *)
(* exactly when the map has none, that a snapshot is fetched for a book, and *)
(* that the diffs of spot carry no pu.                                       *)

BookInMap ==
  /\ cur = None <=> mb.st = "closed"
  /\ closed => cur = None

FetchedForABook ==
  /\ \A w \in Watches : watch[w].pc = "fetching" => watch[w].book # None
  /\ resync.pc = "fetching" => resync.book # None

SpotDiff == {d \in Diffs : d.pu = NoPu}

SpotDiffs == product = "spot" => chan \in Seq(SpotDiff) /\ mb.buf \in Seq(SpotDiff)

SideInv == BookInMap /\ FetchedForABook /\ SpotDiffs

\* From m to r a book neither closes nor comes back, and its buffer is still
\* one of spot diffs.
Stays(m, r) ==
  /\ r.st = "closed" <=> m.st = "closed"
  /\ m.buf \in Seq(SpotDiff) => r.buf \in Seq(SpotDiff)

\* A book that is live after receiveDiff includes the diff.
LEMMA ReceiveDiffShows ==
  ASSUME NEW x \in Nat, NEW m \in GoodManagedBooks(x), NEW d \in KnownDiffs(x)
  PROVE  /\ ReceiveDiff(m, d).st = "live" => ReceiveDiff(m, d).book.last >= d.u
         /\ d \in SpotDiff => Stays(m, ReceiveDiff(m, d))
         /\ ReceiveDiff(m, d).st = "closed" <=> m.st = "closed"
<1>0. /\ m \in ManagedBooks /\ m.book \in Books /\ m.buf \in Seq(Diffs) /\ d \in Diffs
      /\ m.st = "live" => IsSynced(m.book)
  BY DEF GoodManagedBooks, GoodBooks, ManagedBooks, KnownDiffs
<1>1. CASE m.st = "closed"
  BY <1>1 DEF ReceiveDiff, Stays
<1>2. CASE m.st # "closed" /\ ~IsSynced(m.book)
  <2>1. ReceiveDiff(m, d) = [m EXCEPT !.buf = PushDiff(m.buf, d)]
    BY <1>2 DEF ReceiveDiff
  <2>2. ReceiveDiff(m, d).st = m.st /\ ReceiveDiff(m, d).buf = PushDiff(m.buf, d)
    BY <1>0, <2>1 DEF ManagedBooks
  <2>3. d \in SpotDiff /\ m.buf \in Seq(SpotDiff) => PushDiff(m.buf, d) \in Seq(SpotDiff)
    BY PushDiffType
  <2>. QED
    BY <1>0, <1>2, <2>2, <2>3 DEF Stays
<1>3. CASE m.st # "closed" /\ IsSynced(m.book)
  <2>1. ReceiveDiff(m, d) = ApplyLiveDiff(m, d)
    BY <1>3 DEF ReceiveDiff
  <2>2. /\ ApplyLiveDiff(m, d).st = (IF Accepts(m.book, d) THEN "live" ELSE "desynced")
        /\ ApplyLiveDiff(m, d).book = ApplyDiff(m.book, d)
        /\ ApplyLiveDiff(m, d).buf = m.buf
    BY <1>0 DEF ApplyLiveDiff, ManagedBooks
  <2>3. Accepts(m.book, d) => ApplyDiff(m.book, d).last >= d.u
    BY <1>0 DEF ApplyDiff, Accepts, ApplyDiffUngated, Stale, Books, Diffs
  <2>. QED
    BY <1>3, <2>1, <2>2, <2>3 DEF Stays
<1>. QED
  BY <1>1, <1>2, <1>3

\* The same of a frame that every listener hands over, if there is one.
LEMMA ReceiveTimesShows ==
  ASSUME NEW x \in Nat, NEW m \in GoodManagedBooks(x), NEW d \in KnownDiffs(x),
         NEW n \in Nat
  PROVE  /\ n # 0 /\ ReceiveTimes(m, d, n).st = "live" => ReceiveTimes(m, d, n).book.last >= d.u
         /\ d \in SpotDiff => Stays(m, ReceiveTimes(m, d, n))
         /\ ReceiveTimes(m, d, n).st = "closed" <=> m.st = "closed"
<1>. DEFINE V == {k \in GoodManagedBooks(x) : /\ d \in SpotDiff => Stays(m, k)
                                              /\ k.st = "closed" <=> m.st = "closed"}
<1>1. m \in V
  BY DEF Stays
<1>2. \A k \in V : ReceiveDiff(k, d) \in V
  BY ReceiveDiffGood, ReceiveDiffShows DEF Stays
<1>3. /\ ReceiveTimes(m, d, n) \in V
      /\ n # 0 => \E k \in V : ReceiveTimes(m, d, n) = ReceiveDiff(k, d)
  <2>. HIDE DEF V
  <2>. QED BY <1>1, <1>2, ReceiveTimesKeeps
<1>. QED
  BY <1>3, ReceiveDiffShows

LEMMA OthersStay ==
  ASSUME NEW x \in Nat, NEW m \in GoodManagedBooks(x)
  PROVE  /\ \A n \in 0..x : Stays(m, ApplySnapshot(m, n))
         /\ Stays(m, MarkInterrupted(m))
<1>1. ASSUME NEW n \in 0..x PROVE Stays(m, ApplySnapshot(m, n))
  <2>1. CASE m.st = "closed"
    BY <2>1 DEF ApplySnapshot, Stays
  <2>2. CASE m.st # "closed"
    <3>1. ApplySnapshot(m, n).st \in {"live", "desynced"} /\ ApplySnapshot(m, n).buf = << >>
      BY <2>2 DEF ApplySnapshot
    <3>. QED
      BY <2>2, <3>1, EmptySeq DEF Stays
  <2>. QED
    BY <2>1, <2>2
<1>2. Stays(m, MarkInterrupted(m))
  BY DEF Stays, MarkInterrupted, GoodManagedBooks, ManagedBooks
<1>. QED
  BY <1>1, <1>2

\* A book of spot diffs without a hole from the snapshot on is synced by it,
\* with every one of them.
LEMMA SeededSpotBook ==
  ASSUME NEW x \in Nat, NEW asked \in Nat, NEW n \in asked..x,
         NEW buf \in Seq(KnownDiffs(x)), buf \in Seq(SpotDiff), GapFree(buf, asked)
  PROVE  /\ IsSynced(SeededBook(n, buf))
         /\ \A i \in DOMAIN buf : buf[i].u <= SeededBook(n, buf).last
<1>. DEFINE k == Len(buf)
<1>1. /\ k \in Nat /\ DOMAIN buf = 1..k /\ n \in 0..x /\ n \in Nat /\ asked <= n
      /\ \A i \in 1..k : buf[i] \in Diffs /\ buf[i].pu = NoPu
  <2>1. k \in Nat /\ DOMAIN buf = 1..k
    BY LenProperties
  <2>2. \A i \in 1..k : buf[i] \in SpotDiff
    BY ElementOfSeq
  <2>. QED
    BY <2>1, <2>2 DEF SpotDiff
<1>2. PICK after :
        /\ SeededBook(n, buf) = after[k]
        /\ after[0] = SnapshotBook(n)
        /\ \A i \in 1..k : after[i] = Replayed(after[i - 1], buf[i], n)
        /\ \A i \in 0..k : after[i] \in GoodBooks(x)
  BY <1>1, SeededBookRun
<1>. DEFINE Has(i) == /\ IsSynced(after[i]) /\ n <= after[i].last
                      /\ \A j \in 1..i : buf[j].u <= after[i].last
            S == {i \in Nat : i <= k => Has(i)}
<1>3. 0 \in S
  BY <1>1, <1>2 DEF SnapshotBook, IsSynced
<1>. HIDE DEF k
<1>4. \A i \in Nat : i \in S => i + 1 \in S
  <2>. SUFFICES ASSUME NEW i \in Nat, i + 1 <= k, Has(i)
                PROVE  Has(i + 1)
    BY <1>1
  <2>. DEFINE b == after[i]
              d == buf[i + 1]
  <2>1. i + 1 \in 1..k /\ (i + 1) - 1 = i /\ i \in 0..k /\ i + 1 \in 0..k
    BY <1>1
  <2>2. /\ b \in Books /\ d \in Diffs /\ d.pu = NoPu
        /\ after[i + 1] = Replayed(b, d, n)
    BY <1>1, <1>2, <2>1 DEF GoodBooks
  <2>3. d.U <= b.last + 1
    <3>1. d.U <= (IF i + 1 = 1 THEN asked ELSE buf[i].u) + 1
      BY <1>1, <2>1 DEF GapFree
    <3>2. CASE i = 0
      BY <1>1, <2>2, <3>1, <3>2 DEF Books, Diffs
    <3>3. CASE i # 0
      <4>1. i \in 1..k /\ buf[i] \in Diffs /\ buf[i].u <= b.last
        BY <1>1, <2>1, <3>3
      <4>2. d.U <= buf[i].u + 1
        BY <3>1, <3>3, <2>1
      <4>3. d.U \in Nat /\ b.last \in Nat /\ buf[i].u \in Nat
        BY <2>2, <4>1 DEF Books, Diffs
      <4>4. buf[i].u <= b.last
        BY <4>1
      <4>5. \A a, m, l \in Nat : a <= m + 1 /\ m <= l => a <= l + 1
        OBVIOUS
      <4>. HIDE DEF b, d, Has
      <4>. QED
        BY <4>2, <4>3, <4>4, <4>5
    <3>. QED
      BY <3>2, <3>3
  <2>4. /\ IsSynced(after[i + 1]) /\ b.last <= after[i + 1].last /\ d.u <= after[i + 1].last
        /\ after[i + 1].last \in Nat
    <3>1. IsSynced(b) /\ n <= b.last
      OBVIOUS
    <3>. HIDE DEF b, d
    <3>2. CASE ~ExceedsSnapshot(d, n)
      <4>1. after[i + 1] = b
        BY <2>2, <3>2 DEF Replayed
      <4>2. d.u <= n /\ d.u \in Nat /\ b.last \in Nat
        BY <2>2, <3>2 DEF ExceedsSnapshot, Books, Diffs
      <4>. QED
        BY <3>1, <4>1, <4>2
    <3>3. CASE ExceedsSnapshot(d, n)
      <4>1. after[i + 1] = ApplyDiff(b, d)
        BY <2>2, <3>3 DEF Replayed
      <4>2. Accepts(b, d) /\ b.synced
        BY <2>2, <2>3, <3>1 DEF Accepts, BrokenChain, Gap, IsSynced, Books, Diffs
      <4>3. CASE Stale(b, d)
        BY <2>2, <3>1, <4>1, <4>2, <4>3 DEF ApplyDiff, Stale, Books, Diffs
      <4>4. CASE ~Stale(b, d)
        BY <2>2, <3>1, <4>1, <4>2, <4>4 DEF ApplyDiff, ApplyDiffUngated, Stale, IsSynced, Books, Diffs
      <4>. QED
        BY <4>3, <4>4
    <3>. QED
      BY <3>2, <3>3
  <2>5. \A j \in 1..(i + 1) : buf[j].u <= after[i + 1].last
    <3>1. ASSUME NEW j \in 1..(i + 1) PROVE buf[j].u <= after[i + 1].last
      <4>1. CASE j = i + 1
        BY <2>4, <4>1
      <4>2. CASE j # i + 1
        <5>1. j \in 1..i /\ j \in 1..k /\ buf[j] \in Diffs /\ b.last \in Nat
          BY <1>1, <2>1, <2>2, <4>2 DEF Books
        <5>2. buf[j].u <= b.last /\ buf[j].u \in Nat
          BY <5>1 DEF Diffs
        <5>3. \A a, m, l \in Nat : a <= m /\ m <= l => a <= l
          OBVIOUS
        <5>. HIDE DEF b, d, Has
        <5>. QED
          BY <2>4, <5>1, <5>2, <5>3
      <4>. QED
        BY <4>1, <4>2
    <3>. QED
      BY <3>1
  <2>6. n <= after[i + 1].last
    BY <1>1, <2>2, <2>4 DEF Books
  <2>. QED
    BY <2>4, <2>5, <2>6
<1>5. k \in S
  <2>. HIDE DEF S
  <2>. QED BY <1>1, <1>3, <1>4, NumberInduction
<1>. QED
  BY <1>1, <1>2, <1>5

LEMMA InitSideInv == Init => SideInv
<1>. SUFFICES ASSUME Init PROVE SideInv
  OBVIOUS
<1>1. cur = None /\ mb.st = "closed" /\ mb.buf = << >> /\ chan = << >>
  BY DEF Init, ClosedBook
<1>2. FetchedForABook
  BY DEF Init, FetchedForABook, NoTask, Task
<1>. QED
  BY <1>1, <1>2, EmptySeq DEF SideInv, BookInMap, SpotDiffs

\* scheduleResync starts no fetch.
LEMMA ScheduledIsNoFetch ==
  ASSUME NEW desyncs, NEW m, ScheduleResync(desyncs, m), resync'.pc = "fetching"
  PROVE  resync' = resync
  BY DEF ScheduleResync, NoTask, Task

\* A dropped book leaves nothing that the properties speak of.
LEMMA DropBookSide ==
  ASSUME SideInv, DropBook, product' = product, resync' = resync,
         \A w \in Watches : watch'[w].pc = "fetching" => watch'[w] = watch[w]
  PROVE  SideInv'
<1>1. /\ cur' = None /\ mb' = ClosedBook
      /\ chan' = << >> \/ chan' = chan
  BY DEF DropBook, Release
<1>2. mb'.st = "closed" /\ mb'.buf = << >>
  BY <1>1 DEF ClosedBook
<1>3. FetchedForABook'
  BY DEF SideInv, FetchedForABook
<1>. QED
  BY <1>1, <1>2, <1>3, EmptySeq DEF SideInv, BookInMap, SpotDiffs

\* A step that keeps book, map and watches, and of the stream at most loses
\* diffs.
LEMMA StayingSide ==
  ASSUME SideInv, Stays(mb, mb'), UNCHANGED <<product, cur, closed>>,
         \A w \in Watches : watch'[w].pc = "fetching" => watch'[w].book # None,
         resync'.pc = "fetching" => resync'.book # None,
         product = "spot" => chan' \in Seq(SpotDiff)
  PROVE  SideInv'
  BY DEF SideInv, Stays, BookInMap, FetchedForABook, SpotDiffs

LEMMA StreamSide ==
  ASSUME IInv, SideInv, Trade \/ Publish \/ Reconnect \/ Rotate \/ Interrupt \/ StreamClosed
  PROVE  SideInv'
<1>0. /\ mb \in GoodManagedBooks(exId) /\ exId \in Nat /\ exPub \in Nat /\ Stays(mb, mb)
      /\ \A w \in Watches : watch[w].pc = "fetching" => watch[w].book # None
      /\ resync.pc = "fetching" => resync.book # None
      /\ product = "spot" => chan \in Seq(SpotDiff)
  BY DEF IInv, DataOK, TypeOK, SideInv, FetchedForABook, SpotDiffs, Stays
<1>1. CASE Trade \/ Reconnect
  BY <1>0, <1>1, StayingSide DEF Trade, Reconnect, exchange, stream, engine
<1>2. CASE Publish
  <2>1. product = "spot" => chan' \in Seq(SpotDiff)
    <3>1. SUFFICES ASSUME product = "spot" PROVE chan' \in Seq(SpotDiff)
      OBVIOUS
    <3>. DEFINE d == [U |-> exPub + 1, u |-> exId, pu |-> NoPu]
    <3>2. d \in SpotDiff
      BY <1>0, <1>2 DEF Publish, SpotDiff, Diffs, NoPu
    <3>3. chan' = Append(chan, d) \/ chan' = chan
      BY <1>2, <3>1 DEF Publish
    <3>. HIDE DEF d
    <3>. QED
      BY <1>0, <3>1, <3>2, <3>3, AppendProperties
  <2>. QED
    BY <1>0, <1>2, <2>1, StayingSide DEF Publish, engine
<1>3. CASE Rotate
  <2>1. product = "spot" => chan' \in Seq(SpotDiff)
    <3>1. SUFFICES ASSUME chan \in Seq(SpotDiff) PROVE chan' \in Seq(SpotDiff)
      BY <1>0
    <3>2. PICK k \in 1..Len(chan) : chan' = SubSeq(chan, k + 1, Len(chan))
      BY <1>3 DEF Rotate
    <3>3. Len(chan) \in Nat /\ \A i \in (k + 1)..Len(chan) : chan[i] \in SpotDiff
      BY <3>1, <3>2, LenProperties, ElementOfSeq
    <3>. QED
      BY <3>2, <3>3, SubSeqProperties
  <2>. QED
    BY <1>0, <1>3, <2>1, StayingSide DEF Rotate, exchange, engine
<1>4. CASE Interrupt \/ StreamClosed
  <2>1. PICK heard : InterruptBook(heard)
    BY <1>4 DEF Interrupt, StreamClosed
  <2>2. Stays(mb, mb')
    BY <1>0, <2>1, OthersStay DEF InterruptBook
  <2>3. resync'.pc = "fetching" => resync'.book # None
    BY <1>0, <2>1, ScheduledIsNoFetch DEF InterruptBook
  <2>4. chan' = << >> /\ chan' \in Seq(SpotDiff)
    BY <1>4, EmptySeq DEF Interrupt, StreamClosed
  <2>5. UNCHANGED <<product, cur, closed, watch>>
    BY <1>4 DEF Interrupt, StreamClosed, exchange
  <2>. QED
    BY <1>0, <2>2, <2>3, <2>4, <2>5, StayingSide
<1>. QED
  BY <1>1, <1>2, <1>3, <1>4

LEMMA EngineSide ==
  ASSUME IInv, SideInv, Deliver \/ Unwatch \/ Close
  PROVE  SideInv'
<1>1. CASE Unwatch
  BY <1>1, DropBookSide DEF Unwatch, exchange
<1>2. CASE Close
  BY <1>2, DropBookSide DEF Close, exchange
<1>3. CASE Deliver
  <2>0. /\ mb \in GoodManagedBooks(exId) /\ exId \in Nat /\ chan \in Seq(KnownDiffs(exId))
        /\ product = "spot" => chan \in Seq(SpotDiff) /\ mb.buf \in Seq(SpotDiff)
    BY DEF IInv, DataOK, TypeOK, SideInv, SpotDiffs
  <2>1. /\ chan # << >> /\ chan' = Tail(chan)
        /\ UNCHANGED <<product, cur, closed, watch>>
    BY <1>3 DEF Deliver, exchange
  <2>2. /\ Head(chan) \in KnownDiffs(exId)
        /\ product = "spot" => Head(chan) \in SpotDiff /\ chan' \in Seq(SpotDiff)
    BY <2>0, <2>1, HeadTailProperties
  <2>3. Cardinality(listening) \in Nat
    <3>1. listening \in SUBSET Watches
      BY DEF IInv, TypeOK
    <3>. QED
      BY <3>1, WatchesAssumption, FS_Subset, FS_CardinalityType
  <2>4. /\ mb'.st = "closed" <=> mb.st = "closed"
        /\ product = "spot" => mb'.buf \in Seq(SpotDiff)
    <3>1. CASE closed \/ cur = None
      BY <1>3, <2>0, <3>1 DEF Deliver
    <3>2. CASE ~(closed \/ cur = None)
      <4>1. mb' = ReceiveTimes(mb, Head(chan), Cardinality(listening))
        BY <1>3, <3>2 DEF Deliver
      <4>. QED
        BY <2>0, <2>2, <2>3, <4>1, ReceiveTimesShows DEF Stays
    <3>. QED
      BY <3>1, <3>2
  <2>5. resync'.pc = "fetching" => resync'.book # None
    <3>1. resync'.pc = "fetching" => resync' = resync
      BY <1>3, ScheduledIsNoFetch DEF Deliver
    <3>. QED
      BY <3>1 DEF SideInv, FetchedForABook
  <2>. QED
    BY <2>1, <2>2, <2>4, <2>5 DEF SideInv, BookInMap, FetchedForABook, SpotDiffs
<1>. QED
  BY <1>1, <1>2, <1>3

LEMMA WatchSide ==
  ASSUME IInv, SideInv, NEW w \in Watches, WatchStep(w)
  PROVE  SideInv'
<1>0. /\ mb \in GoodManagedBooks(exId) /\ exId \in Nat /\ Stays(mb, mb)
      /\ watch \in [Watches -> Tasks(WatchPcs)]
      /\ \A o \in Watches : watch[o].pc = "fetching" => watch[o].book # None
      /\ resync.pc = "fetching" => resync.book # None
      /\ product = "spot" => chan \in Seq(SpotDiff)
  BY DEF IInv, DataOK, TypeOK, SideInv, FetchedForABook, SpotDiffs, Stays
<1>1. ASSUME NEW t, t.pc = "fetching" => t.book # None, watch' = [watch EXCEPT ![w] = t]
      PROVE  \A o \in Watches : watch'[o].pc = "fetching" => watch'[o].book # None
  BY <1>0, <1>1
<1>2. CASE WatchExisting(w) \/ WatchRefused(w)
  <2>1. \A o \in Watches : watch'[o].pc = "fetching" => watch'[o].book # None
    BY <1>1, <1>2 DEF WatchExisting, WatchRefused, NoTask, Task
  <2>. QED
    BY <1>0, <1>2, <2>1, StayingSide DEF WatchExisting, WatchRefused, exchange, stream, engine
<1>3. CASE WatchStart(w)
  <2>1. \A o \in Watches : watch'[o].pc = "fetching" => watch'[o].book # None
    <3>. DEFINE t == NoTask(IF registered = {} THEN "subscribing" ELSE "joining")
    <3>1. t.pc # "fetching" /\ watch' = [watch EXCEPT ![w] = t]
      BY <1>3 DEF WatchStart, NoTask, Task
    <3>. HIDE DEF t
    <3>. QED
      BY <1>1, <3>1
  <2>2. cur' = w /\ w # None /\ mb'.st = "syncing" /\ mb'.buf = << >> /\ ~closed
    BY <1>3, WatchesAssumption DEF WatchStart, NewBook
  <2>3. UNCHANGED <<product, chan, closed, resync>>
    BY <1>3 DEF WatchStart, exchange
  <2>. QED
    BY <1>0, <2>1, <2>2, <2>3, EmptySeq DEF SideInv, BookInMap, FetchedForABook, SpotDiffs
<1>4. CASE WatchAcked(w) \/ WatchJoined(w)
  <2>1. AttachAndFetch(w)
    BY <1>4 DEF WatchAcked, WatchJoined
  <2>2. \A o \in Watches : watch'[o].pc = "fetching" => watch'[o].book # None
    <3>. DEFINE t == IF cur = None THEN Task("resolved", w, 0) ELSE Task("fetching", cur, exId)
    <3>1. /\ t.pc = "fetching" => t.book # None
          /\ watch' = [watch EXCEPT ![w] = t]
      BY <2>1 DEF AttachAndFetch, Task
    <3>. HIDE DEF t
    <3>. QED
      BY <1>1, <3>1
  <2>. QED
    BY <1>0, <2>1, <2>2, StayingSide DEF AttachAndFetch, exchange
<1>5. CASE WatchFails(w)
  <2>1. \A o \in Watches : watch'[o].pc = "fetching" => watch'[o] = watch[o]
    BY <1>0, <1>5 DEF WatchFails, NoTask, Task
  <2>. QED
    BY <1>5, <2>1, DropBookSide DEF WatchFails, exchange
<1>6. CASE WatchSnapshot(w)
  <2>1. \A o \in Watches : watch'[o].pc = "fetching" => watch'[o].book # None
    BY <1>1, <1>6 DEF WatchSnapshot, Task
  <2>2. Stays(mb, mb') /\ (resync'.pc = "fetching" => resync'.book # None)
    <3>1. CASE cur = watch[w].book
      <4>1. PICK n \in watch[w].asked .. exId :
              mb' = ApplySnapshot(mb, n) /\ ScheduleResync(TRUE, mb')
        BY <1>6, <3>1 DEF WatchSnapshot
      <4>2. n \in 0..exId
        BY <1>0, <4>1 DEF Tasks
      <4>. QED
        BY <1>0, <4>1, <4>2, OthersStay, ScheduledIsNoFetch
    <3>2. CASE cur # watch[w].book
      BY <1>0, <1>6, <3>2 DEF WatchSnapshot
    <3>. QED
      BY <3>1, <3>2
  <2>. QED
    BY <1>0, <1>6, <2>1, <2>2, StayingSide DEF WatchSnapshot, exchange, stream
<1>. QED
  BY <1>2, <1>3, <1>4, <1>5, <1>6 DEF WatchStep

LEMMA ResyncSide ==
  ASSUME IInv, SideInv, ResyncWakes \/ ResyncSnapshot \/ ResyncFails
  PROVE  SideInv'
<1>0. /\ mb \in GoodManagedBooks(exId) /\ exId \in Nat /\ Stays(mb, mb)
      /\ resync \in Tasks(ResyncPcs)
      /\ \A o \in Watches : watch[o].pc = "fetching" => watch[o].book # None
      /\ product = "spot" => chan \in Seq(SpotDiff)
  BY DEF IInv, DataOK, TypeOK, SideInv, FetchedForABook, SpotDiffs, Stays
<1>1. resync'.pc = "fetching" => resync'.book # None
  BY DEF ResyncWakes, ResyncSnapshot, ResyncFails, NoTask, Task
<1>2. Stays(mb, mb')
  <2>1. CASE ResyncSnapshot /\ cur = resync.book
    <3>1. PICK n \in resync.asked .. exId : mb' = ApplySnapshot(mb, n)
      BY <2>1 DEF ResyncSnapshot
    <3>2. n \in 0..exId
      BY <1>0, <3>1 DEF Tasks
    <3>. QED
      BY <1>0, <3>1, <3>2, OthersStay
  <2>2. CASE ~(ResyncSnapshot /\ cur = resync.book)
    BY <1>0, <2>2 DEF ResyncWakes, ResyncSnapshot, ResyncFails, engine
  <2>. QED
    BY <2>1, <2>2
<1>3. UNCHANGED <<product, cur, closed, watch, chan>>
  BY DEF ResyncWakes, ResyncSnapshot, ResyncFails, exchange, stream, engine
<1>. QED
  BY <1>0, <1>1, <1>2, <1>3, StayingSide

LEMMA NextSideInv == IInv /\ SideInv /\ [Next]_vars => SideInv'
<1>. SUFFICES ASSUME IInv, SideInv, [Next]_vars PROVE SideInv'
  OBVIOUS
<1>1. CASE Next
  BY <1>1, StreamSide, EngineSide, WatchSide, ResyncSide DEF Next
<1>2. CASE UNCHANGED vars
  BY <1>2 DEF vars, exchange, stream, engine, SideInv, BookInMap, FetchedForABook, SpotDiffs
<1>. QED
  BY <1>1, <1>2

\* A frame that leaves the book live is in it.
LEMMA FrameStep ==
  ASSUME IInv, SideInv, Deliver, listening # {}, mb'.st = "live"
  PROVE  mb'.book.last >= Head(chan).u
<1>0. mb \in GoodManagedBooks(exId) /\ exId \in Nat /\ chan \in Seq(KnownDiffs(exId))
  BY DEF IInv, DataOK, TypeOK
<1>1. Head(chan) \in KnownDiffs(exId)
  BY <1>0, HeadTailProperties DEF Deliver
<1>2. Cardinality(listening) \in Nat /\ Cardinality(listening) # 0
  <2>1. listening \in SUBSET Watches
    BY DEF IInv, TypeOK
  <2>. QED
    BY <2>1, WatchesAssumption, FS_Subset, FS_CardinalityType, FS_EmptySet
<1>3. ~(closed \/ cur = None)
  BY DEF Deliver, SideInv, BookInMap
<1>4. mb' = ReceiveTimes(mb, Head(chan), Cardinality(listening))
  BY <1>3 DEF Deliver
<1>. QED
  BY <1>0, <1>1, <1>2, <1>4, ReceiveTimesShows

\* A snapshot that arrives for the current book over a buffer of spot diffs
\* without a hole.
LEMMA SpotSnapshot ==
  ASSUME IInv, SideInv, product = "spot", NEW asked \in Nat, NEW n \in asked..exId,
         GapFree(mb.buf, asked), cur # None, mb' = ApplySnapshot(mb, n)
  PROVE  mb'.st = "live" /\ \A i \in DOMAIN mb.buf : mb.buf[i].u <= mb'.book.last
<1>1. /\ exId \in Nat /\ mb.buf \in Seq(KnownDiffs(exId)) /\ mb.buf \in Seq(SpotDiff)
      /\ mb.st # "closed"
  BY DEF IInv, TypeOK, DataOK, GoodManagedBooks, SideInv, SpotDiffs, BookInMap
<1>2. /\ IsSynced(SeededBook(n, mb.buf))
      /\ \A i \in DOMAIN mb.buf : mb.buf[i].u <= SeededBook(n, mb.buf).last
  BY <1>1, SeededSpotBook
<1>3. mb'.st = "live" /\ mb'.book = SeededBook(n, mb.buf)
  BY <1>1, <1>2 DEF ApplySnapshot
<1>. QED
  BY <1>2, <1>3

\* The steps that seed a book are those of the two tasks that fetch for it.
LEMMA SeedingStep ==
  ASSUME IInv, SideInv, [Next]_vars, product = "spot"
  PROVE  OverlapApplied
<1>. SUFFICES ASSUME SeedStep
              PROVE  mb'.st = "live" /\ \A i \in DOMAIN mb.buf : mb.buf[i].u <= mb'.book.last
  BY DEF OverlapApplied
<1>0. /\ watch \in [Watches -> Tasks(WatchPcs)] /\ resync \in Tasks(ResyncPcs)
      /\ faults \in [FaultKinds -> Nat]
  BY DEF IInv, TypeOK
<1>1. CASE \E w \in Watches : SeedsFrom(watch[w]) /\ watch'[w].pc = "resolved"
  <2>1. PICK w \in Watches : SeedsFrom(watch[w]) /\ watch'[w].pc = "resolved"
    BY <1>1
  <2>2. /\ watch[w].pc = "fetching" /\ watch[w].book = cur /\ GapFree(mb.buf, watch[w].asked)
        /\ watch[w].asked \in Nat /\ cur # None
    BY <1>0, <2>1 DEF SeedsFrom, SideInv, FetchedForABook, Tasks
  <2>3. PICK o \in Watches : WatchStep(o)
    <3>1. watch' # watch
      BY <2>1, <2>2
    <3>. QED
      BY <3>1 DEF Next, vars, Trade, Publish, Reconnect, Rotate, Interrupt, StreamClosed, Deliver,
         Unwatch, Close, ResyncWakes, ResyncSnapshot, ResyncFails
  <2>4. o = w
    <3>1. ASSUME o # w PROVE watch'[w] = watch[w]
      BY <1>0, <2>3, <3>1 DEF WatchStep, WatchExisting, WatchRefused, WatchStart, WatchAcked,
         WatchJoined, AttachAndFetch, WatchFails, WatchSnapshot
    <3>. QED
      BY <2>1, <2>2, <3>1
  <2>5. WatchSnapshot(w)
    <3>1. ~WatchFails(w)
      BY <1>0, <2>1 DEF WatchFails, NoTask, Task
    <3>. QED
      BY <2>2, <2>3, <2>4, <3>1 DEF WatchStep, WatchExisting, WatchRefused, WatchStart, WatchAcked,
         WatchJoined
  <2>6. PICK n \in watch[w].asked .. exId : mb' = ApplySnapshot(mb, n)
    BY <2>2, <2>5 DEF WatchSnapshot
  <2>. QED
    BY <2>2, <2>6, SpotSnapshot
<1>2. CASE SeedsFrom(resync) /\ resync'.pc = "idle" /\ faults' = faults
  <2>1. /\ resync.pc = "fetching" /\ resync.book = cur /\ GapFree(mb.buf, resync.asked)
        /\ resync.asked \in Nat /\ cur # None
    BY <1>0, <1>2 DEF SeedsFrom, SideInv, FetchedForABook, Tasks
  <2>2. \A desyncs, m : ~ScheduleResync(desyncs, m)
    BY <1>2, <2>1 DEF ScheduleResync
  <2>3. ~ResyncFails
    BY <1>0, <1>2 DEF ResyncFails, Fault, FaultKinds
  <2>4. ResyncSnapshot
    <3>1. resync' # resync
      BY <1>2, <2>1
    <3>. QED
      BY <2>1, <2>2, <2>3, <3>1 DEF Next, vars, Trade, Publish, Reconnect, Rotate, Interrupt,
         StreamClosed, InterruptBook, Deliver, Unwatch, Close, ResyncWakes, WatchStep,
         WatchExisting, WatchRefused, WatchStart, WatchAcked, WatchJoined, AttachAndFetch,
         WatchFails, WatchSnapshot
  <2>5. PICK n \in resync.asked .. exId : mb' = ApplySnapshot(mb, n)
    BY <2>1, <2>4 DEF ResyncSnapshot
  <2>. QED
    BY <2>1, <2>5, SpotSnapshot
<1>. QED
  BY <1>1, <1>2 DEF SeedStep

----------------------------------------------------------------------------
(* The theorems *)

\* The invariant holds in every reachable state.
THEOREM Inductive == Spec => []IInv
  BY InitIInv, NextIInv, PTL DEF Spec

\* Every variable of the engine, the stream and the exchange keeps its type;
\* a listener is attached only to a registered subscription.
THEOREM TypeCorrect == Spec => []TypeOK
<1>1. IInv => TypeOK
  BY DEF IInv
<1>. QED
  BY <1>1, Inductive, PTL

\* A book in sync carries exactly the exchange's updates up to lastUpdateId,
\* and a book shown as live is in sync.
THEOREM ExactBook == Spec => []BookExact
<1>1. IInv => BookExact
  BY DEF IInv, DataOK, GoodManagedBooks, GoodBooks, BookExact
<1>. QED
  BY <1>1, Inductive, PTL

\* Map, tasks and diffs belong together in every reachable state.
THEOREM SideInvariant == Spec => []SideInv
<1>1. Spec => []IInv
  BY Inductive
<1>. QED
  BY <1>1, InitSideInv, NextSideInv, PTL DEF Spec

\* A book that is live after a frame includes it, whatever was lost before.
THEOREM FrameIncluded == Spec => LiveAfterFrame
<1>1. IInv /\ SideInv /\ [Next]_vars =>
        [Deliver /\ listening # {} /\ mb'.st = "live"
           => mb'.book.last >= Head(chan).u]_vars
  BY FrameStep
<1>. QED
  BY <1>1, Inductive, SideInvariant, PTL DEF Spec, LiveAfterFrame

\* On spot, a snapshot that arrives over a buffer without a hole leaves the
\* book live with every buffered diff in it.
THEOREM SpotOverlap == Spec => SpotOverlapGoesLive
<1>1. IInv /\ SideInv /\ [Next]_vars => [product = "spot" => OverlapApplied]_vars
  BY SeedingStep
<1>. QED
  BY <1>1, Inductive, SideInvariant, PTL DEF Spec, SpotOverlapGoesLive
=============================================================================
