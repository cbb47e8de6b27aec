------------------------------ MODULE OrderBook ------------------------------
(***************************************************************************)
(* The local L2 book of one symbol (class OrderBook) and the lifecycle     *)
(* around it (class ManagedBook), as operators on records: the methods     *)
(* are synchronous, so the engine that drives them (module BookEngine)     *)
(* uses each of them inside one atomic step.                               *)
(*                                                                         *)
(* The price levels are abstracted to the set of exchange update ids whose *)
(* effect they carry: a snapshot taken at update id n carries 1..n, and a  *)
(* diff, which holds the absolute quantities of the levels changed by the  *)
(* updates U..u, adds U..u.  A book mirrors the exchange at lastUpdateId   *)
(* exactly when its content is 1..lastUpdateId.                            *)
(***************************************************************************)
EXTENDS Integers, Sequences

CONSTANT MaxBuffered  \* ManagedBookOptions.maxBufferedDiffs

ASSUME MaxBufferedAssumption == MaxBuffered \in Nat \ {0}

NoPu == -1            \* diff.pu === undefined: the diff comes from spot

Diffs == {d \in [U : Nat, u : Nat, pu : Int] : d.U >= 1 /\ d.U <= d.u}

BookStates == {"syncing", "live", "desynced", "closed"}

Books == [content : SUBSET Nat, last : Nat, synced : BOOLEAN, desynced : BOOLEAN]

ManagedBooks == [st : BookStates, book : Books, buf : Seq(Diffs)]

----------------------------------------------------------------------------
(* OrderBook *)

\* lastUpdateId is null before the first snapshot; nothing reads it while
\* synced is false, so 0 stands for null.
EmptyBook == [content |-> {}, last |-> 0, synced |-> FALSE, desynced |-> FALSE]

IsSynced(b) == b.synced /\ ~b.desynced

SnapshotBook(n) == [content |-> 1..n, last |-> n, synced |-> TRUE, desynced |-> FALSE]

\* Futures: pu must equal the previous final update id.  Checked first, so
\* before the diff is known to be stale or to overlap.
BrokenChain(b, d) == d.pu # NoPu /\ d.pu # b.last

Stale(b, d) == d.u <= b.last

Gap(b, d) == d.U > b.last + 1

\* What applyDiff returns: FALSE when the caller must fetch a snapshot.
Accepts(b, d) == b.synced /\ ~BrokenChain(b, d) /\ (Stale(b, d) \/ ~Gap(b, d))

ApplyDiffUngated(b, d) == [b EXCEPT !.content = @ \union d.U..d.u, !.last = d.u]

\* Mutant: the continuity check compares with a later id (off by one).
ApplyDiffOffByOne(b, d) ==
  IF ~b.synced \/ Stale(b, d) THEN b
  ELSE IF BrokenChain(b, d) \/ d.U > b.last + 2 THEN [b EXCEPT !.desynced = TRUE]
  ELSE ApplyDiffUngated(b, d)

ApplyDiff(b, d) ==
  IF ~b.synced THEN b
  ELSE IF ~Accepts(b, d) THEN [b EXCEPT !.desynced = TRUE]
  ELSE IF Stale(b, d) THEN b
  ELSE ApplyDiffUngated(b, d)

----------------------------------------------------------------------------
(* ManagedBook *)

NewBook == [st |-> "syncing", book |-> EmptyBook, buf |-> << >>]

\* A closed book is out of the engine's map; nothing reads its levels.
ClosedBook == [st |-> "closed", book |-> EmptyBook, buf |-> << >>]

\* diffBuffer.push, then the oldest diffs drop while the buffer is too long.
PushDiff(buf, d) ==
  LET longer == Append(buf, d)
  IN  IF Len(longer) > MaxBuffered THEN Tail(longer) ELSE longer

\* Mutant: whatever arrives on a reconnected stream brings the book back.
ApplyLiveDiffTrusting(m, d) ==
  [m EXCEPT !.book = ApplyDiff(m.book, d), !.st = "live"]

ApplyLiveDiff(m, d) ==
  [m EXCEPT !.book = ApplyDiff(m.book, d),
            !.st = IF Accepts(m.book, d) THEN "live" ELSE "desynced"]

ReceiveDiff(m, d) ==
  IF m.st = "closed" THEN m
  ELSE IF ~IsSynced(m.book) THEN [m EXCEPT !.buf = PushDiff(m.buf, d)]
  ELSE ApplyLiveDiff(m, d)

\* One frame, handed to receiveDiff once by each listener on the stream.
ReceiveTimes(m, d, n) ==
  LET after[i \in 0..n] == IF i = 0 THEN m ELSE ReceiveDiff(after[i - 1], d)
  IN  after[n]

\* Mutant: the tail keeps only the diffs that start after the snapshot.
StartsAfterSnapshot(d, n) == d.U > n

\* The snapshot at n does not already cover the diff.
ExceedsSnapshot(d, n) == d.u > n

\* A snapshot at n, then the buffered tail that exceeds it, in order.
SeededBook(n, buf) ==
  LET after[i \in 0..Len(buf)] ==
        IF i = 0 THEN SnapshotBook(n)
        ELSE IF ExceedsSnapshot(buf[i], n) THEN ApplyDiff(after[i - 1], buf[i])
        ELSE after[i - 1]
  IN  after[Len(buf)]

ApplySnapshot(m, n) ==
  IF m.st = "closed" THEN m
  ELSE LET seeded == SeededBook(n, m.buf)
       IN  [st |-> IF IsSynced(seeded) THEN "live" ELSE "desynced",
            book |-> seeded, buf |-> << >>]

MarkInterrupted(m) == IF m.st = "live" THEN [m EXCEPT !.st = "desynced"] ELSE m

=============================================================================
