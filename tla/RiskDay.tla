------------------------------- MODULE RiskDay -------------------------------
(***************************************************************************)
(* The daily state of RiskGateway (realized PnL, failure streak, circuit   *)
(* breaker, UTC day), RealizedPnlFeed, which feeds it from the exchange's  *)
(* income ledger page by page, and a host that saves persistedState() and  *)
(* boots as both classes document: restoreDailyState of the saved state,   *)
(* then seedToday(), then poll() again and again.                          *)
(*                                                                         *)
(* Income rows are numbered in the order of their times, all distinct.     *)
(* Every await is a step boundary: midnight, new income, failures, an      *)
(* operator's reset or a crash may fall between two pages.                 *)
(***************************************************************************)
EXTENDS Integers, Sequences, FiniteSetsExt

CONSTANTS
  Amounts,       \* what a row of income may be worth
  MaxDailyLoss,  \* maxDailyLoss
  MaxFailures,   \* maxConsecutiveFailures
  PageSize,      \* pageSize of an income request
  MaxDay,        \* bound: midnights
  MaxRows,       \* bound: income rows
  MaxStreak,     \* bound: consecutive failures
  MaxFaults      \* bound: crashes and failed requests

ASSUME RiskDayAssumption ==
  /\ Amounts \subseteq Int
  /\ {MaxDailyLoss, MaxFailures, PageSize} \subseteq Nat \ {0}
  /\ {MaxDay, MaxRows, MaxStreak, MaxFaults} \subseteq Nat

VARIABLES
  today,      \* the UTC day
  income,     \* the exchange's ledger: rows of day and amount
  up,         \* the process runs
  gw,         \* RiskGateway: day, dailyPnl, breaker's reason, consecutiveFailures
  feed,       \* RealizedPnlFeed: day, and seen
  call,       \* the seedToday or poll under way: request sent, rows collected
  saved,      \* the last persistedState() in storage, or NotSaved
  faults,
  spanned,    \* history: midnight passed while this process awaited income
  reviewed,   \* history: an operator reset the breaker on this gateway day
  unsaved     \* history: an operator reset the breaker since a save with a trip

vars == <<today, income, up, gw, feed, call, saved, faults, spanned, reviewed, unsaved>>

None == "none"
NoCall == [kind |-> None, start |-> 0, end |-> 0, rows |-> {}]
NotSaved == [day |-> -1, pnl |-> 0, breaker |-> None, failures |-> 0]

\* What a set of rows of a ledger adds up to.
SumOf(ledger, rows) ==
  LET sum[i \in 0..Len(ledger)] ==
        IF i = 0 THEN 0 ELSE sum[i - 1] + (IF i \in rows THEN ledger[i].amount ELSE 0)
  IN sum[Len(ledger)]

Total(rows) == SumOf(income, rows)

Fault == faults < MaxFaults /\ faults' = faults + 1

----------------------------------------------------------------------------
(* RiskGateway *)

\* Mutant: the day roll clears whatever tripped the breaker.
RolledAll(g) ==
  IF g.day = today THEN g
  ELSE [day |-> today, pnl |-> 0, breaker |-> None, failures |-> 0]

\* rollDayIfNeeded: a new day clears the PnL and a daily-loss trip.
Rolled(g) ==
  IF g.day = today THEN g
  ELSE IF g.breaker = "maxDailyLoss"
       THEN [day |-> today, pnl |-> 0, breaker |-> None, failures |-> 0]
       ELSE [g EXCEPT !.day = today, !.pnl = 0]

\* trip: the first reason stays.
Tripped(g, reason) == IF g.breaker = None THEN [g EXCEPT !.breaker = reason] ELSE g

RecordRealizedPnl(g, delta) ==
  LET r == [Rolled(g) EXCEPT !.pnl = @ + delta]
  IN IF -r.pnl >= MaxDailyLoss THEN Tripped(r, "maxDailyLoss") ELSE r

\* Mutant: the breaker becomes the snapshot's, tripped or not.
RestoreDailyStateExactly(g, state) ==
  IF state.day # today THEN g
  ELSE IF -state.pnl >= MaxDailyLoss THEN [state EXCEPT !.breaker = "maxDailyLoss"]
  ELSE state

\* A snapshot of another day is ignored; one of today replaces the PnL and the
\* streak, adds its trip, and a loss at the limit trips anew.
RestoreDailyState(g, state) ==
  IF state.day # today THEN g
  ELSE [state EXCEPT !.breaker = IF -state.pnl >= MaxDailyLoss THEN "maxDailyLoss"
                                 ELSE IF state.breaker # None THEN state.breaker
                                 ELSE g.breaker]

\* An order request: check() rolls the day before it looks at the breaker.
Check ==
  /\ up /\ gw.day # today
  /\ gw' = Rolled(gw)
  /\ reviewed' = FALSE
  /\ UNCHANGED <<today, income, up, feed, call, saved, faults, spanned, unsaved>>

RecordFailure ==
  /\ up /\ gw.failures < MaxStreak
  /\ LET g == [gw EXCEPT !.failures = @ + 1]
     IN gw' = IF g.failures >= MaxFailures THEN Tripped(g, "maxConsecutiveFailures") ELSE g
  /\ UNCHANGED <<today, income, up, feed, call, saved, faults, spanned, reviewed, unsaved>>

RecordSuccess ==
  /\ up /\ gw.failures > 0
  /\ gw' = [gw EXCEPT !.failures = 0]
  /\ UNCHANGED <<today, income, up, feed, call, saved, faults, spanned, reviewed, unsaved>>

ResetBreaker ==
  /\ up /\ gw.breaker # None
  /\ gw' = [gw EXCEPT !.breaker = None, !.failures = 0]
  /\ reviewed' = TRUE
  /\ unsaved' = (saved.breaker # None)
  /\ UNCHANGED <<today, income, up, feed, call, saved, faults, spanned>>

----------------------------------------------------------------------------
(* RealizedPnlFeed *)

\* A request for the rows of the UTC day, up to the given one.
Request(kind, end, rows) == [kind |-> kind, start |-> today, end |-> end, rows |-> rows]

\* poll(): a new day empties seen.
Poll ==
  /\ up /\ call.kind = None
  /\ feed' = IF feed.day = today THEN feed ELSE [day |-> today, seen |-> {}]
  /\ call' = Request("poll", MaxRows, {})
  /\ UNCHANGED <<today, income, up, gw, saved, faults, spanned, reviewed, unsaved>>

Asked == {r \in DOMAIN income : r <= call.end /\ income[r].day >= call.start}
Newest(rows) == {r \in rows : Cardinality({q \in rows : q > r}) < PageSize}

\* Mutant: a poll records every row of the page, known or not.
PollRecordedTwice(rows) ==
  LET delta == Total(rows)
  IN /\ gw' = IF delta # 0 THEN RecordRealizedPnl(gw, delta) ELSE gw
     /\ feed' = [feed EXCEPT !.seen = @ \union rows]

\* The end of poll(): the rows not yet seen are recorded, as one delta.
PollRecorded(rows) ==
  LET delta == Total(rows \ feed.seen)
  IN /\ gw' = IF delta # 0 THEN RecordRealizedPnl(gw, delta) ELSE gw
     /\ feed' = [feed EXCEPT !.seen = @ \union rows]

\* The end of seedToday(): the day's sum replaces the PnL, and no snapshot's
\* streak or breaker is given.  seen grows; the feed's day stays.
SeedRecorded(rows) ==
  /\ gw' = RestoreDailyState(gw, [day |-> today, pnl |-> Total(rows), breaker |-> None, failures |-> 0])
  /\ feed' = [feed EXCEPT !.seen = @ \union rows]

\* Mutant: one page is enough.
PageArrivesOnce ==
  /\ up /\ call.kind # None
  /\ call' = NoCall
  /\ IF call.kind = "poll" THEN PollRecorded(Newest(Asked)) ELSE SeedRecorded(Newest(Asked))
  /\ reviewed' = (reviewed /\ gw'.day = gw.day)
  /\ UNCHANGED <<today, income, up, saved, faults, spanned, unsaved>>

\* A page arrives; a full one that ends inside the current day asks for more.
PageArrives ==
  /\ up /\ call.kind # None
  /\ LET page == Newest(Asked)
         rows == call.rows \union page
     IN IF Cardinality(page) = PageSize /\ income[Min(page)].day >= today
        THEN /\ call' = Request(call.kind, Min(page) - 1, rows)
             /\ UNCHANGED <<gw, feed, reviewed>>
        ELSE /\ call' = NoCall
             /\ IF call.kind = "poll" THEN PollRecorded(rows) ELSE SeedRecorded(rows)
             /\ reviewed' = (reviewed /\ gw'.day = gw.day)
  /\ UNCHANGED <<today, income, up, saved, faults, spanned, unsaved>>

\* A poll that fails has recorded nothing.
PollFails ==
  /\ up /\ call.kind = "poll"
  /\ Fault
  /\ call' = NoCall
  /\ UNCHANGED <<today, income, up, gw, feed, saved, spanned, reviewed, unsaved>>

----------------------------------------------------------------------------
(* The host and its surroundings *)

\* The exchange books income: of this process, an earlier one, or anyone.
Book ==
  /\ Len(income) < MaxRows
  /\ \E a \in Amounts : income' = Append(income, [day |-> today, amount |-> a])
  /\ UNCHANGED <<today, up, gw, feed, call, saved, faults, spanned, reviewed, unsaved>>

Midnight ==
  /\ today < MaxDay
  /\ today' = today + 1
  /\ spanned' = (spanned \/ call.kind # None)
  /\ UNCHANGED <<income, up, gw, feed, call, saved, faults, reviewed, unsaved>>

\* persistedState() rolls the day first.
Save ==
  /\ up
  /\ gw' = Rolled(gw)
  /\ saved' = gw'
  /\ reviewed' = (reviewed /\ gw'.day = gw.day)
  /\ unsaved' = FALSE
  /\ UNCHANGED <<today, income, up, feed, call, faults, spanned>>

Fresh(day) == [day |-> day, pnl |-> 0, breaker |-> None, failures |-> 0]

\* The process dies, at any moment or because seedToday() failed: its memory
\* is gone.
Crash ==
  /\ up
  /\ Fault
  /\ up' = FALSE
  /\ gw' = Fresh(0)
  /\ feed' = [day |-> 0, seen |-> {}]
  /\ call' = NoCall
  /\ spanned' = FALSE
  /\ reviewed' = FALSE
  /\ UNCHANGED <<today, income, saved, unsaved>>

\* A new gateway and a new feed; the saved state, then seedToday().
Boot ==
  /\ ~up
  /\ up' = TRUE
  /\ gw' = RestoreDailyState(Fresh(today), saved)
  /\ feed' = [day |-> today, seen |-> {}]
  /\ call' = Request("seed", MaxRows, {})
  /\ UNCHANGED <<today, income, saved, faults, spanned, reviewed, unsaved>>

Init ==
  /\ today = 0
  /\ income = << >>
  /\ up = FALSE
  /\ gw = Fresh(0)
  /\ feed = [day |-> 0, seen |-> {}]
  /\ call = NoCall
  /\ saved = NotSaved
  /\ faults = 0
  /\ spanned = FALSE
  /\ reviewed = FALSE
  /\ unsaved = FALSE

Next ==
  \/ Check \/ RecordFailure \/ RecordSuccess \/ ResetBreaker
  \/ Poll \/ PageArrives \/ PollFails
  \/ Book \/ Midnight \/ Save \/ Crash \/ Boot

Spec == Init /\ [][Next]_vars

\* The host boots and polls, and requests are answered.
FairSpec == Spec /\ WF_vars(Boot) /\ WF_vars(Poll) /\ WF_vars(PageArrives)

----------------------------------------------------------------------------
(* Properties *)

SeedDone == up /\ call.kind # "seed"

\* Every row of income is counted once, on its own day: once the seed is done,
\* the day's PnL is the sum of the rows the feed has seen, all of that day.
\* Midnight must not have fallen into a request of this process.
CountedOnce ==
  SeedDone /\ ~spanned /\ gw.day = feed.day =>
    /\ gw.pnl = Total(feed.seen)
    /\ \A r \in feed.seen : income[r].day = gw.day

\* The same without the reservation: what RealizedPnlFeed's comment promises
\* of deduplication and of the day's watermark.
CountedOnceAlways ==
  SeedDone /\ gw.day = feed.day =>
    /\ gw.pnl = Total(feed.seen)
    /\ \A r \in feed.seen : income[r].day = gw.day

\* A restart never silently clears a trip: one that was saved today is still
\* there, after any number of crashes, boots, seeds and polls, unless an
\* operator reset the breaker after the save.
TripSurvives ==
  up /\ saved.breaker # None /\ saved.day = today => gw.breaker # None \/ unsaved

\* While the process runs, only an operator clears a trip, or the day roll
\* when it was for the daily loss.
OnlyReviewClears ==
  [][up /\ up' /\ gw.breaker # None /\ gw'.breaker = None =>
       \/ reviewed'
       \/ gw.breaker = "maxDailyLoss" /\ gw'.day > gw.day]_vars

\* A loss booked by any path stops trading: when the ledger's rows of today
\* add up to the limit, the breaker trips, unless the sum recovers or the day
\* ends first.  (Not if this process was reset or its income spanned midnight.)
RowsToday == {r \in DOMAIN income : income[r].day = today}

EventuallyTrips ==
  -Total(RowsToday) >= MaxDailyLoss ~>
    \/ up /\ gw.breaker # None
    \/ -Total(RowsToday) < MaxDailyLoss
    \/ reviewed \/ spanned

=============================================================================
