-------------------------- MODULE StreamPoolProofs --------------------------
(***************************************************************************)
(* Proofs about StreamPool for every set of streams and Subscriptions and  *)
(* every number of faults: its type invariant, that a live Subscription is *)
(* delivered, that a confirmed stream is subscribed, and that server and   *)
(* client agree when nothing is under way; all of them but for the streams *)
(* in doubt.                                                               *)
(***************************************************************************)
EXTENDS StreamPool, SequenceTheorems, TLAPS

\* What the state says of the socket being opened and of the timer.
Connection ==
  /\ next.purpose = "primary" <=> state = "CONNECTING"
  /\ timer => state \in {"RECONNECTING", "OPEN", "LOST"}
  /\ state = "LOST" => timer
  /\ state = "IDLE" => resync.at = "none"

Asks(r, op, s) == r.op = op /\ s \in r.streams

\* The server of subscriptions srv will carry s when it has served q.
CarriedBy(srv, q, s) ==
  \/ s \in srv /\ \A i \in DOMAIN q : ~Asks(q[i], "UNSUBSCRIBE", s)
  \/ \E i \in DOMAIN q :
       /\ Asks(q[i], "SUBSCRIBE", s)
       /\ \A j \in DOMAIN q : i < j => ~Asks(q[j], "UNSUBSCRIBE", s)

Carried(s) == CarriedBy(server, reqs, s)

\* A request a Subscription waits for subscribes to its stream.
OwnIn(q) ==
  \A i \in DOMAIN q : q[i].by \in Subs => q[i].op = "SUBSCRIBE" /\ q[i].streams = {StreamOf[q[i].by]}

OwnRequests == OwnIn(reqs) /\ OwnIn(acks)

\* A resynchronisation that outlives its socket puts every stream in doubt.
Orphaned == state # "OPEN" /\ resync.at # "none" => doubt = Streams

\* Subscribers are not told of a loss only while a reconnect is scheduled.
LiveOpen ==
  \A u \in Subs : sub[u] = "live" /\ StreamOf[u] \notin doubt => state \in {"OPEN", "LOST"}

ConfirmedDesired == \A s \in confirmed : s \in doubt \/ s \in desired

\* The LIST is the first request on its socket, and nothing is confirmed
\* before its answer.
ListOnly(q) == \A i \in DOMAIN q : q[i].by = "resync" => q[i].op = "LIST"
ListFirst ==
  state = "OPEN" /\ resync.at = "list" /\ doubt # Streams =>
    /\ confirmed = {}
    /\ ListOnly(reqs) /\ ListOnly(acks)
    /\ IF acks = << >> THEN reqs # << >> /\ Head(reqs).by = "resync"
       ELSE Head(acks).by = "resync"

\* What the answer to the LIST says, or will say.
Heard == IF acks = << >> THEN server ELSE Head(acks).streams

\* How far the resynchronisation has brought stream s.
Settled(s) ==
  CASE resync.at = "list" -> (Carried(s) <=> s \in desired) \/ (Carried(s) <=> s \in Heard)
    [] resync.at = "subscribe" -> /\ s \in desired => Carried(s)
                                  /\ Carried(s) => s \in desired \/ s \in resync.extra
    [] OTHER -> Carried(s) <=> s \in desired
Phase == state = "OPEN" => \A s \in Streams \ doubt : Settled(s)

\* A stream that is not confirmed, or for which a Subscription is pending, is
\* about to be confirmed, by the resynchronisation or by its own request.
WaitedIn(q, s) == \E i \in DOMAIN q : q[i].by \in Subs /\ s \in q[i].streams
Unfinished(s) == s \notin confirmed \/ \E u \in Subs : sub[u] = "pending" /\ StreamOf[u] = s
Expected(s) ==
  \/ resync.at = "list"
  \/ resync.at \in {"subscribe", "unsubscribe"} /\ s \in resync.has \union resync.missing
  \/ WaitedIn(reqs, s) \/ WaitedIn(acks, s)
Awaited ==
  state = "OPEN" => \A s \in desired \ doubt : Unfinished(s) => Expected(s)

IInv ==
  /\ TypeOK
  /\ Connection
  /\ OwnRequests
  /\ Orphaned
  /\ LiveOpen
  /\ ConfirmedDesired
  /\ ListFirst
  /\ Phase
  /\ Awaited

----------------------------------------------------------------------------
(* Queues of requests *)

LEMMA RequestType ==
  ASSUME NEW op \in Ops, NEW streams \in SUBSET Streams, NEW by \in Subs \union {"resync", "nobody"}
  PROVE  /\ Request(op, streams, by) \in Requests
         /\ Request(op, streams, by).op = op
         /\ Request(op, streams, by).streams = streams
         /\ Request(op, streams, by).by = by
  BY DEF Request, Requests

\* What a request at the end of a queue adds to it.
LEMMA AppendFacts ==
  ASSUME NEW q \in Seq(Requests), NEW r \in Requests
  PROVE  /\ Append(q, r) \in Seq(Requests)
         /\ Append(q, r) # << >>
         /\ DOMAIN Append(q, r) = DOMAIN q \union {Len(q) + 1}
         /\ \A i \in DOMAIN q : Append(q, r)[i] = q[i] /\ i < Len(q) + 1
         /\ Append(q, r)[Len(q) + 1] = r
         /\ q # << >> => Head(Append(q, r)) = Head(q)
         /\ q = << >> => Head(Append(q, r)) = r
<1>1. /\ Append(q, r) \in Seq(Requests)
      /\ Append(q, r) # << >>
      /\ Len(Append(q, r)) = Len(q) + 1
      /\ \A i \in 1..Len(q) : Append(q, r)[i] = q[i]
      /\ Append(q, r)[Len(q) + 1] = r
  BY AppendProperties
<1>2. Len(q) \in Nat /\ DOMAIN q = 1..Len(q) /\ DOMAIN Append(q, r) = 1..(Len(q) + 1)
  BY <1>1
<1>. HIDE DEF Requests
<1>. QED
  BY <1>1, <1>2

LEMMA TailFacts ==
  ASSUME NEW q \in Seq(Requests), q # << >>
  PROVE  /\ Head(q) \in Requests
         /\ Head(q) = q[1]
         /\ Tail(q) \in Seq(Requests)
         /\ \A i \in DOMAIN Tail(q) : i \in Nat /\ i + 1 \in DOMAIN q /\ Tail(q)[i] = q[i + 1]
         /\ \A i \in DOMAIN q : i = 1 \/ (i - 1 \in DOMAIN Tail(q) /\ Tail(q)[i - 1] = q[i])
         /\ 1 \in DOMAIN q
<1>1. /\ Head(q) \in Requests
      /\ Tail(q) \in Seq(Requests)
      /\ Len(Tail(q)) = Len(q) - 1
      /\ \A i \in 1..Len(Tail(q)) : Tail(q)[i] = q[i + 1]
  BY HeadTailProperties
<1>2. Len(q) \in Nat \ {0} /\ DOMAIN q = 1..Len(q) /\ DOMAIN Tail(q) = 1..(Len(q) - 1)
  BY <1>1, EmptySeq
<1>3. Head(q) = q[1]
  OBVIOUS
<1>. QED
  BY <1>1, <1>2, <1>3

\* A request joins a queue.
LEMMA AppendOwn ==
  ASSUME NEW q \in Seq(Requests), NEW r \in Requests
  PROVE  /\ OwnIn(q) /\ (r.by \in Subs => r.op = "SUBSCRIBE" /\ r.streams = {StreamOf[r.by]})
              => OwnIn(Append(q, r))
         /\ ListOnly(q) /\ (r.by = "resync" => r.op = "LIST") => ListOnly(Append(q, r))
         /\ \A s : WaitedIn(Append(q, r), s) <=> WaitedIn(q, s) \/ (r.by \in Subs /\ s \in r.streams)
<1>1. /\ DOMAIN Append(q, r) = DOMAIN q \union {Len(q) + 1}
      /\ \A i \in DOMAIN q : Append(q, r)[i] = q[i]
      /\ Append(q, r)[Len(q) + 1] = r
  BY AppendFacts
<1>. QED
  BY <1>1 DEF OwnIn, ListOnly, WaitedIn

\* A request leaves a queue.
LEMMA TailOwn ==
  ASSUME NEW q \in Seq(Requests), q # << >>
  PROVE  /\ OwnIn(q) => /\ OwnIn(Tail(q))
                        /\ Head(q).by \in Subs => /\ Head(q).op = "SUBSCRIBE"
                                                  /\ Head(q).streams = {StreamOf[Head(q).by]}
         /\ ListOnly(q) => ListOnly(Tail(q)) /\ (Head(q).by = "resync" => Head(q).op = "LIST")
         /\ \A s : WaitedIn(q, s) <=> WaitedIn(Tail(q), s) \/ (Head(q).by \in Subs /\ s \in Head(q).streams)
<1>1. /\ Head(q) = q[1] /\ 1 \in DOMAIN q
      /\ \A i \in DOMAIN Tail(q) : i + 1 \in DOMAIN q /\ Tail(q)[i] = q[i + 1]
      /\ \A i \in DOMAIN q : i = 1 \/ (i - 1 \in DOMAIN Tail(q) /\ Tail(q)[i - 1] = q[i])
  BY TailFacts
<1>2. OwnIn(q) => /\ OwnIn(Tail(q))
                  /\ Head(q).by \in Subs => /\ Head(q).op = "SUBSCRIBE"
                                            /\ Head(q).streams = {StreamOf[Head(q).by]}
  BY <1>1 DEF OwnIn
<1>3. ListOnly(q) => ListOnly(Tail(q)) /\ (Head(q).by = "resync" => Head(q).op = "LIST")
  BY <1>1 DEF ListOnly
<1>4. ASSUME NEW s
      PROVE  WaitedIn(q, s) <=> WaitedIn(Tail(q), s) \/ (Head(q).by \in Subs /\ s \in Head(q).streams)
  <2>1. ASSUME NEW i \in DOMAIN q, q[i].by \in Subs, s \in q[i].streams
        PROVE  WaitedIn(Tail(q), s) \/ (Head(q).by \in Subs /\ s \in Head(q).streams)
    <3>1. CASE i = 1
      BY <1>1, <2>1, <3>1
    <3>2. CASE i # 1
      BY <1>1, <2>1, <3>2 DEF WaitedIn
    <3>. QED
      BY <3>1, <3>2
  <2>2. WaitedIn(Tail(q), s) => WaitedIn(q, s)
    BY <1>1 DEF WaitedIn
  <2>3. Head(q).by \in Subs /\ s \in Head(q).streams => WaitedIn(q, s)
    BY <1>1 DEF WaitedIn
  <2>. QED
    BY <2>1, <2>2, <2>3 DEF WaitedIn
<1>. QED
  BY <1>2, <1>3, <1>4

LEMMA AppendSubscribe ==
  ASSUME NEW srv, NEW q \in Seq(Requests), NEW r \in Requests, r.op = "SUBSCRIBE", NEW s
  PROVE  CarriedBy(srv, Append(q, r), s) <=> s \in r.streams \/ CarriedBy(srv, q, s)
<1>. DEFINE p == Append(q, r)
<1>. DEFINE n == Len(q) + 1
<1>1. /\ DOMAIN p = DOMAIN q \union {n}
      /\ \A i \in DOMAIN q : p[i] = q[i] /\ i < n
      /\ p[n] = r
      /\ n \in Nat /\ \A i \in DOMAIN q : i \in Nat
  BY AppendFacts
<1>. HIDE DEF p, n
<1>2. ~Asks(p[n], "UNSUBSCRIBE", s) /\ (Asks(p[n], "SUBSCRIBE", s) <=> s \in r.streams)
  BY <1>1 DEF Asks
<1>3. (\A i \in DOMAIN p : ~Asks(p[i], "UNSUBSCRIBE", s)) <=> \A i \in DOMAIN q : ~Asks(q[i], "UNSUBSCRIBE", s)
  BY <1>1, <1>2
<1>4. ASSUME NEW i \in DOMAIN q
      PROVE  (\A j \in DOMAIN p : i < j => ~Asks(p[j], "UNSUBSCRIBE", s))
               <=> \A j \in DOMAIN q : i < j => ~Asks(q[j], "UNSUBSCRIBE", s)
  BY <1>1, <1>2
<1>5. \A j \in DOMAIN p : ~(n < j)
  BY <1>1
<1>6. CASE s \in r.streams
  BY <1>1, <1>2, <1>5, <1>6 DEF CarriedBy, p
<1>7. CASE s \notin r.streams
  <2>1. CarriedBy(srv, p, s) <=>
          \/ s \in srv /\ \A i \in DOMAIN q : ~Asks(q[i], "UNSUBSCRIBE", s)
          \/ \E i \in DOMAIN q :
               /\ Asks(q[i], "SUBSCRIBE", s)
               /\ \A j \in DOMAIN q : i < j => ~Asks(q[j], "UNSUBSCRIBE", s)
    BY <1>1, <1>2, <1>3, <1>4, <1>7 DEF CarriedBy
  <2>. QED
    BY <2>1, <1>7 DEF CarriedBy, p
<1>. QED
  BY <1>6, <1>7

LEMMA AppendUnsubscribe ==
  ASSUME NEW srv, NEW q \in Seq(Requests), NEW r \in Requests, r.op = "UNSUBSCRIBE", NEW s
  PROVE  CarriedBy(srv, Append(q, r), s) <=> s \notin r.streams /\ CarriedBy(srv, q, s)
<1>. DEFINE p == Append(q, r)
<1>. DEFINE n == Len(q) + 1
<1>1. /\ DOMAIN p = DOMAIN q \union {n}
      /\ \A i \in DOMAIN q : p[i] = q[i] /\ i < n
      /\ p[n] = r
      /\ n \in Nat /\ \A i \in DOMAIN q : i \in Nat
  BY AppendFacts
<1>. HIDE DEF p, n
<1>2. ~Asks(p[n], "SUBSCRIBE", s) /\ (Asks(p[n], "UNSUBSCRIBE", s) <=> s \in r.streams)
  BY <1>1 DEF Asks
<1>3. CASE s \in r.streams
  <2>1. ~CarriedBy(srv, p, s)
    BY <1>1, <1>2, <1>3 DEF CarriedBy
  <2>. QED
    BY <2>1, <1>3 DEF p
<1>4. CASE s \notin r.streams
  <2>1. (\A i \in DOMAIN p : ~Asks(p[i], "UNSUBSCRIBE", s)) <=> \A i \in DOMAIN q : ~Asks(q[i], "UNSUBSCRIBE", s)
    BY <1>1, <1>2, <1>4
  <2>2. ASSUME NEW i \in DOMAIN q
        PROVE  (\A j \in DOMAIN p : i < j => ~Asks(p[j], "UNSUBSCRIBE", s))
                 <=> \A j \in DOMAIN q : i < j => ~Asks(q[j], "UNSUBSCRIBE", s)
    BY <1>1, <1>2, <1>4
  <2>3. CarriedBy(srv, p, s) <=>
          \/ s \in srv /\ \A i \in DOMAIN q : ~Asks(q[i], "UNSUBSCRIBE", s)
          \/ \E i \in DOMAIN q :
               /\ Asks(q[i], "SUBSCRIBE", s)
               /\ \A j \in DOMAIN q : i < j => ~Asks(q[j], "UNSUBSCRIBE", s)
    BY <1>1, <1>2, <2>1, <2>2 DEF CarriedBy
  <2>. QED
    BY <2>3, <1>4 DEF CarriedBy, p
<1>. QED
  BY <1>3, <1>4

\* Serving a request moves it from the queue to the server's subscriptions.
Served(srv, r) ==
  CASE r.op = "SUBSCRIBE" -> srv \union r.streams
    [] r.op = "UNSUBSCRIBE" -> srv \ r.streams
    [] OTHER -> srv

LEMMA ServedCarried ==
  ASSUME NEW srv, NEW q \in Seq(Requests), q # << >>, NEW s
  PROVE  CarriedBy(Served(srv, Head(q)), Tail(q), s) <=> CarriedBy(srv, q, s)
<1>. DEFINE p == Tail(q)
<1>. DEFINE h == Head(q)
<1>1. /\ h = q[1] /\ 1 \in DOMAIN q
      /\ \A i \in DOMAIN p : i \in Nat /\ i + 1 \in DOMAIN q /\ p[i] = q[i + 1]
      /\ \A i \in DOMAIN q : i = 1 \/ (i - 1 \in DOMAIN p /\ p[i - 1] = q[i])
      /\ \A i \in DOMAIN q : i \in Nat \ {0}
      /\ \A i \in DOMAIN p : i \in Nat \ {0}
      /\ h \in Requests
  BY TailFacts
<1>. HIDE DEF p, h
<1>. DEFINE Free(r) == \A i \in DOMAIN r : ~Asks(r[i], "UNSUBSCRIBE", s)
<1>. DEFINE Last(r, i) == /\ Asks(r[i], "SUBSCRIBE", s)
                          /\ \A j \in DOMAIN r : i < j => ~Asks(r[j], "UNSUBSCRIBE", s)
<1>2. Free(q) <=> Free(p) /\ ~Asks(h, "UNSUBSCRIBE", s)
  BY <1>1
<1>3. \A i \in DOMAIN p : Last(p, i) <=> Last(q, i + 1)
  <2>. SUFFICES ASSUME NEW i \in DOMAIN p PROVE Last(p, i) <=> Last(q, i + 1)
    OBVIOUS
  <2>1. p[i] = q[i + 1]
    BY <1>1
  <2>2. ASSUME \A j \in DOMAIN p : i < j => ~Asks(p[j], "UNSUBSCRIBE", s), NEW j \in DOMAIN q, i + 1 < j
        PROVE  ~Asks(q[j], "UNSUBSCRIBE", s)
    <3>1. j # 1 /\ j - 1 \in DOMAIN p /\ p[j - 1] = q[j] /\ i < j - 1
      BY <1>1, <2>2
    <3>. QED
      BY <3>1, <2>2
  <2>3. ASSUME \A j \in DOMAIN q : i + 1 < j => ~Asks(q[j], "UNSUBSCRIBE", s), NEW j \in DOMAIN p, i < j
        PROVE  ~Asks(p[j], "UNSUBSCRIBE", s)
    <3>1. j + 1 \in DOMAIN q /\ p[j] = q[j + 1] /\ i + 1 < j + 1
      BY <1>1, <2>3
    <3>. QED
      BY <3>1, <2>3
  <2>. QED
    BY <2>1, <2>2, <2>3
<1>4. Last(q, 1) <=> Asks(h, "SUBSCRIBE", s) /\ Free(p)
  <2>1. ASSUME \A j \in DOMAIN q : 1 < j => ~Asks(q[j], "UNSUBSCRIBE", s), NEW j \in DOMAIN p
        PROVE  ~Asks(p[j], "UNSUBSCRIBE", s)
    <3>1. j + 1 \in DOMAIN q /\ p[j] = q[j + 1] /\ 1 < j + 1
      BY <1>1
    <3>. QED
      BY <3>1, <2>1
  <2>2. ASSUME Free(p), NEW j \in DOMAIN q, 1 < j
        PROVE  ~Asks(q[j], "UNSUBSCRIBE", s)
    <3>1. j # 1 /\ j - 1 \in DOMAIN p /\ p[j - 1] = q[j]
      BY <1>1, <2>2
    <3>. QED
      BY <3>1, <2>2
  <2>. QED
    BY <1>1, <2>1, <2>2
<1>5. (\E i \in DOMAIN q : Last(q, i)) <=> (\E i \in DOMAIN p : Last(p, i)) \/ Last(q, 1)
  <2>1. ASSUME NEW i \in DOMAIN q, Last(q, i), i # 1
        PROVE  \E k \in DOMAIN p : Last(p, k)
    <3>1. i - 1 \in DOMAIN p /\ (i - 1) + 1 = i
      BY <1>1, <2>1
    <3>2. Last(p, i - 1)
      BY <3>1, <1>3, <2>1
    <3>. QED
      BY <3>1, <3>2
  <2>2. ASSUME NEW i \in DOMAIN p, Last(p, i)
        PROVE  \E k \in DOMAIN q : Last(q, k)
    <3>1. i + 1 \in DOMAIN q /\ Last(q, i + 1)
      BY <1>1, <1>3, <2>2
    <3>. QED
      BY <3>1
  <2>. QED
    BY <1>1, <2>1, <2>2
<1>6. s \in Served(srv, h) <=> \/ Asks(h, "SUBSCRIBE", s)
                               \/ s \in srv /\ ~Asks(h, "UNSUBSCRIBE", s)
  BY DEF Served, Asks
<1>7. CarriedBy(srv, q, s) <=> (s \in srv /\ Free(q)) \/ \E i \in DOMAIN q : Last(q, i)
  BY DEF CarriedBy
<1>8. CarriedBy(Served(srv, h), p, s)
        <=> (s \in Served(srv, h) /\ Free(p)) \/ \E i \in DOMAIN p : Last(p, i)
  BY DEF CarriedBy
<1>. HIDE DEF Free, Last
<1>9. CarriedBy(Served(srv, h), p, s) <=> CarriedBy(srv, q, s)
  BY <1>2, <1>4, <1>5, <1>6, <1>7, <1>8
<1>. QED
  BY <1>9 DEF p, h

\* Giving up on the requests of one party leaves the queue as it is.
LEMMA AbandonedFacts ==
  ASSUME NEW q \in Seq(Requests), NEW by
  PROVE  /\ Abandoned(q, by) \in Seq(Requests)
         /\ DOMAIN Abandoned(q, by) = DOMAIN q
         /\ (Abandoned(q, by) = << >>) <=> (q = << >>)
         /\ \A i \in DOMAIN q :
              /\ Abandoned(q, by)[i].op = q[i].op
              /\ Abandoned(q, by)[i].streams = q[i].streams
              /\ Abandoned(q, by)[i].by = IF q[i].by = by THEN "nobody" ELSE q[i].by
<1>1. \A i \in DOMAIN q : q[i] \in Requests
  BY ElementOfSeq
<1>2. \A i \in DOMAIN q : Abandoned(q, by)[i] = IF q[i].by = by THEN [q[i] EXCEPT !.by = "nobody"] ELSE q[i]
  BY DEF Abandoned
<1>3. \A r \in Requests : /\ [r EXCEPT !.by = "nobody"] \in Requests
                          /\ [r EXCEPT !.by = "nobody"].op = r.op
                          /\ [r EXCEPT !.by = "nobody"].streams = r.streams
                          /\ [r EXCEPT !.by = "nobody"].by = "nobody"
  BY DEF Requests
<1>4. \A i \in DOMAIN q : Abandoned(q, by)[i] \in Requests
  BY <1>1, <1>2, <1>3
<1>5. DOMAIN q = 1..Len(q) /\ Len(q) \in Nat
  OBVIOUS
<1>6. Abandoned(q, by) = [i \in 1..Len(q) |-> Abandoned(q, by)[i]]
  BY <1>5 DEF Abandoned
<1>7. Abandoned(q, by) \in [1..Len(q) -> Requests]
  BY <1>4, <1>5, <1>6
<1>8. Abandoned(q, by) \in Seq(Requests) /\ Len(Abandoned(q, by)) = Len(q)
  BY <1>5, <1>7, SeqDef
<1>9. (Abandoned(q, by) = << >>) <=> (q = << >>)
  BY <1>8, EmptySeq
<1>10. ASSUME NEW i \in DOMAIN q
       PROVE  /\ Abandoned(q, by)[i].op = q[i].op
              /\ Abandoned(q, by)[i].streams = q[i].streams
              /\ Abandoned(q, by)[i].by = IF q[i].by = by THEN "nobody" ELSE q[i].by
  <2>1. q[i] \in Requests
    BY <1>1
  <2>2. CASE q[i].by = by
    BY <1>2, <1>3, <2>1, <2>2
  <2>3. CASE q[i].by # by
    BY <1>2, <2>3
  <2>. QED
    BY <2>2, <2>3
<1>11. DOMAIN Abandoned(q, by) = DOMAIN q
  BY DEF Abandoned
<1>. QED
  BY <1>8, <1>9, <1>10, <1>11

LEMMA AbandonedCarried ==
  ASSUME NEW srv, NEW q \in Seq(Requests), NEW by, NEW s
  PROVE  CarriedBy(srv, Abandoned(q, by), s) <=> CarriedBy(srv, q, s)
<1>1. /\ DOMAIN Abandoned(q, by) = DOMAIN q
      /\ \A i \in DOMAIN q : \A op : Asks(Abandoned(q, by)[i], op, s) <=> Asks(q[i], op, s)
  BY AbandonedFacts DEF Asks
<1>. QED
  BY <1>1 DEF CarriedBy

----------------------------------------------------------------------------
(* Subscribers *)

\* The type of everything but the desired streams.
LEMMA DesiredKept ==
  ASSUME TypeOK, desired' = desired,
         \A u \in Subs : sub'[u] \in {"pending", "live"} <=> sub[u] \in {"pending", "live"}
  PROVE  desired' = {StreamOf[u] : u \in {v \in Subs : IsOpenSub(v)'}}
  BY DEF TypeOK, IsOpenSub

LEMMA DesiredOpen ==
  ASSUME TypeOK
  PROVE  \A s : s \in desired <=> \E u \in Subs : StreamOf[u] = s /\ sub[u] \in {"pending", "live"}
  BY DEF TypeOK, IsOpenSub

LEMMA InitIInv == Init => IInv
<1>. SUFFICES ASSUME Init PROVE IInv
  OBVIOUS
<1>. USE DEF Init
<1>1. TypeOK
  <2>1. NoSocket \in [purpose : {"none", "primary", "rotation"}, url : SUBSET Streams]
    BY DEF NoSocket
  <2>2. NoResync \in [at : {"none", "list", "subscribe", "unsubscribe"},
                      has : SUBSET Streams, missing : SUBSET Streams, extra : SUBSET Streams]
    BY DEF NoResync
  <2>3. desired = {StreamOf[u] : u \in {v \in Subs : IsOpenSub(v)}}
    BY DEF IsOpenSub
  <2>4. << >> \in Seq(Requests)
    BY EmptySeq
  <2>. QED
    BY <2>1, <2>2, <2>3, <2>4 DEF TypeOK, socketVars
<1>2. Connection /\ Orphaned /\ LiveOpen /\ ConfirmedDesired /\ ListFirst /\ Phase /\ Awaited
  BY DEF NoSocket, NoResync, Connection, Orphaned, LiveOpen, ConfirmedDesired, ListFirst, Phase, Awaited
<1>3. OwnRequests
  BY DEF OwnRequests, OwnIn
<1>. QED
  BY <1>1, <1>2, <1>3 DEF IInv

LEMMA JoinIInv == ASSUME IInv, NEW u \in Subs, Join(u) PROVE IInv'
<1>. DEFINE s == StreamOf[u]
<1>1. /\ TypeOK /\ s \in Streams
      /\ s \in desired /\ sub[u] = "none"
      /\ sub' = [sub EXCEPT ![u] = IF s \in confirmed THEN "live" ELSE "pending"]
      /\ doubt' = IF s \in confirmed /\ state # "OPEN" THEN doubt \union {s} ELSE doubt
      /\ UNCHANGED <<state, timer, next, desired, confirmed, server, reqs, acks, resync, faults>>
  BY StreamPoolAssumption DEF IInv, Join, socketVars
<1>2. /\ sub' \in [Subs -> {"none", "pending", "live", "closed"}]
      /\ \A v \in Subs \ {u} : sub'[v] = sub[v]
      /\ sub'[u] = IF s \in confirmed THEN "live" ELSE "pending"
  BY <1>1 DEF TypeOK
<1>3. desired' = {StreamOf[v] : v \in {w \in Subs : IsOpenSub(w)'}}
  <2>1. \A t : t \in desired <=> \E v \in Subs : StreamOf[v] = t /\ sub[v] \in {"pending", "live"}
    BY <1>1, DesiredOpen
  <2>2. \A t : t \in desired' <=> \E v \in Subs : StreamOf[v] = t /\ sub'[v] \in {"pending", "live"}
    BY <1>1, <1>2, <2>1
  <2>. QED
    BY <2>2 DEF IsOpenSub
<1>4. TypeOK'
  BY <1>1, <1>2, <1>3 DEF TypeOK, socketVars
<1>5. doubt \subseteq doubt' /\ doubt' \subseteq Streams
  BY <1>1, <1>4 DEF TypeOK
<1>6. Connection' /\ OwnRequests'
  BY <1>1 DEF IInv, Connection, OwnRequests
<1>7. Orphaned'
  BY <1>1, <1>5 DEF IInv, Orphaned, TypeOK
<1>8. LiveOpen'
  BY <1>1, <1>2 DEF IInv, LiveOpen
<1>9. ConfirmedDesired'
  BY <1>1 DEF IInv, ConfirmedDesired
<1>10. ListFirst'
  BY <1>1, <1>5 DEF IInv, ListFirst, TypeOK
<1>11. Phase'
  BY <1>1, <1>5 DEF IInv, Phase, Settled, Carried, Heard
<1>12. Awaited'
  <2>. SUFFICES ASSUME state' = "OPEN", NEW t \in desired' \ doubt', Unfinished(t)' PROVE Expected(t)'
    BY DEF Awaited
  <2>1. Unfinished(t)
    <3>1. CASE t \notin confirmed
      BY <3>1 DEF Unfinished
    <3>2. CASE t \in confirmed
      <4>1. PICK v \in Subs : sub'[v] = "pending" /\ StreamOf[v] = t
        BY <1>1, <3>2 DEF Unfinished
      <4>2. v # u
        BY <1>2, <3>2, <4>1
      <4>. QED
        BY <1>2, <4>1, <4>2 DEF Unfinished
    <3>. QED
      BY <3>1, <3>2
  <2>. QED
    BY <1>1, <1>5, <2>1 DEF IInv, Awaited, Expected
<1>. QED
  BY <1>4, <1>6, <1>7, <1>8, <1>9, <1>10, <1>11, <1>12 DEF IInv

LEMMA AcquireIInv == ASSUME IInv, NEW u \in Subs, Acquire(u) PROVE IInv'
<1>. DEFINE s == StreamOf[u]
<1>. DEFINE r == Request("SUBSCRIBE", {s}, u)
<1>1. /\ TypeOK /\ s \in Streams
      /\ s \notin desired /\ sub[u] = "none"
      /\ desired' = desired \union {s}
      /\ sub' = [sub EXCEPT ![u] = IF state = "OPEN" /\ s \in confirmed THEN "live" ELSE "pending"]
      /\ reqs' = IF state = "OPEN" /\ s \notin confirmed THEN Append(reqs, r) ELSE reqs
      /\ IF state = "IDLE"
         THEN state' = "CONNECTING" /\ next' = [purpose |-> "primary", url |-> desired']
         ELSE state' = state /\ next' = next
      /\ UNCHANGED <<timer, confirmed, server, acks, resync, doubt, faults>>
  BY StreamPoolAssumption DEF IInv, Acquire
<1>2. /\ sub' \in [Subs -> {"none", "pending", "live", "closed"}]
      /\ \A v \in Subs \ {u} : sub'[v] = sub[v]
      /\ sub'[u] = IF state = "OPEN" /\ s \in confirmed THEN "live" ELSE "pending"
  BY <1>1 DEF TypeOK
<1>3. /\ r \in Requests /\ r.op = "SUBSCRIBE" /\ r.streams = {s} /\ r.by = u
  BY <1>1, RequestType DEF Ops
<1>. HIDE DEF r
<1>4. reqs' \in Seq(Requests)
  BY <1>1, <1>3, AppendFacts DEF TypeOK
<1>5. desired' \in SUBSET Streams /\ desired' = {StreamOf[v] : v \in {w \in Subs : IsOpenSub(w)'}}
  <2>1. \A t : t \in desired <=> \E v \in Subs : StreamOf[v] = t /\ sub[v] \in {"pending", "live"}
    BY <1>1, DesiredOpen
  <2>2. \A t : t \in desired' <=> \E v \in Subs : StreamOf[v] = t /\ sub'[v] \in {"pending", "live"}
    BY <1>1, <1>2, <2>1
  <2>3. desired' \subseteq Streams
    BY <2>2, StreamPoolAssumption
  <2>. QED
    BY <2>2, <2>3 DEF IsOpenSub
<1>6. TypeOK'
  <2>1. next' \in [purpose : {"none", "primary", "rotation"}, url : SUBSET Streams]
    BY <1>1, <1>5 DEF TypeOK
  <2>2. state' \in {"IDLE", "CONNECTING", "OPEN", "LOST", "RECONNECTING"}
    BY <1>1 DEF TypeOK
  <2>3. state' # "OPEN" => state # "OPEN" /\ reqs' = reqs
    BY <1>1
  <2>4. UNCHANGED <<timer, confirmed, server, acks, resync, doubt, faults>>
    BY <1>1
  <2>5. TypeOK
    BY <1>1
  <2>. QED
    BY <1>2, <1>4, <1>5, <2>1, <2>2, <2>3, <2>4, <2>5 DEF TypeOK, socketVars
<1>7. state' = "OPEN" <=> state = "OPEN"
  BY <1>1
<1>8. Connection'
  BY <1>1 DEF IInv, Connection
<1>9. OwnRequests'
  <2>1. OwnIn(reqs) /\ OwnIn(acks)
    BY DEF IInv, OwnRequests
  <2>2. OwnIn(reqs')
    BY <1>1, <1>3, <2>1, AppendOwn DEF TypeOK
  <2>. QED
    BY <1>1, <2>1, <2>2 DEF OwnRequests
<1>10. Orphaned'
  BY <1>1, <1>7 DEF IInv, Orphaned
<1>11. LiveOpen'
  BY <1>1, <1>2, <1>7 DEF IInv, LiveOpen
<1>12. ConfirmedDesired'
  BY <1>1 DEF IInv, ConfirmedDesired
<1>13. ListFirst'
  <2>. SUFFICES ASSUME state' = "OPEN" /\ resync'.at = "list" /\ doubt' # Streams
                PROVE  /\ confirmed' = {}
                       /\ ListOnly(reqs') /\ ListOnly(acks')
                       /\ IF acks' = << >> THEN reqs' # << >> /\ Head(reqs').by = "resync"
                          ELSE Head(acks').by = "resync"
    BY DEF ListFirst, ListOnly
  <2>1. /\ confirmed = {}
        /\ ListOnly(reqs) /\ ListOnly(acks)
        /\ IF acks = << >> THEN reqs # << >> /\ Head(reqs).by = "resync"
           ELSE Head(acks).by = "resync"
    BY <1>1, <1>7 DEF IInv, ListFirst
  <2>2. reqs \in Seq(Requests) /\ reqs' = Append(reqs, r)
    BY <1>1, <1>7, <2>1 DEF TypeOK
  <2>3. r.by # "resync"
    BY <1>3, StreamPoolAssumption
  <2>4. ListOnly(reqs')
    BY <1>3, <2>1, <2>2, <2>3, AppendOwn
  <2>5. reqs' # << >> /\ (reqs # << >> => Head(reqs') = Head(reqs))
    BY <1>3, <2>2, AppendFacts
  <2>. QED
    BY <1>1, <2>1, <2>4, <2>5
<1>14. Phase'
  <2>. SUFFICES ASSUME state' = "OPEN", NEW t \in Streams \ doubt' PROVE Settled(t)'
    BY DEF Phase
  <2>1. state = "OPEN" /\ t \notin doubt
    BY <1>1, <1>7
  <2>2. Settled(t)
    BY <2>1 DEF IInv, Phase
  <2>3. CASE s \in confirmed
    <3>1. t # s /\ reqs' = reqs
      BY <1>1, <2>1, <2>3 DEF IInv, ConfirmedDesired
    <3>. QED
      BY <1>1, <2>2, <3>1 DEF Settled, Carried, Heard
  <2>4. CASE s \notin confirmed
    <3>1. CarriedBy(server', reqs', t) <=> t = s \/ CarriedBy(server, reqs, t)
      BY <1>1, <1>3, <2>1, <2>4, AppendSubscribe DEF TypeOK
    <3>2. CASE t = s
      BY <1>1, <3>1, <3>2 DEF Settled, Carried
    <3>3. CASE t # s
      BY <1>1, <2>2, <3>1, <3>3 DEF Settled, Carried, Heard
    <3>. QED
      BY <3>2, <3>3
  <2>. QED
    BY <2>3, <2>4
<1>15. Awaited'
  <2>. SUFFICES ASSUME state' = "OPEN", NEW t \in desired' \ doubt', Unfinished(t)' PROVE Expected(t)'
    BY DEF Awaited
  <2>1. state = "OPEN" /\ t \notin doubt
    BY <1>1, <1>7
  <2>2. CASE t = s
    <3>1. reqs' = Append(reqs, r)
      BY <1>1, <2>1, <2>2 DEF IInv, ConfirmedDesired
    <3>2. WaitedIn(reqs', t)
      BY <1>1, <1>3, <2>2, <3>1, AppendOwn DEF TypeOK
    <3>. QED
      BY <3>2 DEF Expected
  <2>3. CASE t # s
    <3>1. Unfinished(t)
      BY <1>1, <1>2, <2>3 DEF Unfinished
    <3>2. Expected(t)
      BY <1>1, <2>1, <2>3, <3>1 DEF IInv, Awaited
    <3>3. WaitedIn(reqs, t) => WaitedIn(reqs', t)
      BY <1>1, <1>3, AppendOwn DEF TypeOK
    <3>. QED
      BY <1>1, <3>2, <3>3 DEF Expected
  <2>. QED
    BY <2>2, <2>3
<1>. QED
  BY <1>6, <1>8, <1>9, <1>10, <1>11, <1>12, <1>13, <1>14, <1>15 DEF IInv

LEMMA ReleaseIInv == ASSUME IInv, NEW u \in Subs, Release(u) PROVE IInv'
<1>. DEFINE s == StreamOf[u]
<1>. DEFINE r == Request("UNSUBSCRIBE", {s}, "nobody")
<1>. DEFINE last == \A v \in Subs \ {u} : StreamOf[v] = s => sub[v] \notin {"pending", "live"}
<1>1. /\ TypeOK /\ s \in Streams
      /\ sub[u] \in {"pending", "live"}
      /\ sub' = [sub EXCEPT ![u] = "closed"]
      /\ desired' = desired \ (IF last THEN {s} ELSE {})
      /\ confirmed' = confirmed \ (IF last THEN {s} ELSE {})
      /\ reqs' = IF last /\ state = "OPEN" THEN Append(reqs, r) ELSE reqs
      /\ UNCHANGED <<state, timer, next, server, acks, resync, doubt, faults>>
  BY StreamPoolAssumption DEF IInv, Release, IsOpenSub
<1>2. /\ sub' \in [Subs -> {"none", "pending", "live", "closed"}]
      /\ \A v \in Subs \ {u} : sub'[v] = sub[v]
      /\ sub'[u] = "closed"
  BY <1>1 DEF TypeOK
<1>3. /\ r \in Requests /\ r.op = "UNSUBSCRIBE" /\ r.streams = {s} /\ r.by = "nobody"
  BY <1>1, RequestType DEF Ops
<1>. HIDE DEF r
<1>4. reqs' \in Seq(Requests)
  BY <1>1, <1>3, AppendFacts DEF TypeOK
<1>5. desired' = {StreamOf[v] : v \in {w \in Subs : IsOpenSub(w)'}}
  <2>1. \A t : t \in desired <=> \E v \in Subs : StreamOf[v] = t /\ sub[v] \in {"pending", "live"}
    BY <1>1, DesiredOpen
  <2>2. \A t : t \in desired' <=> \E v \in Subs : StreamOf[v] = t /\ sub'[v] \in {"pending", "live"}
    BY <1>1, <1>2, <2>1
  <2>. QED
    BY <2>2 DEF IsOpenSub
<1>. HIDE DEF last
<1>6. TypeOK'
  <2>1. state' # "OPEN" => reqs' = reqs
    BY <1>1
  <2>2. confirmed' \subseteq Streams
    BY <1>1 DEF TypeOK
  <2>3. UNCHANGED <<state, timer, next, server, acks, resync, doubt, faults>> /\ TypeOK
    BY <1>1
  <2>. QED
    BY <1>2, <1>4, <1>5, <2>1, <2>2, <2>3 DEF TypeOK, socketVars
<1>7. Connection' /\ Orphaned'
  BY <1>1 DEF IInv, Connection, Orphaned
<1>8. OwnRequests'
  <2>1. OwnIn(reqs) /\ OwnIn(acks) /\ "nobody" \notin Subs
    BY StreamPoolAssumption DEF IInv, OwnRequests
  <2>2. OwnIn(reqs')
    BY <1>1, <1>3, <2>1, AppendOwn DEF TypeOK
  <2>. QED
    BY <1>1, <2>1, <2>2 DEF OwnRequests
<1>9. LiveOpen'
  BY <1>1, <1>2 DEF IInv, LiveOpen
<1>10. ConfirmedDesired'
  BY <1>1 DEF IInv, ConfirmedDesired
<1>11. ListFirst'
  <2>. SUFFICES ASSUME state' = "OPEN" /\ resync'.at = "list" /\ doubt' # Streams
                PROVE  /\ confirmed' = {}
                       /\ ListOnly(reqs') /\ ListOnly(acks')
                       /\ IF acks' = << >> THEN reqs' # << >> /\ Head(reqs').by = "resync"
                          ELSE Head(acks').by = "resync"
    BY DEF ListFirst, ListOnly
  <2>1. /\ confirmed = {}
        /\ ListOnly(reqs) /\ ListOnly(acks)
        /\ IF acks = << >> THEN reqs # << >> /\ Head(reqs).by = "resync"
           ELSE Head(acks).by = "resync"
    BY <1>1 DEF IInv, ListFirst
  <2>2. reqs \in Seq(Requests)
    BY <1>1 DEF TypeOK
  <2>3. ListOnly(reqs')
    BY <1>1, <1>3, <2>1, <2>2, AppendOwn
  <2>4. reqs # << >> => reqs' # << >> /\ Head(reqs') = Head(reqs)
    BY <1>1, <1>3, <2>2, AppendFacts
  <2>. QED
    BY <1>1, <2>1, <2>3, <2>4
<1>12. Phase'
  <2>. SUFFICES ASSUME state' = "OPEN", NEW t \in Streams \ doubt' PROVE Settled(t)'
    BY DEF Phase
  <2>1. state = "OPEN" /\ t \notin doubt
    BY <1>1
  <2>2. Settled(t)
    BY <2>1 DEF IInv, Phase
  <2>3. CASE ~last
    BY <1>1, <2>2, <2>3 DEF Settled, Carried, Heard
  <2>4. CASE last
    <3>1. CarriedBy(server', reqs', t) <=> t # s /\ CarriedBy(server, reqs, t)
      BY <1>1, <1>3, <2>1, <2>4, AppendUnsubscribe DEF TypeOK
    <3>2. CASE t = s
      BY <1>1, <2>4, <3>1, <3>2 DEF Settled, Carried
    <3>3. CASE t # s
      BY <1>1, <2>2, <3>1, <3>3 DEF Settled, Carried, Heard
    <3>. QED
      BY <3>2, <3>3
  <2>. QED
    BY <2>3, <2>4
<1>13. Awaited'
  <2>. SUFFICES ASSUME state' = "OPEN", NEW t \in desired' \ doubt', Unfinished(t)' PROVE Expected(t)'
    BY DEF Awaited
  <2>1. state = "OPEN" /\ t \in desired \ doubt
    BY <1>1
  <2>2. Unfinished(t)
    <3>1. t \in confirmed => t \in confirmed'
      BY <1>1
    <3>2. \A v \in Subs : sub'[v] = "pending" => sub[v] = "pending"
      BY <1>2
    <3>. QED
      BY <3>1, <3>2 DEF Unfinished
  <2>3. Expected(t)
    BY <2>1, <2>2 DEF IInv, Awaited
  <2>4. WaitedIn(reqs, t) => WaitedIn(reqs', t)
    BY <1>1, <1>3, AppendOwn DEF TypeOK
  <2>. QED
    BY <1>1, <2>3, <2>4 DEF Expected
<1>. QED
  BY <1>6, <1>7, <1>8, <1>9, <1>10, <1>11, <1>12, <1>13 DEF IInv

----------------------------------------------------------------------------
(* The server, and answers nobody waits for *)

LEMMA ServeIInv == ASSUME IInv, Serve PROVE IInv'
<1>. DEFINE h == Head(reqs)
<1>. DEFINE a == IF h.op = "LIST" THEN [h EXCEPT !.streams = server] ELSE h
<1>1. /\ TypeOK /\ reqs # << >>
      /\ server' = Served(server, h)
      /\ acks' = Append(acks, a)
      /\ reqs' = Tail(reqs)
      /\ UNCHANGED <<state, timer, next, desired, confirmed, resync, sub, doubt, faults>>
  BY DEF IInv, Serve, Served
<1>2. state = "OPEN"
  BY <1>1 DEF TypeOK, socketVars
<1>3. h \in Requests /\ Tail(reqs) \in Seq(Requests) /\ reqs \in Seq(Requests) /\ acks \in Seq(Requests)
  BY <1>1, TailFacts DEF TypeOK
<1>. HIDE DEF h
<1>4. /\ a \in Requests /\ a.by = h.by /\ a.op = h.op
      /\ a.streams = IF h.op = "LIST" THEN server ELSE h.streams
  <2>1. server \in SUBSET Streams
    BY <1>1 DEF TypeOK
  <2>. QED
    BY <1>3, <2>1 DEF Requests
<1>. HIDE DEF a
<1>5. Served(server, h) \in SUBSET Streams
  <2>1. server \in SUBSET Streams /\ h.streams \in SUBSET Streams
    BY <1>1, <1>3 DEF TypeOK, Requests
  <2>. QED
    BY <2>1 DEF Served
<1>6. acks' \in Seq(Requests)
  BY <1>1, <1>3, <1>4, AppendFacts
<1>7. desired' = {StreamOf[u] : u \in {v \in Subs : IsOpenSub(v)'}}
  BY <1>1, DesiredKept
<1>8. TypeOK'
  <2>1. UNCHANGED <<state, timer, next, confirmed, resync, sub, doubt, faults>> /\ TypeOK
    BY <1>1
  <2>2. reqs' \in Seq(Requests) /\ server' \subseteq Streams
    BY <1>1, <1>3, <1>5
  <2>. QED
    BY <1>2, <1>6, <1>7, <2>1, <2>2 DEF TypeOK
<1>9. Connection' /\ Orphaned' /\ LiveOpen' /\ ConfirmedDesired'
  BY <1>1 DEF IInv, Connection, Orphaned, LiveOpen, ConfirmedDesired
<1>10. /\ OwnIn(reqs) => /\ OwnIn(Tail(reqs))
                         /\ h.by \in Subs => h.op = "SUBSCRIBE" /\ h.streams = {StreamOf[h.by]}
       /\ ListOnly(reqs) => ListOnly(Tail(reqs)) /\ (h.by = "resync" => h.op = "LIST")
       /\ \A s : WaitedIn(reqs, s) <=> WaitedIn(Tail(reqs), s) \/ (h.by \in Subs /\ s \in h.streams)
  BY <1>1, <1>3, TailOwn DEF h
<1>11. /\ OwnIn(acks) /\ (a.by \in Subs => a.op = "SUBSCRIBE" /\ a.streams = {StreamOf[a.by]})
              => OwnIn(Append(acks, a))
       /\ ListOnly(acks) /\ (a.by = "resync" => a.op = "LIST") => ListOnly(Append(acks, a))
       /\ \A s : WaitedIn(Append(acks, a), s) <=> WaitedIn(acks, s) \/ (a.by \in Subs /\ s \in a.streams)
  BY <1>3, <1>4, AppendOwn
<1>12. OwnIn(reqs) /\ OwnIn(acks)
  BY DEF IInv, OwnRequests
<1>13. OwnRequests'
  BY <1>1, <1>4, <1>10, <1>11, <1>12 DEF OwnRequests
<1>14. /\ acks' # << >>
       /\ acks # << >> => Head(acks') = Head(acks)
       /\ acks = << >> => Head(acks') = a
  BY <1>1, <1>3, <1>4, AppendFacts
<1>15. ListFirst'
  <2>. SUFFICES ASSUME resync.at = "list" /\ doubt # Streams
                PROVE  /\ confirmed = {}
                       /\ ListOnly(reqs') /\ ListOnly(acks')
                       /\ Head(acks').by = "resync"
    BY <1>1, <1>14 DEF ListFirst, ListOnly
  <2>1. /\ confirmed = {}
        /\ ListOnly(reqs) /\ ListOnly(acks)
        /\ IF acks = << >> THEN reqs # << >> /\ h.by = "resync"
           ELSE Head(acks).by = "resync"
    BY <1>2 DEF IInv, ListFirst, h
  <2>2. ListOnly(reqs') /\ ListOnly(acks')
    BY <1>1, <1>4, <1>10, <1>11, <2>1
  <2>. QED
    BY <1>4, <1>14, <2>1, <2>2
<1>16. Phase'
  <2>. SUFFICES ASSUME NEW t \in Streams \ doubt PROVE Settled(t)'
    BY <1>1 DEF Phase
  <2>1. Settled(t)
    BY <1>2 DEF IInv, Phase
  <2>2. CarriedBy(server', reqs', t) <=> CarriedBy(server, reqs, t)
    BY <1>1, <1>3, ServedCarried DEF h
  <2>3. resync.at = "list" => Heard' = Heard
    <3>1. CASE acks # << >>
      BY <1>14, <3>1 DEF Heard
    <3>2. CASE acks = << >> /\ resync.at = "list"
      <4>1. h.op = "LIST"
        BY <1>2, <1>10, <3>2 DEF IInv, ListFirst, h
      <4>. QED
        BY <1>4, <1>14, <3>2, <4>1 DEF Heard
    <3>. QED
      BY <3>1, <3>2
  <2>. QED
    BY <1>1, <2>1, <2>2, <2>3 DEF Settled, Carried
<1>17. Awaited'
  <2>. SUFFICES ASSUME NEW t \in desired \ doubt, Unfinished(t) PROVE Expected(t)'
    BY <1>1 DEF Awaited, Unfinished
  <2>1. Expected(t)
    BY <1>2 DEF IInv, Awaited
  <2>2. \A u \in Subs : h.by = u => a.streams = h.streams
    BY <1>4, <1>10, <1>12
  <2>3. WaitedIn(reqs, t) \/ WaitedIn(acks, t) => WaitedIn(reqs', t) \/ WaitedIn(acks', t)
    BY <1>1, <1>4, <1>10, <1>11, <2>2
  <2>. QED
    BY <1>1, <2>1, <2>3 DEF Expected
<1>. QED
  BY <1>8, <1>9, <1>13, <1>15, <1>16, <1>17 DEF IInv

LEMMA IgnoredAckIInv == ASSUME IInv, IgnoredAck PROVE IInv'
<1>1. /\ TypeOK /\ acks # << >> /\ Head(acks).by = "nobody" /\ acks' = Tail(acks)
      /\ UNCHANGED <<state, timer, next, desired, confirmed, server, reqs, resync, sub, doubt, faults>>
  BY DEF IInv, IgnoredAck
<1>2. state = "OPEN"
  BY <1>1 DEF TypeOK, socketVars
<1>3. acks \in Seq(Requests) /\ acks' \in Seq(Requests)
  BY <1>1, TailFacts DEF TypeOK
<1>4. desired' = {StreamOf[u] : u \in {v \in Subs : IsOpenSub(v)'}}
  BY <1>1, DesiredKept
<1>5. TypeOK'
  BY <1>1, <1>2, <1>3, <1>4 DEF TypeOK
<1>6. Connection' /\ Orphaned' /\ LiveOpen' /\ ConfirmedDesired'
  BY <1>1 DEF IInv, Connection, Orphaned, LiveOpen, ConfirmedDesired
<1>7. OwnRequests'
  BY <1>1, <1>3, TailOwn DEF IInv, OwnRequests
<1>8. ~(resync.at = "list" /\ doubt # Streams)
  BY <1>1, <1>2 DEF IInv, ListFirst
<1>9. ListFirst'
  BY <1>1, <1>8 DEF ListFirst
<1>10. Phase'
  <2>. SUFFICES ASSUME NEW t \in Streams \ doubt PROVE Settled(t)'
    BY <1>1 DEF Phase
  <2>1. Settled(t)
    BY <1>2 DEF IInv, Phase
  <2>2. doubt # Streams
    OBVIOUS
  <2>. QED
    BY <1>1, <1>8, <2>1, <2>2 DEF Settled, Carried
<1>11. Awaited'
  <2>. SUFFICES ASSUME NEW t \in desired \ doubt, Unfinished(t) PROVE Expected(t)'
    BY <1>1 DEF Awaited, Unfinished
  <2>1. Expected(t)
    BY <1>2 DEF IInv, Awaited
  <2>2. WaitedIn(acks, t) => WaitedIn(acks', t)
    BY <1>1, <1>3, TailOwn, StreamPoolAssumption
  <2>. QED
    BY <1>1, <2>1, <2>2 DEF Expected
<1>. QED
  BY <1>5, <1>6, <1>7, <1>9, <1>10, <1>11 DEF IInv

LEMMA AcquireAckIInv == ASSUME IInv, AcquireAck PROVE IInv'
<1>. DEFINE a == Head(acks)
<1>. DEFINE u == a.by
<1>. DEFINE s == StreamOf[u]
<1>1. /\ TypeOK /\ acks # << >> /\ u \in Subs /\ acks' = Tail(acks)
      /\ confirmed' = confirmed \union a.streams
      /\ sub' = IF sub[u] = "pending" THEN [sub EXCEPT ![u] = "live"] ELSE sub
      /\ doubt' = IF a.streams \subseteq desired /\ \A v \in Subs : sub'[v] = "pending" => StreamOf[v] \notin a.streams
                  THEN doubt ELSE doubt \union a.streams
      /\ UNCHANGED <<state, timer, next, desired, server, reqs, resync, faults>>
  BY DEF IInv, AcquireAck
<1>2. state = "OPEN"
  BY <1>1 DEF TypeOK, socketVars
<1>3. acks \in Seq(Requests) /\ acks' \in Seq(Requests) /\ a \in Requests
  BY <1>1, TailFacts DEF TypeOK
<1>4. a.streams = {s} /\ OwnIn(acks') /\ s \in Streams
  BY <1>1, <1>3, TailOwn, StreamPoolAssumption DEF IInv, OwnRequests
<1>5. \A t : WaitedIn(acks, t) <=> WaitedIn(acks', t) \/ t = s
  BY <1>1, <1>3, <1>4, TailOwn
<1>. HIDE DEF a
<1>6. u \in Subs /\ confirmed' = confirmed \union {s}
  BY <1>1, <1>4
<1>. HIDE DEF u
<1>7. /\ sub' \in [Subs -> {"none", "pending", "live", "closed"}]
      /\ \A v \in Subs : sub'[v] \in {"pending", "live"} <=> sub[v] \in {"pending", "live"}
      /\ \A v \in Subs : sub'[v] = "pending" => sub[v] = "pending"
  BY <1>1, <1>6 DEF TypeOK
<1>. HIDE DEF s
<1>8. desired' = {StreamOf[v] : v \in {w \in Subs : IsOpenSub(w)'}}
  BY <1>1, <1>7, DesiredKept
<1>9. doubt \subseteq doubt' /\ doubt' \subseteq Streams
  BY <1>1, <1>4 DEF TypeOK
<1>10. TypeOK'
  <2>1. UNCHANGED <<state, timer, next, server, reqs, resync, faults>> /\ TypeOK
    BY <1>1
  <2>2. confirmed' \subseteq Streams
    BY <1>4, <1>6, <2>1 DEF TypeOK
  <2>. QED
    BY <1>2, <1>3, <1>7, <1>8, <1>9, <2>1, <2>2 DEF TypeOK
<1>11. s \in doubt' \/ (s \in desired /\ \A v \in Subs : sub'[v] = "pending" => StreamOf[v] # s)
  BY <1>1, <1>4
<1>12. Connection' /\ Orphaned' /\ LiveOpen'
  BY <1>1, <1>2 DEF IInv, Connection, Orphaned, LiveOpen
<1>13. ConfirmedDesired'
  BY <1>1, <1>6, <1>9, <1>11 DEF IInv, ConfirmedDesired
<1>14. OwnRequests'
  BY <1>1, <1>4 DEF IInv, OwnRequests
<1>15. ~(resync.at = "list" /\ doubt # Streams)
  <2>1. u # "resync" /\ Head(acks).by = u
    BY <1>6, StreamPoolAssumption DEF u, a
  <2>. QED
    BY <1>1, <1>2, <2>1 DEF IInv, ListFirst
<1>16. ~(resync.at = "list" /\ doubt' # Streams)
  BY <1>9, <1>15
<1>17. ListFirst'
  BY <1>1, <1>16 DEF ListFirst
<1>18. Phase'
  <2>. SUFFICES ASSUME NEW t \in Streams \ doubt' PROVE Settled(t)'
    BY DEF Phase
  <2>1. Settled(t)
    BY <1>2, <1>9 DEF IInv, Phase
  <2>2. doubt' # Streams
    OBVIOUS
  <2>. QED
    BY <1>1, <1>16, <2>1, <2>2 DEF Settled, Carried
<1>19. Awaited'
  <2>. SUFFICES ASSUME NEW t \in desired \ doubt', Unfinished(t)' PROVE Expected(t)'
    BY <1>1 DEF Awaited
  <2>1. t # s
    BY <1>6, <1>11 DEF Unfinished
  <2>2. Unfinished(t)
    BY <1>6, <1>7 DEF Unfinished
  <2>3. Expected(t)
    BY <1>2, <1>9, <2>2 DEF IInv, Awaited
  <2>. QED
    BY <1>1, <1>5, <2>1, <2>3 DEF Expected
<1>. QED
  BY <1>10, <1>12, <1>13, <1>14, <1>17, <1>18, <1>19 DEF IInv

LEMMA AckTimesOutIInv == ASSUME IInv, AckTimesOut PROVE IInv'
<1>1. TypeOK /\ reqs \in Seq(Requests) /\ acks \in Seq(Requests)
  BY DEF IInv, TypeOK
<1>. DEFINE Ends(q, i) ==
              /\ q[i].by # "nobody"
              /\ Fault
              /\ reqs' = Abandoned(reqs, q[i].by)
              /\ acks' = Abandoned(acks, q[i].by)
              /\ doubt' = doubt \union (IF q[i].op = "LIST" THEN Streams ELSE q[i].streams)
              /\ UNCHANGED <<state, timer, next, desired, confirmed, server, resync, sub>>
<1>2. PICK q \in {reqs, acks} : \E i \in DOMAIN q : Ends(q, i)
  BY DEF AckTimesOut
<1>3. PICK i \in DOMAIN q : Ends(q, i)
  BY <1>2
<1>. DEFINE by == q[i].by
<1>4. q[i] \in Requests
  BY <1>1, <1>3, ElementOfSeq
<1>5. by \in Subs => q[i].streams = {StreamOf[by]}
  BY <1>3 DEF IInv, OwnRequests, OwnIn
<1>6. by \in Subs \union {"resync"}
  BY <1>3, <1>4 DEF Requests
<1>7. doubt \subseteq doubt' /\ doubt' \subseteq Streams /\ q[i].streams \subseteq doubt'
  <2>1. q[i].streams \subseteq Streams /\ doubt \subseteq Streams
    BY <1>1, <1>4 DEF TypeOK, Requests
  <2>. QED
    BY <1>3, <2>1
<1>8. by = "resync" /\ ListOnly(reqs) /\ ListOnly(acks) => doubt' = Streams
  <2>1. by = "resync" /\ ListOnly(reqs) /\ ListOnly(acks) => q[i].op = "LIST"
    BY <1>3 DEF ListOnly
  <2>. QED
    BY <1>3, <1>7, <2>1
<1>. HIDE DEF by
<1>9. \A p \in {reqs, acks} :
        /\ Abandoned(p, by) \in Seq(Requests)
        /\ DOMAIN Abandoned(p, by) = DOMAIN p
        /\ (Abandoned(p, by) = << >>) <=> (p = << >>)
        /\ \A k \in DOMAIN p :
             /\ Abandoned(p, by)[k].op = p[k].op
             /\ Abandoned(p, by)[k].streams = p[k].streams
             /\ Abandoned(p, by)[k].by = IF p[k].by = by THEN "nobody" ELSE p[k].by
  BY <1>1, AbandonedFacts
<1>10. reqs' = Abandoned(reqs, by) /\ acks' = Abandoned(acks, by)
  BY <1>3 DEF by
<1>11. UNCHANGED <<state, timer, next, desired, confirmed, server, resync, sub>> /\ faults' \in Nat
  BY <1>1, <1>3, StreamPoolAssumption DEF Fault, TypeOK
<1>12. desired' = {StreamOf[u] : u \in {v \in Subs : IsOpenSub(v)'}}
  BY <1>1, <1>11, DesiredKept
<1>13. TypeOK'
  <2>1. state' # "OPEN" => socketVars' = <<{}, << >>, << >>>>
    BY <1>1, <1>9, <1>10, <1>11 DEF TypeOK, socketVars
  <2>2. reqs' \in Seq(Requests) /\ acks' \in Seq(Requests)
    BY <1>9, <1>10
  <2>. QED
    BY <1>1, <1>7, <1>11, <1>12, <2>1, <2>2 DEF TypeOK
<1>14. Connection' /\ Orphaned' /\ LiveOpen' /\ ConfirmedDesired'
  BY <1>7, <1>11 DEF IInv, Connection, Orphaned, LiveOpen, ConfirmedDesired
<1>15. "nobody" \notin Subs /\ "resync" \notin Subs
  BY StreamPoolAssumption
<1>16. OwnRequests'
  <2>1. ASSUME NEW p \in {reqs, acks} PROVE OwnIn(Abandoned(p, by))
    <3>1. \A k \in DOMAIN p :
            p[k].by \in Subs => p[k].op = "SUBSCRIBE" /\ p[k].streams = {StreamOf[p[k].by]}
      BY DEF IInv, OwnRequests, OwnIn
    <3>. DEFINE rest == Abandoned(p, by)
    <3>2. /\ DOMAIN rest = DOMAIN p
          /\ \A k \in DOMAIN p : /\ rest[k].op = p[k].op /\ rest[k].streams = p[k].streams
                                 /\ rest[k].by \in Subs => rest[k].by = p[k].by
      BY <1>9, <1>15
    <3>. HIDE DEF rest
    <3>3. OwnIn(rest)
      BY <3>1, <3>2 DEF OwnIn
    <3>. QED
      BY <3>3 DEF rest
  <2>. QED
    BY <1>10, <2>1 DEF OwnRequests
<1>17. ListFirst'
  <2>. SUFFICES ASSUME state = "OPEN", resync.at = "list", doubt' # Streams
                PROVE  /\ confirmed = {}
                       /\ ListOnly(reqs') /\ ListOnly(acks')
                       /\ IF acks' = << >> THEN reqs' # << >> /\ Head(reqs').by = "resync"
                          ELSE Head(acks').by = "resync"
    BY <1>11 DEF ListFirst, ListOnly
  <2>1. /\ confirmed = {}
        /\ ListOnly(reqs) /\ ListOnly(acks)
        /\ IF acks = << >> THEN reqs # << >> /\ Head(reqs).by = "resync"
           ELSE Head(acks).by = "resync"
    BY <1>7 DEF IInv, ListFirst
  <2>2. by # "resync"
    BY <1>8, <2>1
  <2>3. ListOnly(reqs') /\ ListOnly(acks')
    BY <1>9, <1>10, <2>1 DEF ListOnly
  <2>4. \A p \in {reqs, acks} : p # << >> => Head(Abandoned(p, by)).by = IF Head(p).by = by THEN "nobody" ELSE Head(p).by
    BY <1>1, <1>9, TailFacts
  <2>. QED
    BY <1>9, <1>10, <2>1, <2>2, <2>3, <2>4
<1>18. Phase'
  <2>. SUFFICES ASSUME state = "OPEN", NEW t \in Streams \ doubt' PROVE Settled(t)'
    BY <1>11 DEF Phase
  <2>1. Settled(t)
    BY <1>7 DEF IInv, Phase
  <2>2. CarriedBy(server', reqs', t) <=> CarriedBy(server, reqs, t)
    BY <1>1, <1>10, <1>11, AbandonedCarried
  <2>3. acks # << >> => Head(Abandoned(acks, by)).streams = Head(acks).streams
    BY <1>1, <1>9, TailFacts
  <2>4. Heard' = Heard
    BY <1>9, <1>10, <1>11, <2>3 DEF Heard
  <2>. QED
    BY <1>11, <2>1, <2>2, <2>4 DEF Settled, Carried
<1>19. Awaited'
  <2>. SUFFICES ASSUME state = "OPEN", NEW t \in desired \ doubt', Unfinished(t) PROVE Expected(t)'
    BY <1>11 DEF Awaited, Unfinished
  <2>1. Expected(t)
    BY <1>7 DEF IInv, Awaited
  <2>2. \A p \in {reqs, acks} : WaitedIn(p, t) => WaitedIn(Abandoned(p, by), t)
    <3>. SUFFICES ASSUME NEW p \in {reqs, acks}, NEW k \in DOMAIN p, p[k].by \in Subs, t \in p[k].streams
                  PROVE  WaitedIn(Abandoned(p, by), t)
      BY DEF WaitedIn
    <3>1. p[k].streams = {StreamOf[p[k].by]}
      BY DEF IInv, OwnRequests, OwnIn
    <3>2. p[k].by # by
      BY <1>5, <1>7, <3>1
    <3>. QED
      BY <1>9, <3>2 DEF WaitedIn
  <2>. QED
    BY <1>10, <1>11, <2>1, <2>2 DEF Expected
<1>. QED
  BY <1>13, <1>14, <1>16, <1>17, <1>18, <1>19 DEF IInv

----------------------------------------------------------------------------
(* The resynchronisation *)

Resyncs == [at : {"none", "list", "subscribe", "unsubscribe"},
            has : SUBSET Streams, missing : SUBSET Streams, extra : SUBSET Streams]

\* When the resynchronisation goes on with which request.
LEMMA PhaseFacts ==
  ASSUME NEW r
  PROVE  /\ NextPhase(r) \in {"subscribe", "unsubscribe", "done"}
         /\ NextPhase(r) = "subscribe" => state = "OPEN" /\ r.at = "list"
         /\ NextPhase(r) = "unsubscribe" =>
              /\ state = "OPEN" /\ r.at \in {"list", "subscribe"}
              /\ r.at = "list" => r.missing = {}
         /\ NextPhase(r) = "done" /\ state = "OPEN" =>
              /\ r.at = "list" => r.missing = {} /\ r.extra = {}
              /\ r.at = "subscribe" => r.extra = {}
  BY DEF NextPhase

\* Before it goes on: how it stands with a stream that is not in doubt.
ListedSettled(r) ==
  state = "OPEN" => \A s \in Streams \ doubt :
    CASE r.at = "list" -> /\ s \in r.missing => s \in desired
                          /\ s \in desired => s \in r.missing \/ Carried(s)
                          /\ Carried(s) => s \in desired \/ s \in r.extra
      [] r.at = "subscribe" -> /\ s \in desired => Carried(s)
                               /\ Carried(s) => s \in desired \/ s \in r.extra
      [] OTHER -> Carried(s) <=> s \in desired

ListedAwaited(r) ==
  state = "OPEN" => \A s \in desired \ doubt : Unfinished(s) =>
    \/ r.at # "none" /\ s \in r.has \union r.missing
    \/ WaitedIn(reqs, s) \/ WaitedIn(acks', s)

\* An answer, or the loss of one, takes the resynchronisation on from r.
LEMMA ProceedIInv ==
  ASSUME IInv, NEW r \in Resyncs, Proceed(r),
         UNCHANGED <<state, timer, next, desired, server, faults>>,
         acks' \in Seq(Requests), OwnIn(acks'), acks' = << >> \/ state = "OPEN",
         state # "OPEN" => doubt = Streams,
         ListedSettled(r), ListedAwaited(r)
  PROVE  IInv'
<1>. DEFINE phase == NextPhase(r)
<1>1. TypeOK /\ reqs \in Seq(Requests)
  BY DEF IInv, TypeOK
<1>2. /\ r.has \in SUBSET Streams /\ r.missing \in SUBSET Streams /\ r.extra \in SUBSET Streams
      /\ r.at \in {"none", "list", "subscribe", "unsubscribe"}
  BY DEF Resyncs
<1>3. CASE phase = "done"
  <2>1. /\ resync' = NoResync /\ reqs' = reqs
        /\ confirmed' = desired \intersect (r.has \union r.missing)
        /\ sub' = [u \in Subs |-> IF sub[u] = "pending" /\ StreamOf[u] \in confirmed' THEN "live" ELSE sub[u]]
        /\ doubt' = doubt \union ((confirmed \intersect desired) \ confirmed')
    BY <1>3 DEF Proceed, MarkLive, ConfirmedBy
  <2>2. /\ sub' \in [Subs -> {"none", "pending", "live", "closed"}]
        /\ \A u \in Subs : sub'[u] \in {"pending", "live"} <=> sub[u] \in {"pending", "live"}
        /\ \A u \in Subs : sub'[u] = "pending" => StreamOf[u] \notin confirmed'
    BY <1>1, <2>1 DEF TypeOK
  <2>3. desired' = {StreamOf[u] : u \in {v \in Subs : IsOpenSub(v)'}}
    BY <1>1, <2>2, DesiredKept
  <2>4. resync' \in Resyncs /\ resync'.at = "none"
    BY <2>1 DEF Resyncs, NoResync
  <2>5. doubt \subseteq doubt' /\ doubt' \subseteq Streams /\ confirmed' \subseteq Streams
    BY <1>1, <1>2, <2>1 DEF TypeOK
  <2>6. TypeOK'
    <3>1. socketVars' = <<server, reqs, acks'>>
      BY <2>1 DEF socketVars
    <3>2. state' # "OPEN" => socketVars' = <<{}, << >>, << >>>>
      BY <1>1, <3>1 DEF TypeOK, socketVars
    <3>. QED
      BY <1>1, <2>1, <2>2, <2>3, <2>4, <2>5, <3>2 DEF TypeOK, Resyncs
  <2>7. Connection' /\ OwnRequests' /\ Orphaned' /\ ListFirst'
    BY <2>1, <2>4 DEF IInv, Connection, OwnRequests, Orphaned, ListFirst
  <2>8. LiveOpen' /\ ConfirmedDesired'
    BY <2>1, <2>5, StreamPoolAssumption DEF LiveOpen, ConfirmedDesired
  <2>9. Phase'
    <3>. SUFFICES ASSUME state = "OPEN", NEW t \in Streams \ doubt' PROVE Carried(t) <=> t \in desired
      BY <2>1, <2>4 DEF Phase, Settled, Carried
    <3>1. /\ r.at = "list" => r.missing = {} /\ r.extra = {}
          /\ r.at = "subscribe" => r.extra = {}
      BY <1>3, PhaseFacts
    <3>2. t \notin doubt
      BY <2>5
    <3>. QED
      BY <1>2, <3>1, <3>2 DEF ListedSettled
  <2>10. Awaited'
    <3>. SUFFICES ASSUME state = "OPEN", NEW t \in desired \ doubt', Unfinished(t)' PROVE Expected(t)'
      BY DEF Awaited
    <3>1. t \notin confirmed'
      BY <2>2 DEF Unfinished
    <3>2. t \notin confirmed /\ t \notin doubt
      BY <2>1, <3>1
    <3>3. WaitedIn(reqs, t) \/ WaitedIn(acks', t)
      BY <2>1, <3>1, <3>2 DEF ListedAwaited, Unfinished
    <3>. QED
      BY <2>1, <3>3 DEF Expected
  <2>. QED
    BY <2>6, <2>7, <2>8, <2>9, <2>10 DEF IInv
<1>4. CASE phase \in {"subscribe", "unsubscribe"}
  <2>. DEFINE streams == IF phase = "subscribe" THEN r.missing ELSE r.extra
  <2>. DEFINE op == IF phase = "subscribe" THEN "SUBSCRIBE" ELSE "UNSUBSCRIBE"
  <2>. DEFINE q == Request(op, streams, "resync")
  <2>1. /\ resync' = [r EXCEPT !.at = phase]
        /\ reqs' = Append(reqs, q)
        /\ doubt' = IF phase = "unsubscribe" THEN doubt \union (streams \intersect desired) ELSE doubt
        /\ confirmed' = confirmed /\ sub' = sub
    BY <1>4 DEF Proceed
  <2>2. state = "OPEN" /\ r.at \in {"list", "subscribe"} /\ (phase = "subscribe" => r.at = "list")
        /\ (phase = "unsubscribe" /\ r.at = "list" => r.missing = {})
    BY <1>4, PhaseFacts
  <2>3. q \in Requests /\ q.op = op /\ q.streams = streams /\ q.by = "resync"
    BY <1>2, RequestType DEF Ops
  <2>. HIDE DEF q
  <2>4. /\ resync' \in Resyncs /\ resync'.at = phase
        /\ resync'.has = r.has /\ resync'.missing = r.missing /\ resync'.extra = r.extra
    BY <1>4, <2>1 DEF Resyncs
  <2>5. doubt \subseteq doubt' /\ doubt' \subseteq Streams
    BY <1>1, <1>2, <2>1 DEF TypeOK
  <2>6. desired' = {StreamOf[u] : u \in {v \in Subs : IsOpenSub(v)'}}
    BY <1>1, <2>1, DesiredKept
  <2>7. reqs' \in Seq(Requests)
    BY <1>1, <2>1, <2>3, AppendFacts
  <2>8. TypeOK'
    BY <1>1, <2>1, <2>2, <2>4, <2>5, <2>6, <2>7 DEF TypeOK, Resyncs
  <2>9. "resync" \notin Subs
    BY StreamPoolAssumption
  <2>10. Connection' /\ Orphaned' /\ LiveOpen'
    BY <2>1, <2>2 DEF IInv, Connection, Orphaned, LiveOpen
  <2>11. ConfirmedDesired'
    BY <2>1, <2>5 DEF IInv, ConfirmedDesired
  <2>12. OwnRequests'
    BY <1>1, <2>1, <2>3, <2>9, AppendOwn DEF IInv, OwnRequests
  <2>13. ListFirst'
    BY <1>4, <2>4 DEF ListFirst
  <2>14. Phase'
    <3>. SUFFICES ASSUME NEW t \in Streams \ doubt' PROVE Settled(t)'
      BY DEF Phase
    <3>1. t \in Streams \ doubt
      BY <2>5
    <3>2. CASE phase = "subscribe"
      <4>1. CarriedBy(server', reqs', t) <=> t \in r.missing \/ CarriedBy(server, reqs, t)
        BY <1>1, <2>1, <2>3, <3>2, AppendSubscribe
      <4>2. /\ t \in r.missing => t \in desired
            /\ t \in desired => t \in r.missing \/ Carried(t)
            /\ Carried(t) => t \in desired \/ t \in r.extra
        BY <2>2, <3>1, <3>2 DEF ListedSettled
      <4>. QED
        BY <2>4, <3>2, <4>1, <4>2 DEF Settled, Carried
    <3>3. CASE phase = "unsubscribe"
      <4>1. CarriedBy(server', reqs', t) <=> t \notin r.extra /\ CarriedBy(server, reqs, t)
        BY <1>1, <2>1, <2>3, <3>3, AppendUnsubscribe
      <4>2. t \in r.extra => t \notin desired
        BY <2>1, <3>3
      <4>3. /\ t \in desired => Carried(t)
            /\ Carried(t) => t \in desired \/ t \in r.extra
        BY <2>2, <3>1, <3>3 DEF ListedSettled
      <4>. QED
        BY <2>4, <3>3, <4>1, <4>2, <4>3 DEF Settled, Carried
    <3>. QED
      BY <1>4, <3>2, <3>3
  <2>15. Awaited'
    <3>. SUFFICES ASSUME NEW t \in desired \ doubt', Unfinished(t) PROVE Expected(t)'
      BY <2>1 DEF Awaited, Unfinished
    <3>1. \/ t \in r.has \union r.missing
          \/ WaitedIn(reqs, t) \/ WaitedIn(acks', t)
      BY <2>2, <2>5 DEF ListedAwaited
    <3>2. WaitedIn(reqs, t) => WaitedIn(reqs', t)
      BY <1>1, <2>1, <2>3, AppendOwn
    <3>. QED
      BY <1>4, <2>4, <3>1, <3>2 DEF Expected
  <2>. QED
    BY <2>8, <2>10, <2>11, <2>12, <2>13, <2>14, <2>15 DEF IInv
<1>. QED
  BY <1>3, <1>4, PhaseFacts

\* A list that is the server's leaves the streams settled.
LEMMA ListedFacts ==
  ASSUME IInv, resync.at = "list", NEW has \in SUBSET Streams,
         state = "OPEN" /\ doubt # Streams => has = Heard
  PROVE  /\ Listed(has) \in Resyncs /\ Listed(has).at = "list"
         /\ ListedSettled(Listed(has))
         /\ \A s \in desired : s \in Listed(has).has \union Listed(has).missing
<1>1. desired \in SUBSET Streams
  BY StreamPoolAssumption DEF IInv, TypeOK
<1>2. /\ Listed(has).at = "list" /\ Listed(has).has = has
      /\ Listed(has).missing = desired \ has /\ Listed(has).extra = has \ desired
  BY DEF Listed
<1>3. Listed(has) \in Resyncs
  BY <1>1 DEF Listed, Resyncs
<1>4. ASSUME state = "OPEN", NEW s \in Streams \ doubt
      PROVE  (Carried(s) <=> s \in desired) \/ (Carried(s) <=> s \in has)
  <2>1. doubt # Streams
    OBVIOUS
  <2>2. Settled(s)
    BY <1>4 DEF IInv, Phase
  <2>. QED
    BY <1>4, <2>1, <2>2 DEF Settled
<1>5. ListedSettled(Listed(has))
  BY <1>2, <1>4 DEF ListedSettled
<1>. QED
  BY <1>2, <1>3, <1>5

LEMMA ResyncAckIInv == ASSUME IInv, ResyncAck PROVE IInv'
<1>. DEFINE r == IF resync.at = "list" THEN Listed(Head(acks).streams) ELSE resync
<1>1. /\ TypeOK /\ acks # << >> /\ Head(acks).by = "resync" /\ acks' = Tail(acks)
      /\ Proceed(r)
      /\ UNCHANGED <<state, timer, next, desired, server, faults>>
  BY DEF IInv, ResyncAck
<1>2. state = "OPEN"
  BY <1>1 DEF TypeOK, socketVars
<1>3. acks \in Seq(Requests) /\ acks' \in Seq(Requests) /\ Head(acks) \in Requests
  BY <1>1, TailFacts DEF TypeOK
<1>4. OwnIn(acks')
  BY <1>1, <1>3, TailOwn DEF IInv, OwnRequests
<1>5. \A s : WaitedIn(acks, s) <=> WaitedIn(acks', s)
  BY <1>1, <1>3, TailOwn, StreamPoolAssumption
<1>6. r \in Resyncs /\ r.at = resync.at /\ ListedSettled(r)
  <2>1. CASE resync.at = "list"
    <3>1. Head(acks).streams \in SUBSET Streams
      BY <1>3 DEF Requests
    <3>2. Head(acks).streams = Heard
      BY <1>1 DEF Heard
    <3>. QED
      BY <2>1, <3>1, <3>2, ListedFacts
  <2>2. CASE resync.at # "list"
    <3>1. \A s \in Streams \ doubt : Settled(s)
      BY <1>2 DEF IInv, Phase
    <3>2. ListedSettled(resync)
      BY <2>2, <3>1 DEF ListedSettled, Settled
    <3>. QED
      BY <1>1, <2>2, <3>2 DEF TypeOK, Resyncs
  <2>. QED
    BY <2>1, <2>2
<1>7. ListedAwaited(r)
  <2>. SUFFICES ASSUME NEW s \in desired \ doubt, Unfinished(s)
                PROVE  \/ r.at # "none" /\ s \in r.has \union r.missing
                       \/ WaitedIn(reqs, s) \/ WaitedIn(acks', s)
    BY DEF ListedAwaited
  <2>1. CASE resync.at = "list"
    <3>1. Head(acks).streams \in SUBSET Streams /\ Head(acks).streams = Heard
      BY <1>1, <1>3 DEF Requests, Heard
    <3>. QED
      BY <1>6, <2>1, <3>1, ListedFacts
  <2>2. CASE resync.at # "list"
    <3>1. Expected(s)
      BY <1>2 DEF IInv, Awaited
    <3>. QED
      BY <1>5, <2>2, <3>1 DEF Expected
  <2>. QED
    BY <2>1, <2>2
<1>. HIDE DEF r
<1>. QED
  BY <1>1, <1>2, <1>3, <1>4, <1>6, <1>7, ProceedIInv

LEMMA ResyncLostIInv == ASSUME IInv, ResyncLost PROVE IInv'
<1>. DEFINE r == IF resync.at = "list" THEN Listed({}) ELSE resync
<1>1. /\ TypeOK /\ resync.at # "none"
      /\ \A i \in DOMAIN reqs : reqs[i].by # "resync"
      /\ \A i \in DOMAIN acks : acks[i].by # "resync"
      /\ Proceed(r)
      /\ UNCHANGED <<state, timer, next, desired, server, acks, faults>>
  BY DEF IInv, ResyncLost
<1>2. state # "OPEN" => doubt = Streams
  BY <1>1 DEF IInv, Orphaned
<1>3. acks' \in Seq(Requests) /\ OwnIn(acks') /\ (acks' = << >> \/ state = "OPEN")
  BY <1>1 DEF IInv, TypeOK, OwnRequests, socketVars
<1>4. resync.at = "list" => doubt = Streams
  <2>. SUFFICES ASSUME resync.at = "list", state = "OPEN", doubt # Streams PROVE FALSE
    BY <1>2
  <2>1. IF acks = << >> THEN reqs # << >> /\ Head(reqs).by = "resync"
        ELSE Head(acks).by = "resync"
    BY DEF IInv, ListFirst
  <2>2. \A q \in {reqs, acks} : q # << >> => 1 \in DOMAIN q /\ Head(q) = q[1]
    BY <1>1, TailFacts DEF TypeOK
  <2>. QED
    BY <1>1, <2>1, <2>2
<1>5. r \in Resyncs /\ r.at = resync.at /\ ListedSettled(r)
  <2>1. CASE resync.at = "list"
    BY <1>4, <2>1, ListedFacts
  <2>2. CASE resync.at # "list"
    <3>1. state = "OPEN" => \A s \in Streams \ doubt : Settled(s)
      BY DEF IInv, Phase
    <3>2. ListedSettled(resync)
      BY <2>2, <3>1 DEF ListedSettled, Settled
    <3>. QED
      BY <1>1, <2>2, <3>2 DEF TypeOK, Resyncs
  <2>. QED
    BY <2>1, <2>2
<1>6. ListedAwaited(r)
  <2>. SUFFICES ASSUME state = "OPEN", NEW s \in desired \ doubt, Unfinished(s)
                PROVE  \/ r.at # "none" /\ s \in r.has \union r.missing
                       \/ WaitedIn(reqs, s) \/ WaitedIn(acks', s)
    BY DEF ListedAwaited
  <2>1. resync.at # "list"
    <3>1. desired \subseteq Streams
      BY StreamPoolAssumption DEF IInv, TypeOK
    <3>. QED
      BY <1>4, <3>1
  <2>2. Expected(s)
    BY DEF IInv, Awaited
  <2>. QED
    BY <1>1, <2>1, <2>2 DEF Expected
<1>. HIDE DEF r
<1>. QED
  BY <1>1, <1>2, <1>3, <1>5, <1>6, ProceedIInv

----------------------------------------------------------------------------
(* The connection *)

LEMMA EstablishedIInv ==
  ASSUME IInv, Established, next.purpose # "none", UNCHANGED <<timer, desired, sub, faults>>
  PROVE  IInv'
<1>1. TypeOK
  BY DEF IInv
<1>2. /\ state' = "OPEN" /\ next' = NoSocket
      /\ server' = next.url /\ acks' = << >> /\ confirmed' = {}
  BY DEF Established
<1>3. NoSocket \in [purpose : {"none", "primary", "rotation"}, url : SUBSET Streams] /\ NoSocket.purpose = "none"
  BY DEF NoSocket
<1>4. desired' = {StreamOf[u] : u \in {v \in Subs : IsOpenSub(v)'}}
  BY <1>1, DesiredKept
<1>5. server' \in SUBSET Streams
  BY <1>1, <1>2 DEF TypeOK
<1>6. Connection' /\ ConfirmedDesired'
  BY <1>2, <1>3 DEF IInv, Connection, ConfirmedDesired
<1>7. OwnIn(acks') /\ ListOnly(acks')
  BY <1>2 DEF OwnIn, ListOnly
<1>8. CASE resync.at = "none"
  <2>. DEFINE q == Request("LIST", {}, "resync")
  <2>1. /\ resync' = [NoResync EXCEPT !.at = "list"] /\ reqs' = <<q>> /\ doubt' = {}
    BY <1>8 DEF Established
  <2>2. q \in Requests /\ q.op = "LIST" /\ q.by = "resync" /\ q.streams = {}
    BY RequestType DEF Ops
  <2>. HIDE DEF q
  <2>3. reqs' \in Seq(Requests) /\ DOMAIN reqs' = {1} /\ reqs'[1] = q /\ reqs' # << >> /\ Head(reqs') = q
    BY <2>1, <2>2
  <2>4. resync' \in [at : {"none", "list", "subscribe", "unsubscribe"},
                     has : SUBSET Streams, missing : SUBSET Streams, extra : SUBSET Streams]
        /\ resync'.at = "list"
    BY <2>1 DEF NoResync
  <2>5. TypeOK'
    <3>1. acks' \in Seq(Requests)
      BY <1>2, EmptySeq
    <3>2. UNCHANGED <<timer, sub, faults>>
      OBVIOUS
    <3>. QED
      BY <1>1, <1>2, <1>3, <1>4, <1>5, <2>1, <2>3, <2>4, <3>1, <3>2 DEF TypeOK
  <2>6. OwnRequests'
    BY <1>7, <2>2, <2>3, StreamPoolAssumption DEF OwnRequests, OwnIn
  <2>7. Orphaned' /\ LiveOpen'
    BY <1>2 DEF Orphaned, LiveOpen
  <2>8. ListFirst'
    BY <1>2, <1>7, <2>2, <2>3 DEF ListFirst, ListOnly
  <2>9. Phase'
    <3>. SUFFICES ASSUME NEW t \in Streams PROVE Settled(t)'
      BY DEF Phase
    <3>1. CarriedBy(server', reqs', t) <=> t \in server'
      BY <2>2, <2>3 DEF CarriedBy, Asks
    <3>2. Heard' = server'
      BY <1>2 DEF Heard
    <3>. QED
      BY <2>4, <3>1, <3>2 DEF Settled, Carried
  <2>10. Awaited'
    BY <2>4 DEF Awaited, Expected
  <2>. QED
    BY <1>6, <2>5, <2>6, <2>7, <2>8, <2>9, <2>10 DEF IInv
<1>9. CASE resync.at # "none"
  <2>1. resync' = resync /\ reqs' = << >> /\ doubt' = Streams
    BY <1>9 DEF Established
  <2>2. TypeOK'
    <3>1. acks' \in Seq(Requests) /\ reqs' \in Seq(Requests)
      BY <1>2, <2>1, EmptySeq
    <3>2. UNCHANGED <<timer, sub, faults>>
      OBVIOUS
    <3>. QED
      BY <1>1, <1>2, <1>3, <1>4, <1>5, <2>1, <3>1, <3>2 DEF TypeOK
  <2>3. OwnRequests'
    BY <1>7, <2>1 DEF OwnRequests, OwnIn
  <2>4. desired \subseteq Streams
    BY <1>1, StreamPoolAssumption DEF TypeOK
  <2>5. Orphaned' /\ LiveOpen' /\ ListFirst' /\ Phase' /\ Awaited'
    BY <1>2, <2>1, <2>4 DEF Orphaned, LiveOpen, ListFirst, Phase, Awaited
  <2>. QED
    BY <1>6, <2>2, <2>3, <2>5 DEF IInv
<1>. QED
  BY <1>8, <1>9

\* The connection is down: nothing is live unless the state does not say so,
\* and a resynchronisation under way has lost its socket.
LEMMA DownIInv ==
  ASSUME IInv, state' \in {"CONNECTING", "LOST", "RECONNECTING"},
         MarkPending \/ (state' = "LOST" /\ UNCHANGED sub),
         UNCHANGED <<desired, confirmed, resync>>,
         timer' \in BOOLEAN, timer' <=> state' # "CONNECTING",
         next' \in [purpose : {"none", "primary", "rotation"}, url : SUBSET Streams],
         next'.purpose = "primary" <=> state' = "CONNECTING",
         server' = {} /\ reqs' = << >> /\ acks' = << >>,
         doubt' = IF resync.at = "none" THEN doubt ELSE Streams,
         faults' \in Nat
  PROVE  IInv'
<1>1. TypeOK
  BY DEF IInv
<1>2. /\ sub' \in [Subs -> {"none", "pending", "live", "closed"}]
      /\ \A u \in Subs : sub'[u] \in {"pending", "live"} <=> sub[u] \in {"pending", "live"}
      /\ state' = "LOST" \/ \A u \in Subs : sub'[u] # "live"
  BY <1>1 DEF MarkPending, TypeOK
<1>3. desired' = {StreamOf[u] : u \in {v \in Subs : IsOpenSub(v)'}}
  BY <1>1, <1>2, DesiredKept
<1>4. doubt \subseteq doubt' /\ doubt' \subseteq Streams
  BY <1>1 DEF TypeOK
<1>5. TypeOK'
  <2>1. reqs' \in Seq(Requests) /\ acks' \in Seq(Requests)
    BY EmptySeq
  <2>2. resync' \in [at : {"none", "list", "subscribe", "unsubscribe"},
                     has : SUBSET Streams, missing : SUBSET Streams, extra : SUBSET Streams]
        /\ confirmed' \subseteq Streams
    BY <1>1 DEF TypeOK
  <2>. QED
    BY <1>2, <1>3, <1>4, <2>1, <2>2 DEF TypeOK, socketVars
<1>6. Connection' /\ LiveOpen' /\ ListFirst' /\ Phase' /\ Awaited'
  BY <1>2 DEF Connection, LiveOpen, ListFirst, Phase, Awaited
<1>7. OwnRequests'
  BY DEF OwnRequests, OwnIn
<1>8. Orphaned' /\ ConfirmedDesired'
  BY <1>4 DEF IInv, Orphaned, ConfirmedDesired
<1>. QED
  BY <1>5, <1>6, <1>7, <1>8 DEF IInv

LEMMA FaultType == ASSUME TypeOK, Fault PROVE faults' \in Nat
  BY StreamPoolAssumption DEF TypeOK, Fault

LEMMA DropIInv == ASSUME IInv, Drop PROVE IInv'
<1>1. TypeOK /\ Connection
  BY DEF IInv
<1>2. /\ state = "OPEN" /\ state' \in {"LOST", "RECONNECTING"} /\ timer' = TRUE
      /\ MarkPending \/ (state' = "LOST" /\ UNCHANGED sub)
      /\ ActiveGone /\ Fault
      /\ UNCHANGED <<next, desired, confirmed, resync>>
  BY DEF Drop
<1>3. next.purpose # "primary" /\ next \in [purpose : {"none", "primary", "rotation"}, url : SUBSET Streams]
  BY <1>1, <1>2 DEF Connection, TypeOK
<1>4. faults' \in Nat
  BY <1>1, <1>2, FaultType
<1>. QED
  BY <1>2, <1>3, <1>4, DownIInv DEF ActiveGone

LEMMA ConnectFailsIInv == ASSUME IInv, ConnectFails PROVE IInv'
<1>1. TypeOK /\ Connection /\ Orphaned
  BY DEF IInv
<1>2. /\ next.purpose = "primary" /\ state' = "RECONNECTING" /\ timer' = TRUE
      /\ next' = NoSocket /\ MarkPending /\ Fault
      /\ UNCHANGED <<desired, confirmed, server, reqs, acks, resync, doubt>>
  BY DEF ConnectFails, socketVars
<1>3. state = "CONNECTING"
  BY <1>1, <1>2 DEF Connection
<1>4. server' = {} /\ reqs' = << >> /\ acks' = << >>
  BY <1>1, <1>2, <1>3 DEF TypeOK, socketVars
<1>5. doubt' = IF resync.at = "none" THEN doubt ELSE Streams
  BY <1>1, <1>2, <1>3 DEF Orphaned
<1>6. next' \in [purpose : {"none", "primary", "rotation"}, url : SUBSET Streams] /\ next'.purpose = "none"
  BY <1>2 DEF NoSocket
<1>7. faults' \in Nat
  BY <1>1, <1>2, FaultType
<1>. QED
  BY <1>2, <1>4, <1>5, <1>6, <1>7, DownIInv

LEMMA ReopenIInv == ASSUME IInv, Reopen, faults' \in Nat PROVE IInv'
<1>1. /\ state' = "CONNECTING" /\ timer' = FALSE
      /\ next' = [purpose |-> "primary", url |-> desired]
      /\ ActiveGone /\ MarkPending
      /\ UNCHANGED <<desired, confirmed, resync>>
  BY DEF Reopen
<1>2. desired \in SUBSET Streams
  BY StreamPoolAssumption DEF IInv, TypeOK
<1>3. next' \in [purpose : {"none", "primary", "rotation"}, url : SUBSET Streams] /\ next'.purpose = "primary"
  BY <1>1, <1>2
<1>. QED
  BY <1>1, <1>3, DownIInv DEF ActiveGone

\* A replacement that is opened, or that fails, leaves the streams alone.
LEMMA ReplacementIInv ==
  ASSUME IInv, UNCHANGED <<state, timer, desired, confirmed, server, reqs, acks, resync, sub, doubt>>,
         next' \in [purpose : {"none", "primary", "rotation"}, url : SUBSET Streams],
         next.purpose # "primary", next'.purpose # "primary", faults' \in Nat
  PROVE  IInv'
<1>1. TypeOK
  BY DEF IInv
<1>2. desired' = {StreamOf[u] : u \in {v \in Subs : IsOpenSub(v)'}}
  BY <1>1, DesiredKept
<1>3. TypeOK'
  BY <1>1, <1>2 DEF TypeOK, socketVars
<1>4. Connection' /\ OwnRequests' /\ Orphaned' /\ LiveOpen' /\ ConfirmedDesired' /\ ListFirst'
  BY DEF IInv, Connection, OwnRequests, Orphaned, LiveOpen, ConfirmedDesired, ListFirst
<1>5. Phase' /\ Awaited'
  BY DEF IInv, Phase, Settled, Carried, Heard, Awaited, Unfinished, Expected
<1>. QED
  BY <1>3, <1>4, <1>5 DEF IInv

LEMMA RotationIInv == ASSUME IInv, Rotate \/ RotationFails PROVE IInv'
<1>1. TypeOK /\ desired \in SUBSET Streams /\ faults' \in Nat
  BY FaultType, StreamPoolAssumption DEF IInv, TypeOK, Rotate, RotationFails
<1>2. UNCHANGED <<state, timer, desired, confirmed, server, reqs, acks, resync, sub, doubt>>
  BY DEF Rotate, RotationFails, socketVars
<1>3. next.purpose # "primary"
  BY DEF Rotate, RotationFails, NoSocket
<1>4. next' = NoSocket \/ next' = [purpose |-> "rotation", url |-> desired]
  BY DEF Rotate, RotationFails
<1>5. next' \in [purpose : {"none", "primary", "rotation"}, url : SUBSET Streams] /\ next'.purpose # "primary"
  BY <1>1, <1>4 DEF NoSocket
<1>. QED
  BY <1>1, <1>2, <1>3, <1>5, ReplacementIInv

LEMMA ConnectionIInv == ASSUME IInv, ConnectionStep PROVE IInv'
<1>1. CASE PrimaryOpens
  BY <1>1, EstablishedIInv DEF PrimaryOpens
<1>2. CASE Rotated
  BY <1>2, EstablishedIInv DEF Rotated
<1>3. CASE Rotate \/ RotationFails
  BY <1>3, RotationIInv
<1>4. CASE Drop
  BY <1>4, DropIInv
<1>5. CASE ConnectFails
  BY <1>5, ConnectFailsIInv
<1>6. CASE ReconnectFires
  <2>1. faults' \in Nat
    BY <1>6 DEF ReconnectFires, IInv, TypeOK
  <2>. QED
    BY <1>6, <2>1, ReopenIInv DEF ReconnectFires
<1>7. CASE Replace
  <2>1. faults' \in Nat
    BY <1>7, FaultType DEF Replace, IInv
  <2>. QED
    BY <1>7, <2>1, ReopenIInv DEF Replace
<1>. QED
  BY <1>1, <1>2, <1>3, <1>4, <1>5, <1>6, <1>7 DEF ConnectionStep

LEMMA StutterIInv == ASSUME IInv, UNCHANGED vars PROVE IInv'
<1>1. UNCHANGED <<state, timer, next, desired, confirmed, server, reqs, acks, resync, sub, doubt, faults>>
  BY DEF vars, socketVars
<1>2. TypeOK'
  <2>1. TypeOK /\ desired' = {StreamOf[u] : u \in {v \in Subs : IsOpenSub(v)'}}
    BY <1>1, DesiredKept DEF IInv
  <2>. QED
    BY <1>1, <2>1 DEF TypeOK, socketVars
<1>3. Connection' /\ OwnRequests' /\ Orphaned' /\ LiveOpen' /\ ConfirmedDesired' /\ ListFirst'
  BY <1>1 DEF IInv, Connection, OwnRequests, Orphaned, LiveOpen, ConfirmedDesired, ListFirst
<1>4. Phase' /\ Awaited'
  BY <1>1 DEF IInv, Phase, Settled, Carried, Heard, Awaited, Unfinished, Expected
<1>. QED
  BY <1>2, <1>3, <1>4 DEF IInv

LEMMA NextIInv == IInv /\ [Next]_vars => IInv'
<1>. SUFFICES ASSUME IInv, [Next]_vars PROVE IInv'
  OBVIOUS
<1>1. CASE SubscriberStep
  BY <1>1, JoinIInv, AcquireIInv, ReleaseIInv DEF SubscriberStep
<1>2. CASE Serve
  BY <1>2, ServeIInv
<1>3. CASE AckStep
  BY <1>3, ResyncAckIInv, AcquireAckIInv, IgnoredAckIInv DEF AckStep
<1>4. CASE ResyncLost
  BY <1>4, ResyncLostIInv
<1>5. CASE AckTimesOut
  BY <1>5, AckTimesOutIInv
<1>6. CASE ConnectionStep
  BY <1>6, ConnectionIInv
<1>7. CASE UNCHANGED vars
  BY <1>7, StutterIInv
<1>. QED
  BY <1>1, <1>2, <1>3, <1>4, <1>5, <1>6, <1>7 DEF Next

----------------------------------------------------------------------------
(* What the invariant implies *)

\* A stream the server will carry is carried or being subscribed to.
LEMMA CarriedImplies ==
  ASSUME NEW s, Carried(s)
  PROVE  s \in server \/ Queued("SUBSCRIBE", s)
  BY DEF Carried, CarriedBy, Asks, Queued

LEMMA DesiredCarried ==
  ASSUME IInv, state = "OPEN", NEW s \in desired, s \notin doubt, resync.at # "list"
  PROVE  Carried(s)
<1>1. s \in Streams
  BY StreamPoolAssumption DEF IInv, TypeOK
<1>2. Settled(s)
  BY <1>1 DEF IInv, Phase
<1>. QED
  BY <1>2 DEF Settled

LEMMA LiveImplies == IInv => LiveIsDelivered
<1>. SUFFICES ASSUME IInv, NEW u \in Subs, sub[u] = "live", StreamOf[u] \notin doubt
              PROVE  \/ /\ state = "OPEN"
                        /\ \/ StreamOf[u] \in server
                           \/ Queued("SUBSCRIBE", StreamOf[u])
                           \/ resync.at = "list"
                     \/ state = "LOST" /\ timer
  BY DEF LiveIsDelivered
<1>1. state \in {"OPEN", "LOST"} /\ (state = "LOST" => timer)
  BY DEF IInv, LiveOpen, Connection
<1>2. StreamOf[u] \in desired
  BY DesiredOpen DEF IInv
<1>3. state = "OPEN" /\ resync.at # "list" => Carried(StreamOf[u])
  BY <1>2, DesiredCarried
<1>. QED
  BY <1>1, <1>3, CarriedImplies

LEMMA ConfirmedImplies == IInv => ConfirmedTruthful
<1>. SUFFICES ASSUME IInv, NEW s \in confirmed \ doubt, state = "OPEN"
              PROVE  s \in server \/ Queued("SUBSCRIBE", s)
  BY DEF ConfirmedTruthful
<1>1. s \in desired
  BY DEF IInv, ConfirmedDesired
<1>2. s \in Streams
  BY DEF IInv, TypeOK
<1>3. resync.at # "list"
  BY <1>2 DEF IInv, ListFirst
<1>. QED
  BY <1>1, <1>3, DesiredCarried, CarriedImplies

LEMMA QuietImplies == IInv => Converged
<1>. SUFFICES ASSUME IInv, Quiet, NEW s \in Streams \ doubt
              PROVE  /\ s \in server <=> s \in desired
                     /\ s \in confirmed <=> s \in desired
                     /\ \A u \in Subs : StreamOf[u] = s => sub[u] # "pending"
  BY DEF Converged
<1>1. state = "OPEN" /\ reqs = << >> /\ acks = << >> /\ resync.at = "none"
  BY DEF Quiet
<1>2. s \in server <=> s \in desired
  <2>1. Settled(s)
    BY <1>1 DEF IInv, Phase
  <2>2. Carried(s) <=> s \in server
    BY <1>1 DEF Carried, CarriedBy
  <2>. QED
    BY <1>1, <2>1, <2>2 DEF Settled
<1>3. s \in desired => ~Unfinished(s)
  <2>1. ~Expected(s)
    BY <1>1 DEF Expected, WaitedIn
  <2>. QED
    BY <1>1, <2>1 DEF IInv, Awaited
<1>4. s \in confirmed => s \in desired
  BY DEF IInv, ConfirmedDesired
<1>5. ASSUME NEW u \in Subs, StreamOf[u] = s, sub[u] = "pending"
      PROVE  FALSE
  <2>1. s \in desired
    BY <1>5, DesiredOpen DEF IInv
  <2>. QED
    BY <1>3, <1>5, <2>1 DEF Unfinished
<1>. QED
  BY <1>2, <1>3, <1>4, <1>5 DEF Unfinished

----------------------------------------------------------------------------
(* The theorems *)

\* Every state that subscribers, the server, timers and lost sockets reach
\* satisfies the invariant.
THEOREM PoolInvariant == Spec => []IInv
<1>. QED
  BY InitIInv, NextIInv, PTL DEF Spec

\* The connection, its queues and the registry keep their types; the desired
\* streams are those of the Subscriptions that are open.
THEOREM PoolTypeCorrect == Spec => []TypeOK
<1>1. IInv => TypeOK
  BY DEF IInv
<1>. QED
  BY <1>1, PoolInvariant, PTL

\* A live Subscription of a stream that is not in doubt is delivered, or about
\* to be.
THEOREM LiveDelivered == Spec => []LiveIsDelivered
<1>. QED
  BY PoolInvariant, LiveImplies, PTL

\* A confirmed stream that is not in doubt is on the server's list, or about
\* to be.
THEOREM TruthfulConfirmation == Spec => []ConfirmedTruthful
<1>. QED
  BY PoolInvariant, ConfirmedImplies, PTL

\* When nothing is under way the server, the desired and the confirmed streams
\* agree and nobody is pending, but for streams in doubt.
THEOREM Agreement == Spec => []Converged
<1>. QED
  BY PoolInvariant, QuietImplies, PTL
=============================================================================
