-------------------------- MODULE PriceSeriesProofs --------------------------
(***************************************************************************)
(* Proofs about PriceSeries, for every set of exchanges and prices, every  *)
(* retention, cleanup and request period, number of writes and length of   *)
(* time: whatever the interleaving of writer, cleanup and request.         *)
(***************************************************************************)
EXTENDS PriceSeries, FiniteSetTheorems, TLAPS

(* A time cut to whole seconds is less than a second earlier.              *)
LEMMA WholeSeconds ==
  ASSUME NEW t \in Int
  PROVE  /\ WholeSecond(t) \in Int
         /\ WholeSecond(t) <= t
         /\ t - Second < WholeSecond(t)
BY SeriesAssumption DEF WholeSecond

LEMMA WholeSecondsPast ==
  ASSUME NEW t \in Nat
  PROVE  /\ t \div Second \in Nat
         /\ t \div Second <= t
         /\ WholeSecond(t) \in 0 .. t
<1>1. t \div Second \in Nat
  BY SeriesAssumption
<1>2. t \div Second <= t
  BY <1>1, SeriesAssumption
<1>3. 0 <= (t \div Second) * Second
  BY <1>1, SeriesAssumption
<1> QED
  BY <1>1, <1>2, <1>3, WholeSeconds DEF WholeSecond

(* The score of an update is its time, at most cut to the second.          *)
LEMMA ScoreOfStamp ==
  ASSUME NEW t \in Times, NEW ts \in Stamps(t)
  PROVE  /\ Score(ts) \in Times
         /\ Score(ts) <= t
         /\ t - Second < Score(ts)
<1>1. t \in Nat /\ MaxTime \in Nat /\ t <= MaxTime
  BY SeriesAssumption DEF Times
<1>2. CASE ts = t \div Second
  <2>1. Score(ts) = WholeSecond(t)
    BY <1>1, <1>2, WholeSecondsPast DEF Score, Millis, WholeSecond
  <2> QED
    BY <1>1, <2>1, WholeSeconds, WholeSecondsPast DEF Times
<1>3. CASE ts = Millis + t
  <2>1. Score(ts) = t
    BY <1>1, <1>3 DEF Score, Millis
  <2> QED
    BY <1>1, <2>1, SeriesAssumption
<1> QED
  BY <1>2, <1>3 DEF Stamps
-----------------------------------------------------------------------------
(* What a request that goes on, or fails, keeps of its state.              *)
LEMMA Continues ==
  ASSUME NEW r \in Statistic, ContinueWith(r)
  PROVE  /\ reader' \in Statistic
         /\ reader'.exchanges = r.exchanges
         /\ reader'.from = r.from
         /\ reader'.to = r.to
         /\ reader'.todo = r.todo
         /\ reader'.members = r.members
         /\ reader'.points = r.points
         /\ reader'.before = r.before
         /\ reader'.partial = r.partial
         /\ \/ reader'.pc = r.pc
            \/ /\ r.todo = {} /\ r.members = {}
               /\ reader'.pc = IF r.points = {} THEN "500" ELSE "200"
<1>1. CASE r.todo = {} /\ r.members = {}
  <2>1. reader' = Finished(r)
    BY <1>1 DEF ContinueWith
  <2> QED
    BY <1>1, <2>1 DEF Finished, Statistic
<1>2. CASE ~(r.todo = {} /\ r.members = {})
  BY <1>2 DEF ContinueWith
<1> QED
  BY <1>1, <1>2

LEMMA Fails ==
  ASSUME NEW r \in Statistic, reader' = Failed(r)
  PROVE  /\ reader' \in Statistic
         /\ reader'.exchanges = r.exchanges
         /\ reader'.from = r.from
         /\ reader'.to = r.to
         /\ reader'.todo = {}
         /\ reader'.members = r.members
         /\ reader'.points = r.points
         /\ reader'.before = r.before
         /\ reader'.partial
         /\ reader'.pc = "500"
BY DEF Failed, Statistic

LEMMA TypeInit ==
  Init => TypeOK
<1>1. Never \in Nat
  BY SeriesAssumption DEF Never
<1> SUFFICES ASSUME Init PROVE TypeOK
  OBVIOUS
<1>2. now \in Times
  BY SeriesAssumption DEF Init, Times
<1>3. series \in [Exchanges -> [Prices -> Times \cup {Absent}]]
  BY DEF Init
<1>4. ttl \in [Exchanges -> Nat] /\ nextCleanup \in Nat /\ writes \in 0 .. MaxWrites
  BY <1>1, SeriesAssumption DEF Init
<1> QED
  BY <1>2, <1>3, <1>4 DEF Init, TypeOK

(* The reader's state is that of a request unless it is idle.              *)
LEMMA UnderWay ==
  ASSUME TypeOK, reader # NoRequest
  PROVE  reader \in Statistic
BY DEF TypeOK
-----------------------------------------------------------------------------
(* A step of the request only changes its own state, and that state stays  *)
(* one of a request.                                                       *)
RequestStep ==
  \/ \E q \in Requests : BeginStatistic(q[1], q[2])
  \/ \E e \in Exchanges : ReadRange(e)
  \/ reader.pc = "range" /\ \E m \in reader.members : ReadScore(m)
  \/ EndStatistic

(* What a request starts with.                                             *)
Started(X, period) ==
  [pc |-> "range", exchanges |-> X,
   from |-> WholeSecond(now - period), to |-> WholeSecond(now),
   todo |-> {e \in X : Members(e) # {}}, members |-> {},
   points |-> {}, before |-> durable, partial |-> FALSE]

(* A new request is about all exchanges or one, and knows what was durable.*)
LEMMA Begins ==
  ASSUME TypeOK, NEW q \in Requests
  PROVE  /\ q[1] \subseteq Exchanges
         /\ Started(q[1], q[2]) \in Statistic
<1>1. PICK X, period : /\ q = <<X, period>>
                       /\ X \in ({Exchanges} \cup {{e} : e \in Exchanges})
                       /\ period \in Periods
  BY DEF Requests
<1>2. q[1] = X /\ q[2] = period /\ X \subseteq Exchanges
  BY <1>1
<1>3. now \in Nat /\ now - period \in Int
  BY <1>1, SeriesAssumption DEF TypeOK, Times
<1>4. WholeSecond(now - period) \in Int
  BY <1>3, WholeSeconds
<1>5. WholeSecond(now) \in Times
  BY <1>3, WholeSecondsPast, SeriesAssumption DEF TypeOK, Times
<1>6. {e \in X : Members(e) # {}} \in SUBSET Exchanges
  BY <1>2
<1>7. durable \in SUBSET Update
  BY DEF TypeOK
<1>8. Started(X, period) \in Statistic
  BY <1>2, <1>4, <1>5, <1>6, <1>7 DEF Started, Statistic
<1> QED
  BY <1>2, <1>8

LEMMA RequestTypes ==
  ASSUME TypeOK, RequestStep
  PROVE  reader' \in {NoRequest} \cup Statistic
<1>1. ASSUME NEW q \in Requests, BeginStatistic(q[1], q[2])
      PROVE  reader' \in Statistic
  BY <1>1, Begins, Continues, Fails DEF BeginStatistic, Started
<1>2. ASSUME NEW e \in Exchanges, ReadRange(e)
      PROVE  reader' \in Statistic
  <2> DEFINE found == {[ex |-> e, price |-> p] :
                         p \in {q \in Members(e) : InRange(series[e][q])}}
  <2>1. reader \in Statistic
    BY <1>2, UnderWay DEF ReadRange, NoRequest
  <2>2. found \in SUBSET Point
    BY DEF Members, Point
  <2> HIDE DEF found
  <2>3. /\ [reader EXCEPT !.todo = {}, !.members = found] \in Statistic
        /\ [reader EXCEPT !.todo = @ \ {e}, !.points = @ \cup found] \in Statistic
        /\ [reader EXCEPT !.todo = @ \ {e}, !.partial = TRUE] \in Statistic
    BY <2>1, <2>2 DEF Statistic
  <2>4. \/ ContinueWith([reader EXCEPT !.todo = {}, !.members = found])
        \/ reader' = Failed(reader)
        \/ ContinueWith([reader EXCEPT !.todo = @ \ {e}, !.points = @ \cup found])
        \/ ContinueWith([reader EXCEPT !.todo = @ \ {e}, !.partial = TRUE])
    BY <1>2 DEF ReadRange, found
  <2> QED
    BY <2>1, <2>3, <2>4, Continues, Fails
<1>3. ASSUME reader.pc = "range", NEW m \in reader.members, ReadScore(m)
      PROVE  reader' \in Statistic
  <2>1. reader \in Statistic
    BY <1>3, UnderWay DEF NoRequest
  <2>2. m \in Point
    BY <2>1 DEF Statistic
  <2>3. /\ [reader EXCEPT !.members = @ \ {m}, !.points = @ \cup {m}] \in Statistic
        /\ [reader EXCEPT !.members = @ \ {m}] \in Statistic
        /\ [reader EXCEPT !.members = @ \ {m}, !.partial = TRUE] \in Statistic
    BY <2>1, <2>2 DEF Statistic
  <2> QED
    BY <1>3, <2>3, Continues DEF ReadScore
<1> QED
  BY <1>1, <1>2, <1>3 DEF RequestStep, EndStatistic

(* The update a call of SetPrice is about.                                 *)
LEMMA UpdateType ==
  ASSUME TypeOK, NEW e \in Exchanges, NEW p \in Prices, NEW t \in Recent,
         NEW ts \in Stamps(t), AddToSeries(e, p, ts)
  PROVE  /\ t \in Times /\ t <= now /\ now - Delay <= t
         /\ Score(ts) \in Times
         /\ Score(ts) <= t
         /\ t - Second < Score(ts)
         /\ [n |-> writes + 1, ex |-> e, price |-> p, score |-> Score(ts)]
              \in Update
<1>1. t \in Times /\ t <= now /\ now - Delay <= t
  BY SeriesAssumption DEF Recent, TypeOK, Times
<1>2. writes + 1 \in 1 .. MaxWrites
  BY SeriesAssumption DEF TypeOK, AddToSeries
<1> QED
  BY <1>1, <1>2, ScoreOfStamp DEF Update

(* The states of the cleanup, and that a round which goes on is in one.    *)
CleanerStates ==
  {NoCleanup} \cup [pc : {"keys", "clean"}, todo : SUBSET Exchanges,
                    cutoff : Int, deadline : Nat]

LEMMA RestType ==
  ASSUME TypeOK, cleaner # NoCleanup, NEW keys \in SUBSET Exchanges
  PROVE  /\ CleanRest(keys) \in CleanerStates
         /\ CleanRest(keys).todo = keys
         /\ CleanRest(keys).pc # "keys"
         /\ CleanRest(keys) # NoCleanup =>
              /\ CleanRest(keys).cutoff = cleaner.cutoff
              /\ CleanRest(keys).deadline = cleaner.deadline
<1>1. cleaner \in [pc : {"keys", "clean"}, todo : SUBSET Exchanges,
                   cutoff : Int, deadline : Nat]
  BY DEF TypeOK
<1> QED
  BY <1>1 DEF CleanRest, CleanerStates, NoCleanup

LEMMA TypeNext ==
  TypeOK /\ [Next]_vars => TypeOK'
<1> SUFFICES ASSUME TypeOK, [Next]_vars PROVE TypeOK'
  OBVIOUS
<1>1. CASE Tick
  <2>1. now' \in Times
    BY <1>1, SeriesAssumption DEF Tick, TypeOK, Times
  <2>2. series' \in [Exchanges -> [Prices -> Times \cup {Absent}]]
    BY <1>1 DEF Tick, TypeOK
  <2>3. ttl' \in [Exchanges -> Nat]
    BY <1>1, SeriesAssumption DEF Tick, TypeOK, Never
  <2> QED
    BY <1>1, <2>1, <2>2, <2>3 DEF Tick, TypeOK, writerVars, cleanerVars
<1>2. ASSUME NEW e \in Exchanges, NEW p \in Prices, NEW t \in Recent,
             NEW ts \in Stamps(t), AddToSeries(e, p, ts)
      PROVE  TypeOK'
  <2> DEFINE u == [n |-> writes + 1, ex |-> e, price |-> p, score |-> Score(ts)]
  <2>1. u \in Update /\ u.score \in Times
    BY <1>2, UpdateType
  <2>2. /\ series' = [series EXCEPT ![e][p] = u.score]
        /\ added' = added \cup {u}
        /\ writer' = [pc |-> "expire", item |-> u]
        /\ writes < MaxWrites /\ writes' = writes + 1
        /\ UNCHANGED <<now, ttl, durable, cleaner, nextCleanup, cleanFailed, reader>>
    BY <1>2 DEF AddToSeries, cleanerVars
  <2> HIDE DEF u
  <2>3. series' \in [Exchanges -> [Prices -> Times \cup {Absent}]]
    BY <2>1, <2>2 DEF TypeOK
  <2>4. writes' \in 0 .. MaxWrites
    BY <2>2, SeriesAssumption DEF TypeOK
  <2>5. writer' \in [pc : {"expire"}, item : added']
    BY <2>2
  <2>6. added' \in SUBSET Update /\ durable' \in SUBSET added'
    BY <2>1, <2>2 DEF TypeOK
  <2> QED
    BY <2>2, <2>3, <2>4, <2>5, <2>6 DEF TypeOK
<1>3. CASE RefreshTTL
  <2>1. writer' = NoWrite /\ durable' \in SUBSET added'
    BY <1>3 DEF RefreshTTL, TypeOK, NoWrite
  <2>2. ttl' \in [Exchanges -> Nat]
    BY <1>3, SeriesAssumption DEF RefreshTTL, TypeOK, Times
  <2> QED
    BY <1>3, <2>1, <2>2 DEF RefreshTTL, TypeOK, cleanerVars
<1>4. CASE BeginCleanup
  <2>1. nextCleanup' \in Nat
    BY <1>4, SeriesAssumption DEF BeginCleanup, TypeOK, Times
  <2>2. cleaner' \in CleanerStates
    <3>1. now - Retention \in Int /\ now + RoundLimit \in Nat
      BY SeriesAssumption DEF TypeOK, Times
    <3> QED
      BY <1>4, <3>1 DEF BeginCleanup, Cutoff, CleanerStates
  <2> QED
    BY <1>4, <2>1, <2>2 DEF BeginCleanup, TypeOK, CleanerStates, keyVars, writerVars
<1>5. ASSUME NEW e \in Exchanges, CleanSeries(e)
      PROVE  TypeOK'
  <2>1. cleaner' \in CleanerStates
    <3>1. cleaner # NoCleanup /\ cleaner.todo \subseteq Exchanges
      BY <1>5 DEF CleanSeries, TypeOK, NoCleanup
    <3> QED
      BY <1>5, <3>1, RestType DEF CleanSeries
  <2>2. series' \in [Exchanges -> [Prices -> Times \cup {Absent}]]
    BY <1>5 DEF CleanSeries, TypeOK, keyVars
  <2>3. ttl' \in [Exchanges -> Nat]
    BY <1>5, SeriesAssumption DEF CleanSeries, TypeOK, keyVars, Never
  <2>4. cleanFailed' \in BOOLEAN
    BY <1>5 DEF CleanSeries, TypeOK
  <2> QED
    BY <1>5, <2>1, <2>2, <2>3, <2>4 DEF CleanSeries, TypeOK, CleanerStates, writerVars
<1>6. CASE RequestStep
  <2>1. ReaderOnly
    BY <1>6 DEF RequestStep, BeginStatistic, ReadRange, ReadScore, EndStatistic
  <2>2. reader' \in {NoRequest} \cup Statistic
    BY <1>6, RequestTypes
  <2> QED
    BY <2>1, <2>2 DEF ReaderOnly, TypeOK, keyVars, writerVars, cleanerVars
<1>7. CASE UNCHANGED vars
  BY <1>7 DEF vars, TypeOK, keyVars, writerVars, cleanerVars
<1>8. CASE ListKeys
  <2>1. cleaner' \in CleanerStates /\ cleanFailed' \in BOOLEAN
    <3> DEFINE keys == {e \in Exchanges : Members(e) # {}}
    <3>1. cleaner # NoCleanup /\ keys \in SUBSET Exchanges
      BY <1>8 DEF ListKeys, NoCleanup
    <3>2. \/ cleaner' = CleanRest(keys) /\ cleanFailed' = cleanFailed
          \/ cleaner' = NoCleanup /\ cleanFailed' = TRUE
      BY <1>8 DEF ListKeys
    <3> HIDE DEF keys
    <3>3. CleanRest(keys) \in CleanerStates
      BY <3>1, RestType
    <3> QED
      BY <3>2, <3>3 DEF CleanerStates, TypeOK
  <2> QED
    BY <1>8, <2>1 DEF ListKeys, TypeOK, CleanerStates, keyVars, writerVars
<1> QED
  BY <1>1, <1>2, <1>3, <1>4, <1>5, <1>6, <1>7, <1>8 DEF Next, RequestStep

(* The clock, the keys, the goroutines' states and the histories are what  *)
(* TypeOK says they are.                                                   *)
THEOREM TypeCorrect ==
  Spec => []TypeOK
BY TypeInit, TypeNext, PTL DEF Spec
-----------------------------------------------------------------------------
(* The steps, as far as the series and the histories are concerned: an     *)
(* update is stored, or every price is kept as it was or disappears.       *)
Adds(e, p, u) ==
  /\ series' = [series EXCEPT ![e][p] = u.score]
  /\ added' = added \cup {u}
  /\ writer' = [pc |-> "expire", item |-> u]
  /\ UNCHANGED <<now, ttl, durable, cleaner, nextCleanup, reader, cleanFailed>>

Removes ==
  /\ \A e \in Exchanges, p \in Prices :
       series'[e][p] = series[e][p] \/ series'[e][p] = Absent
  /\ added' = added
  /\ durable' = durable \/ durable' = durable \cup {writer.item}

LEMMA AddStep ==
  ASSUME TypeOK, NEW e \in Exchanges, NEW p \in Prices, NEW t \in Recent,
         NEW ts \in Stamps(t), AddToSeries(e, p, ts)
  PROVE  \E u \in Update :
           /\ u.ex = e /\ u.price = p /\ u.score \in Times
           /\ u.score <= now
           /\ now - Delay - Second < u.score
           /\ Adds(e, p, u)
<1> DEFINE u == [n |-> writes + 1, ex |-> e, price |-> p, score |-> Score(ts)]
<1>1. /\ t \in Times /\ t <= now /\ now - Delay <= t
      /\ Score(ts) \in Times /\ Score(ts) <= t /\ t - Second < Score(ts)
      /\ u \in Update
  BY UpdateType
<1>2. u.score \in Times /\ u.score <= now /\ now - Delay - Second < u.score
  BY <1>1, SeriesAssumption DEF TypeOK, Times
<1>3. Adds(e, p, u)
  BY DEF AddToSeries, Adds, cleanerVars
<1>4. u.ex = e /\ u.price = p
  OBVIOUS
<1> HIDE DEF u
<1> QED
  BY <1>1, <1>2, <1>3, <1>4

LEMMA RemoveStep ==
  ASSUME TypeOK,
         \/ Tick \/ RefreshTTL \/ BeginCleanup \/ ListKeys \/ RequestStep
         \/ UNCHANGED vars
         \/ \E e \in Exchanges : CleanSeries(e)
  PROVE  Removes /\ now' \in Int /\ now <= now'
<1>0. now \in Int
  BY SeriesAssumption DEF TypeOK, Times
<1>1. CASE Tick
  BY <1>0, <1>1 DEF Tick, TypeOK, Removes, writerVars
<1>2. CASE RefreshTTL
  BY <1>0, <1>2 DEF RefreshTTL, Removes
<1>3. CASE BeginCleanup \/ ListKeys
  BY <1>0, <1>3 DEF BeginCleanup, ListKeys, Removes, keyVars, writerVars
<1>4. ASSUME NEW e \in Exchanges, CleanSeries(e)
      PROVE  Removes /\ now' = now
  <2>1. /\ \A f \in Exchanges, p \in Prices :
              series'[f][p] = series[f][p] \/ series'[f][p] = Absent
    BY <1>4 DEF CleanSeries, TypeOK, keyVars
  <2> QED
    BY <1>4, <2>1 DEF CleanSeries, Removes, writerVars
<1>5. CASE RequestStep
  <2>1. ReaderOnly
    BY <1>5 DEF RequestStep, BeginStatistic, ReadRange, ReadScore, EndStatistic
  <2> QED
    BY <1>0, <2>1 DEF ReaderOnly, Removes, keyVars, writerVars
<1>6. CASE UNCHANGED vars
  BY <1>0, <1>6 DEF vars, Removes, keyVars, writerVars
<1> QED
  BY <1>0, <1>1, <1>2, <1>3, <1>4, <1>5, <1>6

(* Every step is of one of the two kinds.                                  *)
LEMMA AddsOrRemoves ==
  ASSUME TypeOK, [Next]_vars
  PROVE  \/ \E e \in Exchanges, p \in Prices, t \in Recent :
              \E ts \in Stamps(t) : AddToSeries(e, p, ts)
         \/ Removes /\ now' \in Int /\ now <= now'
<1>1. CASE \E e \in Exchanges, p \in Prices, t \in Recent :
             \E ts \in Stamps(t) : AddToSeries(e, p, ts)
  BY <1>1
<1>2. CASE \/ Tick \/ RefreshTTL \/ BeginCleanup \/ ListKeys \/ RequestStep
           \/ UNCHANGED vars
           \/ \E e \in Exchanges : CleanSeries(e)
  BY <1>2, RemoveStep
<1> QED
  BY <1>1, <1>2 DEF Next, RequestStep
-----------------------------------------------------------------------------
(* Every price in a series is that of an update, with its score.           *)
Stored ==
  \A e \in Exchanges : \A p \in Members(e) :
    \E u \in added : u.ex = e /\ u.price = p /\ u.score = series[e][p]

(* No update is from the future.                                           *)
Past == \A u \in added : u.score <= now

LEMMA StoredNext ==
  ASSUME TypeOK, Stored, [Next]_vars
  PROVE  Stored'
<1>1. ASSUME NEW e \in Exchanges, NEW p \in Prices, NEW u \in Update,
             u.ex = e, u.price = p, Adds(e, p, u)
      PROVE  Stored'
  <2> SUFFICES ASSUME NEW f \in Exchanges, NEW q \in Members(f)'
               PROVE  \E v \in added' : /\ v.ex = f /\ v.price = q
                                        /\ v.score = series'[f][q]
    BY DEF Stored
  <2>1. q \in Prices /\ series'[f][q] # Absent
    BY DEF Members
  <2>2. CASE f = e /\ q = p
    BY <1>1, <2>1, <2>2 DEF Adds, TypeOK
  <2>3. CASE ~(f = e /\ q = p)
    <3>1. series'[f][q] = series[f][q]
      BY <1>1, <2>1, <2>3 DEF Adds, TypeOK
    <3>2. PICK v \in added : v.ex = f /\ v.price = q /\ v.score = series[f][q]
      BY <2>1, <3>1 DEF Stored, Members
    <3> QED
      BY <1>1, <3>1, <3>2 DEF Adds
  <2> QED
    BY <2>2, <2>3
<1>2. CASE Removes
  BY <1>2 DEF Removes, Stored, Members
<1> QED
  BY <1>1, <1>2, AddStep, AddsOrRemoves

LEMMA PastNext ==
  ASSUME TypeOK, Past, [Next]_vars
  PROVE  Past'
<1>0. now \in Int /\ \A u \in added : u.score \in Int
  BY SeriesAssumption DEF TypeOK, Times, Update
<1>1. ASSUME NEW e \in Exchanges, NEW p \in Prices, NEW u \in Update,
             u.score <= now, Adds(e, p, u)
      PROVE  Past'
  BY <1>1 DEF Adds, Past
<1>2. CASE Removes /\ now' \in Int /\ now <= now'
  BY <1>0, <1>2 DEF Removes, Past
<1> QED
  BY <1>1, <1>2, AddStep, AddsOrRemoves
-----------------------------------------------------------------------------
(* Every update with the price of u at its exchange is younger than the    *)
(* retention: then neither expiry nor cleanup may take the price away.     *)
Young(u) ==
  \A v \in added : v.ex = u.ex /\ v.price = u.price => now < v.score + Retention

(* A price that is young and durable is in its series, whose key lives     *)
(* long enough.                                                            *)
Kept ==
  \A u \in durable :
    Young(u) => /\ u.price \in Members(u.ex)
                /\ u.score + Retention <= ttl[u.ex]

(* Between ZADD and EXPIRE a young price is there unless the key is gone.  *)
Expiring ==
  writer # NoWrite =>
    LET u == writer.item
    IN  Young(u) => u.price \in Members(u.ex) \/ Members(u.ex) = {}

(* The cutoff of a round stays behind the retention while the round goes   *)
(* on, for time only moves forward.                                        *)
CutoffPast == cleaner # NoCleanup => cleaner.cutoff <= now - Retention

KeptInv == TypeOK /\ Stored /\ Past /\ Kept /\ Expiring /\ CutoffPast

LEMMA UpdateFields ==
  ASSUME TypeOK, NEW u \in added
  PROVE  /\ u \in Update /\ u.ex \in Exchanges /\ u.price \in Prices
         /\ u.score \in Times /\ u.score \in Nat
BY SeriesAssumption DEF TypeOK, Update, Times

(* The young were young before.                                            *)
LEMMA YoungBefore ==
  ASSUME TypeOK, NEW u, added \subseteq added', now' \in Int, now <= now',
         Young(u)'
  PROVE  Young(u)
<1> SUFFICES ASSUME NEW v \in added, v.ex = u.ex, v.price = u.price
             PROVE  now < v.score + Retention
  BY DEF Young
<1>1. now' < v.score + Retention
  BY DEF Young
<1> QED
  BY <1>1, UpdateFields, SeriesAssumption DEF TypeOK, Times

(* The cleanup keeps the young.                                            *)
LEMMA CleanKeepsYoung ==
  ASSUME KeptInv, NEW e \in Exchanges, CleanSeries(e),
         NEW u \in added, Young(u), u.price \in Members(u.ex)
  PROVE  /\ u.price \in Members(u.ex)'
         /\ ttl'[u.ex] = ttl[u.ex]
<1> DEFINE kept == {p \in Members(e) : ~TooOld(series[e][p])}
<1>0. /\ u.ex \in Exchanges /\ u.price \in Prices
      /\ now \in Int /\ Retention \in Nat
  BY UpdateFields, SeriesAssumption DEF KeptInv, TypeOK, Times
<1>1. CASE UNCHANGED keyVars
  BY <1>1 DEF keyVars, Members
<1>2. CASE /\ series' = [series EXCEPT ![e] =
                 [p \in Prices |-> IF p \in kept THEN @[p] ELSE Absent]]
           /\ ttl' = [ttl EXCEPT ![e] = IF kept = {} THEN Never ELSE @]
  <2>1. CASE u.ex # e
    BY <1>0, <1>2, <2>1 DEF Members, KeptInv, TypeOK
  <2>2. CASE u.ex = e
    <3>1. PICK v \in added :
             v.ex = u.ex /\ v.price = u.price /\ v.score = series[e][u.price]
      BY <2>2 DEF KeptInv, Stored
    <3>2. now < v.score + Retention /\ v.score \in Nat
      BY <3>1, UpdateFields DEF Young, KeptInv
    <3>3. cleaner.cutoff \in Int /\ cleaner.cutoff <= now - Retention
      BY DEF CleanSeries, KeptInv, CutoffPast, TypeOK, NoCleanup
    <3>4. ~TooOld(v.score)
      BY <1>0, <3>2, <3>3, WholeSeconds DEF TooOld
    <3>5. u.price \in kept
      BY <2>2, <3>1, <3>4
    <3>6. /\ series'[e][u.price] = series[e][u.price]
          /\ ttl'[e] = ttl[e]
      BY <1>0, <1>2, <2>2, <3>5 DEF KeptInv, TypeOK
    <3> QED
      BY <1>0, <2>2, <3>5, <3>6 DEF Members
  <2> QED
    BY <2>1, <2>2
<1> QED
  BY <1>1, <1>2 DEF CleanSeries

LEMMA KeptNext ==
  ASSUME KeptInv, [Next]_vars
  PROVE  Kept'
<1>0. /\ TypeOK /\ Stored /\ Past /\ Kept /\ Expiring
      /\ now \in Int /\ Retention \in Nat /\ ttl \in [Exchanges -> Nat]
      /\ durable \subseteq added
  BY SeriesAssumption DEF KeptInv, TypeOK, Times
<1>1. ASSUME NEW e \in Exchanges, NEW p \in Prices, NEW w \in Update,
             w.ex = e, w.price = p, w.score \in Times, Adds(e, p, w)
      PROVE  Kept'
  <2> SUFFICES ASSUME NEW u \in durable', Young(u)'
               PROVE  /\ u.price \in Members(u.ex)'
                      /\ u.score + Retention <= ttl'[u.ex]
    BY DEF Kept
  <2>1. u \in durable /\ u \in added /\ added \subseteq added'
        /\ now' = now /\ ttl' = ttl
    BY <1>0, <1>1 DEF Adds
  <2>2. Young(u)
    BY <1>0, <2>1, YoungBefore
  <2>3. u.price \in Members(u.ex) /\ u.score + Retention <= ttl[u.ex]
    BY <1>0, <2>1, <2>2 DEF Kept
  <2>4. u.ex \in Exchanges /\ u.price \in Prices
    BY <1>0, <2>1, UpdateFields
  <2>5. series'[u.ex][u.price] \in {series[u.ex][u.price], w.score}
    BY <1>0, <1>1, <2>4 DEF Adds, TypeOK
  <2>6. w.score # Absent
    BY <1>1, SeriesAssumption DEF Times, Absent
  <2> QED
    BY <2>1, <2>3, <2>4, <2>5, <2>6 DEF Members
<1>2. CASE Tick
  <2> SUFFICES ASSUME NEW u \in durable', Young(u)'
               PROVE  /\ u.price \in Members(u.ex)'
                      /\ u.score + Retention <= ttl'[u.ex]
    BY DEF Kept
  <2>1. u \in durable /\ u \in added /\ added' = added /\ now' = now + 1
    BY <1>0, <1>2 DEF Tick, writerVars
  <2>2. Young(u)
    BY <1>0, <2>1, YoungBefore
  <2>3. u.price \in Members(u.ex) /\ u.score + Retention <= ttl[u.ex]
    BY <1>0, <2>1, <2>2 DEF Kept
  <2>4. u.ex \in Exchanges /\ u.price \in Prices /\ u.score \in Nat
    BY <1>0, <2>1, UpdateFields
  <2>5. now + 1 < u.score + Retention
    BY <2>1 DEF Young
  <2>6. ~(ttl[u.ex] <= now + 1)
    BY <1>0, <2>3, <2>4, <2>5
  <2>7. series'[u.ex] = series[u.ex] /\ ttl'[u.ex] = ttl[u.ex]
    BY <1>2, <2>4, <2>6 DEF Tick
  <2> QED
    BY <2>3, <2>7 DEF Members
<1>3. CASE RefreshTTL
  <2> SUFFICES ASSUME NEW u \in durable', Young(u)'
               PROVE  /\ u.price \in Members(u.ex)'
                      /\ u.score + Retention <= ttl'[u.ex]
    BY DEF Kept
  <2> DEFINE w == writer.item
  <2>1. /\ UNCHANGED <<now, series, added>>
        /\ writer # NoWrite
        /\ \/ /\ Members(w.ex) # {}
              /\ ttl' = [ttl EXCEPT ![w.ex] = now + Retention]
              /\ durable' = durable \cup {w}
           \/ UNCHANGED <<ttl, durable>>
    BY <1>3 DEF RefreshTTL, NoWrite
  <2>2. w \in added /\ u \in added
    BY <1>0, <2>1 DEF TypeOK
  <2>3. Young(u) /\ Members(u.ex)' = Members(u.ex)
    BY <2>1 DEF Young, Members
  <2>4. u.price \in Members(u.ex)
    BY <1>0, <2>1, <2>3 DEF Kept, Expiring
  <2>5. u.score \in Nat /\ u.score <= now /\ u.ex \in Exchanges
    BY <1>0, <2>2, UpdateFields DEF Past
  <2>6. CASE u.ex = w.ex /\ ttl' = [ttl EXCEPT ![w.ex] = now + Retention]
    <3>1. ttl'[u.ex] = now + Retention
      BY <1>0, <2>5, <2>6
    <3> QED
      BY <1>0, <2>3, <2>4, <2>5, <3>1
  <2>7. CASE ttl'[u.ex] = ttl[u.ex] /\ u \in durable
    BY <1>0, <2>3, <2>4, <2>7 DEF Kept
  <2> QED
    BY <1>0, <2>1, <2>3, <2>4, <2>5, <2>6, <2>7 DEF Kept
<1>4. ASSUME NEW e \in Exchanges, CleanSeries(e)
      PROVE  Kept'
  <2> SUFFICES ASSUME NEW u \in durable', Young(u)'
               PROVE  /\ u.price \in Members(u.ex)'
                      /\ u.score + Retention <= ttl'[u.ex]
    BY DEF Kept
  <2>1. u \in durable /\ u \in added /\ added' = added /\ now' = now
    BY <1>0, <1>4 DEF CleanSeries, writerVars
  <2>2. Young(u)
    BY <2>1 DEF Young
  <2> QED
    BY <1>0, <1>4, <2>1, <2>2, CleanKeepsYoung DEF Kept
<1>5. CASE BeginCleanup \/ ListKeys \/ RequestStep \/ UNCHANGED vars
  <2>1. UNCHANGED <<now, series, ttl, added, durable>>
    BY <1>5 DEF BeginCleanup, ListKeys, RequestStep, BeginStatistic, ReadRange, ReadScore,
      EndStatistic, ReaderOnly, vars, keyVars, writerVars
  <2> QED
    BY <1>0, <2>1 DEF Kept, Young, Members
<1> QED
  BY <1>0, <1>1, <1>2, <1>3, <1>4, <1>5, AddStep DEF Next, RequestStep

LEMMA ExpiringNext ==
  ASSUME KeptInv, [Next]_vars
  PROVE  Expiring'
<1>0. /\ TypeOK /\ Stored /\ Past /\ Kept /\ Expiring
      /\ now \in Int /\ Retention \in Nat
  BY SeriesAssumption DEF KeptInv, TypeOK, Times
<1>1. ASSUME NEW e \in Exchanges, NEW p \in Prices, NEW w \in Update,
             w.ex = e, w.price = p, w.score \in Times, Adds(e, p, w)
      PROVE  Expiring'
  <2>1. series'[e][p] = w.score /\ writer'.item = w
    BY <1>0, <1>1 DEF Adds, TypeOK
  <2>2. w.score # Absent
    BY <1>1, SeriesAssumption DEF Times, Absent
  <2> QED
    BY <1>1, <2>1, <2>2 DEF Expiring, Members
<1>2. CASE Tick
  <2> PICK u : u = writer.item
    OBVIOUS
  <2> SUFFICES ASSUME writer' # NoWrite, Young(u)'
               PROVE  u.price \in Members(u.ex)' \/ Members(u.ex)' = {}
    BY <1>2 DEF Expiring, Tick, writerVars
  <2>1. writer' = writer /\ added' = added /\ now' = now + 1
    BY <1>2 DEF Tick, writerVars
  <2>2. u \in added
    BY <1>0, <2>1 DEF TypeOK
  <2>3. u.ex \in Exchanges /\ u.price \in Prices
    BY <1>0, <2>2, UpdateFields
  <2>4. Young(u)
    BY <1>0, <2>1, YoungBefore
  <2>5. u.price \in Members(u.ex) \/ Members(u.ex) = {}
    BY <1>0, <2>1, <2>4 DEF Expiring
  <2>6. \/ series'[u.ex] = series[u.ex]
        \/ series'[u.ex] = [p \in Prices |-> Absent]
    BY <1>2, <2>3 DEF Tick
  <2> QED
    BY <2>3, <2>5, <2>6 DEF Members
<1>3. CASE RefreshTTL
  BY <1>3 DEF RefreshTTL, Expiring
<1>4. ASSUME NEW e \in Exchanges, CleanSeries(e)
      PROVE  Expiring'
  <2> PICK u : u = writer.item
    OBVIOUS
  <2> SUFFICES ASSUME writer' # NoWrite, Young(u)'
               PROVE  u.price \in Members(u.ex)' \/ Members(u.ex)' = {}
    BY <1>4 DEF Expiring, CleanSeries, writerVars
  <2>1. writer' = writer /\ added' = added /\ now' = now
    BY <1>4 DEF CleanSeries, writerVars
  <2>2. u \in added
    BY <1>0, <2>1 DEF TypeOK
  <2>3. Young(u) /\ u.ex \in Exchanges
    BY <1>0, <2>1, <2>2, UpdateFields DEF Young
  <2>4. CASE u.price \in Members(u.ex)
    BY <1>4, <2>2, <2>3, <2>4, CleanKeepsYoung
  <2>5. CASE Members(u.ex) = {}
    <3>1. Removes
      BY <1>0, <1>4, RemoveStep
    <3> QED
      BY <2>3, <2>5, <3>1 DEF Removes, Members
  <2> QED
    BY <1>0, <2>1, <2>3, <2>4, <2>5 DEF Expiring
<1>5. CASE BeginCleanup \/ ListKeys \/ RequestStep \/ UNCHANGED vars
  <2>1. UNCHANGED <<now, series, writer, added>>
    BY <1>5 DEF BeginCleanup, ListKeys, RequestStep, BeginStatistic, ReadRange, ReadScore,
      EndStatistic, ReaderOnly, vars, keyVars, writerVars
  <2> QED
    BY <1>0, <2>1 DEF Expiring, Young, Members
<1> QED
  BY <1>0, <1>1, <1>2, <1>3, <1>4, <1>5, AddStep DEF Next, RequestStep

LEMMA CutoffNext ==
  ASSUME KeptInv, [Next]_vars
  PROVE  CutoffPast'
<1>0. TypeOK /\ CutoffPast /\ now \in Int /\ Retention \in Int
  BY SeriesAssumption DEF KeptInv, TypeOK, Times
<1>1. ASSUME cleaner' = cleaner, now' \in Int, now <= now'
      PROVE  CutoffPast'
  BY <1>0, <1>1 DEF CutoffPast, TypeOK
<1>2. ASSUME NEW keys \in SUBSET Exchanges, cleaner # NoCleanup, now' = now,
             cleaner' = CleanRest(keys)
      PROVE  CutoffPast'
  BY <1>0, <1>2, RestType DEF CutoffPast
<1>3. CASE BeginCleanup
  BY <1>0, <1>3 DEF BeginCleanup, CutoffPast, Cutoff
<1>4. CASE ListKeys
  <2>1. cleaner # NoCleanup /\ now' = now
    BY <1>4 DEF ListKeys, NoCleanup
  <2>2. CASE cleaner' = NoCleanup
    BY <2>2 DEF CutoffPast
  <2> QED
    BY <1>2, <1>4, <2>1, <2>2 DEF ListKeys
<1>5. ASSUME NEW e \in Exchanges, CleanSeries(e)
      PROVE  CutoffPast'
  <2>1. cleaner # NoCleanup /\ now' = now /\ cleaner.todo \ {e} \in SUBSET Exchanges
    BY <1>0, <1>5 DEF CleanSeries, NoCleanup, TypeOK
  <2> QED
    BY <1>2, <1>5, <2>1 DEF CleanSeries
<1>6. CASE Tick \/ RefreshTTL \/ RequestStep \/ UNCHANGED vars
  <2>1. cleaner' = cleaner
    BY <1>6 DEF Tick, RefreshTTL, RequestStep, BeginStatistic, ReadRange, ReadScore,
      EndStatistic, ReaderOnly, vars, cleanerVars
  <2> QED
    BY <1>0, <1>1, <1>6, <2>1, RemoveStep
<1>7. ASSUME NEW e \in Exchanges, NEW p \in Prices, NEW u \in Update, Adds(e, p, u)
      PROVE  CutoffPast'
  BY <1>0, <1>1, <1>7 DEF Adds
<1> QED
  BY <1>0, <1>3, <1>4, <1>5, <1>6, <1>7, AddStep DEF Next, RequestStep
-----------------------------------------------------------------------------
(* What a request may hold: prices of its period only, and when it is      *)
(* answered without a failure, nothing is left to read.                    *)
Found ==
  reader # NoRequest =>
    /\ reader.todo \subseteq reader.exchanges
    /\ reader.before \subseteq durable
    /\ reader.members \cup reader.points
         \subseteq {[ex |-> u.ex, price |-> u.price] : u \in Window}
    /\ Answered /\ ~reader.partial => reader.todo = {} /\ reader.members = {}
    /\ reader.pc = "500" /\ ~reader.partial => reader.points = {}

(* An update that was durable when the request began, is young and had its *)
(* price reported in the period only.                                      *)
Due(u) ==
  /\ u \in Window \cap reader.before
  /\ Young(u)
  /\ \A v \in added : v.ex = u.ex /\ v.price = u.price => v \in Window

(* Its price is found, or will be, unless a command fails.                 *)
Complete ==
  reader # NoRequest /\ ~reader.partial =>
    \A u : Due(u) =>
      \/ u.ex \in reader.todo
      \/ [ex |-> u.ex, price |-> u.price] \in reader.members \cup reader.points

AnswerInv == KeptInv /\ Found /\ Complete

(* A request that goes on with exchanges T to read, members M to look up   *)
(* and points P found, or with a failure if f.                             *)
Advances(T, M, P, f) ==
  /\ reader' \in Statistic
  /\ reader'.exchanges = reader.exchanges
  /\ reader'.from = reader.from /\ reader'.to = reader.to
  /\ reader'.before = reader.before
  /\ reader'.todo = T /\ reader'.members = M /\ reader'.points = P
  /\ reader'.partial = f
  /\ Answered' /\ ~f => T = {} /\ M = {}
  /\ reader'.pc = "500" /\ ~f => P = {}

LEMMA ReadRangeAdvances ==
  ASSUME TypeOK, NEW e \in Exchanges, ReadRange(e)
  PROVE  LET found == {[ex |-> e, price |-> p] :
                         p \in {q \in Members(e) : InRange(series[e][q])}}
         IN  \/ OneExchange /\ Advances({}, found, reader.points, reader.partial)
             \/ Advances({}, reader.members, reader.points, TRUE)
             \/ Advances(reader.todo \ {e}, reader.members,
                         reader.points \cup found, reader.partial)
             \/ Advances(reader.todo \ {e}, reader.members, reader.points, TRUE)
<1> DEFINE found == {[ex |-> e, price |-> p] :
                       p \in {q \in Members(e) : InRange(series[e][q])}}
<1>1. reader \in Statistic /\ reader.pc = "range"
  BY UnderWay DEF ReadRange, NoRequest
<1>2. found \in SUBSET Point
  BY DEF Members, Point
<1> DEFINE r1 == [reader EXCEPT !.todo = {}, !.members = found]
           r2 == [reader EXCEPT !.todo = @ \ {e}, !.points = @ \cup found]
           r3 == [reader EXCEPT !.todo = @ \ {e}, !.partial = TRUE]
<1>3. \/ OneExchange /\ (ContinueWith(r1) \/ reader' = Failed(reader))
      \/ ContinueWith(r2) \/ ContinueWith(r3)
  BY DEF ReadRange
<1> HIDE DEF found
<1>4. /\ r1 \in Statistic /\ r1.pc = "range"
      /\ r1.exchanges = reader.exchanges /\ r1.from = reader.from
      /\ r1.to = reader.to /\ r1.before = reader.before
      /\ r1.todo = {} /\ r1.members = found /\ r1.points = reader.points
      /\ r1.partial = reader.partial
  BY <1>1, <1>2 DEF Statistic
<1>5. /\ r2 \in Statistic /\ r2.pc = "range"
      /\ r2.exchanges = reader.exchanges /\ r2.from = reader.from
      /\ r2.to = reader.to /\ r2.before = reader.before
      /\ r2.todo = reader.todo \ {e} /\ r2.members = reader.members
      /\ r2.points = reader.points \cup found
      /\ r2.partial = reader.partial
  BY <1>1, <1>2 DEF Statistic
<1>6. /\ r3 \in Statistic /\ r3.pc = "range"
      /\ r3.exchanges = reader.exchanges /\ r3.from = reader.from
      /\ r3.to = reader.to /\ r3.before = reader.before
      /\ r3.todo = reader.todo \ {e} /\ r3.members = reader.members
      /\ r3.points = reader.points
      /\ r3.partial = TRUE
  BY <1>1, <1>2 DEF Statistic
<1> HIDE DEF r1, r2, r3
<1>7. CASE OneExchange /\ ContinueWith(r1)
  <2>1. Advances({}, found, reader.points, reader.partial)
    BY <1>4, <1>7, Continues DEF Advances, Answered
  <2> QED
    BY <1>7, <2>1 DEF found
<1>8. CASE reader' = Failed(reader)
  BY <1>1, <1>8, Fails DEF Advances
<1>9. CASE ContinueWith(r2)
  <2>1. Advances(reader.todo \ {e}, reader.members, reader.points \cup found,
                 reader.partial)
    BY <1>5, <1>9, Continues DEF Advances, Answered
  <2> QED
    BY <2>1 DEF found
<1>10. CASE ContinueWith(r3)
  <2>1. Advances(reader.todo \ {e}, reader.members, reader.points, TRUE)
    BY <1>6, <1>10, Continues DEF Advances, Answered
  <2> QED
    BY <2>1
<1> QED
  BY <1>3, <1>7, <1>8, <1>9, <1>10

LEMMA ReadScoreAdvances ==
  ASSUME TypeOK, reader.pc = "range", NEW m \in reader.members, ReadScore(m)
  PROVE  LET M == reader.members \ {m}
         IN  \/ Advances(reader.todo, M, reader.points \cup {m}, reader.partial)
             \/ /\ m.price \notin Members(m.ex)
                /\ Advances(reader.todo, M, reader.points, reader.partial)
             \/ Advances(reader.todo, M, reader.points, TRUE)
<1>1. reader \in Statistic /\ m \in Point
  BY UnderWay DEF NoRequest, Statistic
<1> DEFINE r1 == [reader EXCEPT !.members = @ \ {m}, !.points = @ \cup {m}]
           r2 == [reader EXCEPT !.members = @ \ {m}]
           r3 == [reader EXCEPT !.members = @ \ {m}, !.partial = TRUE]
<1>2. \/ ContinueWith(r1)
      \/ m.price \notin Members(m.ex) /\ ContinueWith(r2)
      \/ ContinueWith(r3)
  BY DEF ReadScore
<1>3. /\ r1 \in Statistic /\ r1.pc = "range"
      /\ r1.exchanges = reader.exchanges /\ r1.from = reader.from
      /\ r1.to = reader.to /\ r1.before = reader.before
      /\ r1.todo = reader.todo /\ r1.members = reader.members \ {m}
      /\ r1.points = reader.points \cup {m}
      /\ r1.partial = reader.partial
  BY <1>1 DEF Statistic
<1>4. /\ r2 \in Statistic /\ r2.pc = "range"
      /\ r2.exchanges = reader.exchanges /\ r2.from = reader.from
      /\ r2.to = reader.to /\ r2.before = reader.before
      /\ r2.todo = reader.todo /\ r2.members = reader.members \ {m}
      /\ r2.points = reader.points
      /\ r2.partial = reader.partial
  BY <1>1 DEF Statistic
<1>5. /\ r3 \in Statistic /\ r3.pc = "range"
      /\ r3.exchanges = reader.exchanges /\ r3.from = reader.from
      /\ r3.to = reader.to /\ r3.before = reader.before
      /\ r3.todo = reader.todo /\ r3.members = reader.members \ {m}
      /\ r3.points = reader.points
      /\ r3.partial = TRUE
  BY <1>1 DEF Statistic
<1> HIDE DEF r1, r2, r3
<1>6. CASE ContinueWith(r1)
  BY <1>3, <1>6, Continues DEF Advances, Answered
<1>7. CASE m.price \notin Members(m.ex) /\ ContinueWith(r2)
  <2>1. Advances(reader.todo, reader.members \ {m}, reader.points, reader.partial)
    BY <1>4, <1>7, Continues DEF Advances, Answered
  <2> QED
    BY <1>7, <2>1
<1>8. CASE ContinueWith(r3)
  BY <1>5, <1>8, Continues DEF Advances, Answered
<1> QED
  BY <1>2, <1>6, <1>7, <1>8

(* A due price is in its series, with a score the request looks for.       *)
LEMMA DueIsThere ==
  ASSUME AnswerInv, reader # NoRequest, NEW u, Due(u)
  PROVE  /\ u \in durable
         /\ u.ex \in Exchanges /\ u.ex \in reader.exchanges
         /\ u.price \in Members(u.ex)
         /\ InRange(series[u.ex][u.price])
<1>1. u \in added /\ u \in durable /\ u.ex \in reader.exchanges
  BY DEF AnswerInv, Found, Due, Window
<1>2. u.price \in Members(u.ex) /\ u.ex \in Exchanges
  BY <1>1, UpdateFields DEF AnswerInv, KeptInv, Kept, Due
<1>3. PICK v \in added : /\ v.ex = u.ex /\ v.price = u.price
                         /\ v.score = series[u.ex][u.price]
  BY <1>2 DEF AnswerInv, KeptInv, Stored
<1>4. v \in Window
  BY <1>3 DEF Due
<1> QED
  BY <1>1, <1>2, <1>3, <1>4 DEF Window, InRange

(* While a request advances, its period and what is due stay the same.     *)
LEMMA SamePeriod ==
  ASSUME NEW T, NEW M, NEW P, NEW f, Advances(T, M, P, f), ReaderOnly
  PROVE  /\ Window' = Window
         /\ \A u : Due(u)' <=> Due(u)
<1>1. /\ reader'.exchanges = reader.exchanges
      /\ reader'.from = reader.from /\ reader'.to = reader.to
      /\ reader'.before = reader.before
      /\ now' = now /\ added' = added
  BY DEF Advances, ReaderOnly, writerVars
<1>2. Window' = Window
  BY <1>1 DEF Window
<1> QED
  BY <1>1, <1>2 DEF Due, Young

LEMMA AdvanceKeeps ==
  ASSUME AnswerInv, reader # NoRequest, ReaderOnly,
         NEW T, NEW M, NEW P, NEW f, Advances(T, M, P, f),
         T \subseteq reader.todo,
         M \cup P \subseteq {[ex |-> u.ex, price |-> u.price] : u \in Window},
         ~f => /\ ~reader.partial
               /\ \A u : Due(u) =>
                    \/ u.ex \in T
                    \/ [ex |-> u.ex, price |-> u.price] \in M \cup P
  PROVE  Found' /\ Complete'
<1>1. Window' = Window /\ \A u : Due(u)' <=> Due(u)
  BY SamePeriod
<1>2. /\ reader'.todo = T /\ reader'.members = M /\ reader'.points = P
      /\ reader'.partial = f
      /\ reader'.exchanges = reader.exchanges /\ reader'.before = reader.before
      /\ durable' = durable
      /\ Answered' /\ ~f => T = {} /\ M = {}
      /\ reader'.pc = "500" /\ ~f => P = {}
  BY DEF Advances, ReaderOnly, writerVars
<1>3. Found'
  BY <1>1, <1>2 DEF Found, AnswerInv
<1>4. Complete'
  BY <1>1, <1>2 DEF Complete
<1> QED
  BY <1>3, <1>4

(* One exchange: it is the one that is read.                               *)
LEMMA OnlyOne ==
  ASSUME TypeOK, reader # NoRequest, OneExchange, NEW e \in reader.exchanges
  PROVE  reader.exchanges = {e}
<1>1. IsFiniteSet(reader.exchanges)
  BY UnderWay, SeriesAssumption, FS_Subset DEF Statistic
<1>2. \E x : reader.exchanges = {x}
  BY <1>1, FS_Singleton DEF OneExchange
<1> QED
  BY <1>2

LEMMA ReadRangeKeeps ==
  ASSUME AnswerInv, NEW e \in Exchanges, ReadRange(e)
  PROVE  Found' /\ Complete'
<1> DEFINE found == {[ex |-> e, price |-> p] :
                       p \in {q \in Members(e) : InRange(series[e][q])}}
           inPeriod == {[ex |-> u.ex, price |-> u.price] : u \in Window}
<1>0. /\ reader # NoRequest /\ e \in reader.todo /\ ReaderOnly /\ TypeOK
      /\ e \in reader.exchanges
  BY DEF ReadRange, NoRequest, AnswerInv, KeptInv, Found
<1>1. reader.members \cup reader.points \subseteq inPeriod
  BY <1>0 DEF AnswerInv, Found
<1>2. found \subseteq inPeriod
  <2> SUFFICES ASSUME NEW p \in Members(e), InRange(series[e][p])
               PROVE  [ex |-> e, price |-> p] \in inPeriod
    OBVIOUS
  <2>1. PICK u \in added : u.ex = e /\ u.price = p /\ u.score = series[e][p]
    BY DEF AnswerInv, KeptInv, Stored
  <2>2. u \in Window
    BY <1>0, <2>1 DEF Window, InRange
  <2> QED
    BY <2>1, <2>2
<1>3. ASSUME NEW u, Due(u), u.ex = e
      PROVE  [ex |-> u.ex, price |-> u.price] \in found
  BY <1>0, <1>3, DueIsThere
<1>4. ASSUME ~reader.partial, NEW u, Due(u)
      PROVE  \/ u.ex \in reader.todo
             \/ [ex |-> u.ex, price |-> u.price] \in reader.members \cup reader.points
  BY <1>0, <1>4 DEF AnswerInv, Complete
<1>5. reader.partial \in BOOLEAN
  BY <1>0, UnderWay DEF Statistic
<1> HIDE DEF found
<1>6. CASE OneExchange /\ Advances({}, found, reader.points, reader.partial)
  <2>1. \A u : Due(u) => u.ex = e
    BY <1>0, <1>6, DueIsThere, OnlyOne
  <2> QED
    BY <1>0, <1>1, <1>2, <1>3, <1>6, <2>1, AdvanceKeeps
<1>7. CASE Advances({}, reader.members, reader.points, TRUE)
  BY <1>0, <1>1, <1>7, AdvanceKeeps
<1>8. CASE Advances(reader.todo \ {e}, reader.members, reader.points \cup found,
                    reader.partial)
  <2>1. ~reader.partial => \A u : Due(u) =>
          \/ u.ex \in reader.todo \ {e}
          \/ [ex |-> u.ex, price |-> u.price]
               \in reader.members \cup (reader.points \cup found)
    BY <1>3, <1>4
  <2>2. reader.members \cup (reader.points \cup found) \subseteq inPeriod
    BY <1>1, <1>2
  <2> QED
    BY <1>0, <1>8, <2>1, <2>2, AdvanceKeeps
<1>9. CASE Advances(reader.todo \ {e}, reader.members, reader.points, TRUE)
  BY <1>0, <1>1, <1>9, AdvanceKeeps
<1> QED
  BY <1>0, <1>6, <1>7, <1>8, <1>9, ReadRangeAdvances DEF found

LEMMA ReadScoreKeeps ==
  ASSUME AnswerInv, reader.pc = "range", NEW m \in reader.members, ReadScore(m)
  PROVE  Found' /\ Complete'
<1> DEFINE inPeriod == {[ex |-> u.ex, price |-> u.price] : u \in Window}
           M == reader.members \ {m}
<1>0. reader # NoRequest /\ ReaderOnly /\ TypeOK
  BY DEF ReadScore, NoRequest, AnswerInv, KeptInv
<1>1. reader.members \cup reader.points \subseteq inPeriod
  BY <1>0 DEF AnswerInv, Found
<1>2. ASSUME ~reader.partial, NEW u, Due(u)
      PROVE  \/ u.ex \in reader.todo
             \/ [ex |-> u.ex, price |-> u.price] \in reader.members \cup reader.points
  BY <1>0, <1>2 DEF AnswerInv, Complete
<1>3. CASE Advances(reader.todo, M, reader.points \cup {m}, reader.partial)
  <2>1. M \cup (reader.points \cup {m}) = reader.members \cup reader.points
    OBVIOUS
  <2> QED
    BY <1>0, <1>1, <1>2, <1>3, <2>1, AdvanceKeeps
<1>4. CASE /\ m.price \notin Members(m.ex)
           /\ Advances(reader.todo, M, reader.points, reader.partial)
  <2>1. ASSUME NEW u, Due(u)
        PROVE  [ex |-> u.ex, price |-> u.price] # m
    BY <1>0, <1>4, <2>1, DueIsThere
  <2>2. ~reader.partial => \A u : Due(u) =>
          \/ u.ex \in reader.todo
          \/ [ex |-> u.ex, price |-> u.price] \in M \cup reader.points
    BY <1>2, <2>1
  <2>3. M \cup reader.points \subseteq inPeriod
    BY <1>1
  <2> QED
    BY <1>0, <1>4, <2>2, <2>3, AdvanceKeeps
<1>5. CASE Advances(reader.todo, M, reader.points, TRUE)
  <2>1. M \cup reader.points \subseteq inPeriod
    BY <1>1
  <2> QED
    BY <1>0, <1>5, <2>1, AdvanceKeeps
<1> QED
  BY <1>0, <1>3, <1>4, <1>5, ReadScoreAdvances

LEMMA BeginKeeps ==
  ASSUME KeptInv, NEW q \in Requests, BeginStatistic(q[1], q[2])
  PROVE  Found' /\ Complete'
<1> DEFINE r == Started(q[1], q[2])
<1>1. ContinueWith(r) \/ reader' = Failed(r)
  BY DEF BeginStatistic, Started
<1>2. UNCHANGED <<now, series, added, durable>>
  BY DEF BeginStatistic, ReaderOnly, keyVars, writerVars
<1>3. /\ r \in Statistic /\ r.pc = "range" /\ r.exchanges = q[1]
      /\ r.todo = {e \in q[1] : Members(e) # {}}
      /\ r.members = {} /\ r.points = {} /\ r.before = durable
  BY Begins DEF KeptInv, Started
<1> HIDE DEF r
<1>4. /\ reader'.exchanges = q[1] /\ reader'.before = durable
      /\ reader'.members = {} /\ reader'.points = {}
      /\ reader'.todo \subseteq q[1]
      /\ ~reader'.partial => ContinueWith(r)
      /\ Answered' /\ ~reader'.partial => reader'.todo = {}
  BY <1>1, <1>3, Continues, Fails DEF Answered
<1>5. Found'
  BY <1>2, <1>4 DEF Found
<1>6. ASSUME ~reader'.partial, NEW u, Due(u)'
      PROVE  u.ex \in reader'.todo
  <2>1. u \in durable /\ u.ex \in q[1] /\ Young(u)
    BY <1>2, <1>4, <1>6 DEF Due, Window, Young
  <2>2. u.price \in Members(u.ex)
    BY <2>1 DEF KeptInv, Kept
  <2>3. reader'.todo = {e \in q[1] : Members(e) # {}}
    BY <1>3, <1>4, <1>6, Continues
  <2> QED
    BY <2>1, <2>2, <2>3
<1>7. Complete'
  BY <1>6 DEF Complete
<1> QED
  BY <1>5, <1>7

(* What the others do never takes away from an answer: more updates and    *)
(* more time only make fewer updates due.                                  *)
LEMMA OthersKeep ==
  ASSUME AnswerInv, reader' = reader, added \subseteq added',
         durable \subseteq durable', now' \in Int, now <= now'
  PROVE  Found' /\ Complete'
<1>1. Window \subseteq Window'
  BY DEF Window
<1>2. TypeOK /\ Answered' = Answered
  BY DEF AnswerInv, KeptInv, Answered
<1>3. Found'
  BY <1>1, <1>2 DEF AnswerInv, Found
<1>4. ASSUME reader # NoRequest, NEW u, Due(u)'
      PROVE  Due(u)
  <2>1. u \in reader.before /\ u \in added
    BY <1>2, <1>4 DEF Due, AnswerInv, Found, TypeOK
  <2>2. \A v \in added : v \in Window' => v \in Window
    BY DEF Window
  <2>3. Young(u)
    BY <1>2, <1>4, YoungBefore DEF Due
  <2> QED
    BY <1>4, <2>1, <2>2, <2>3 DEF Due
<1>5. Complete'
  BY <1>4 DEF AnswerInv, Complete
<1> QED
  BY <1>3, <1>5

LEMMA AnswerInit ==
  Init => AnswerInv
BY TypeInit DEF Init, AnswerInv, KeptInv, Stored, Members, Past, Kept,
  Expiring, CutoffPast, Found, Complete

LEMMA AnswerNext ==
  AnswerInv /\ [Next]_vars => AnswerInv'
<1> SUFFICES ASSUME AnswerInv, [Next]_vars PROVE AnswerInv'
  OBVIOUS
<1>0. KeptInv /\ TypeOK /\ Stored /\ Past /\ now \in Int
  BY SeriesAssumption DEF AnswerInv, KeptInv, TypeOK, Times
<1>1. KeptInv'
  BY <1>0, TypeNext, StoredNext, PastNext, KeptNext, ExpiringNext, CutoffNext
    DEF KeptInv
<1>2. ASSUME NEW e \in Exchanges, NEW p \in Prices, NEW u \in Update,
             Adds(e, p, u)
      PROVE  Found' /\ Complete'
  BY <1>0, <1>2, OthersKeep DEF Adds
<1>3. ASSUME \/ Tick \/ RefreshTTL \/ BeginCleanup \/ ListKeys \/ UNCHANGED vars
             \/ \E e \in Exchanges : CleanSeries(e)
      PROVE  Found' /\ Complete'
  <2>1. Removes /\ now' \in Int /\ now <= now'
    BY <1>0, <1>3, RemoveStep
  <2>2. reader' = reader
    BY <1>3 DEF Tick, RefreshTTL, BeginCleanup, ListKeys, CleanSeries, vars
  <2>3. added \subseteq added' /\ durable \subseteq durable'
    BY <2>1 DEF Removes
  <2> QED
    BY <2>1, <2>2, <2>3, OthersKeep
<1>4. ASSUME EndStatistic PROVE Found' /\ Complete'
  BY <1>4 DEF EndStatistic, Found, Complete
<1>5. ASSUME NEW q \in Requests, BeginStatistic(q[1], q[2])
      PROVE  Found' /\ Complete'
  BY <1>0, <1>5, BeginKeeps
<1>6. ASSUME NEW e \in Exchanges, ReadRange(e)
      PROVE  Found' /\ Complete'
  BY <1>6, ReadRangeKeeps
<1>7. ASSUME reader.pc = "range", NEW m \in reader.members, ReadScore(m)
      PROVE  Found' /\ Complete'
  BY <1>7, ReadScoreKeeps
<1>8. Found' /\ Complete'
  BY <1>0, <1>2, <1>3, <1>4, <1>5, <1>6, <1>7, AddStep DEF Next
<1> QED
  BY <1>1, <1>8 DEF AnswerInv

(* A statistic is made of prices that were reported in its period, however *)
(* its commands fall between those of the writer and of the cleanup: no    *)
(* price is invented and none is from outside.                             *)
THEOREM OfPeriod ==
  Spec => []PricesAreOfPeriod
<1>1. AnswerInv => PricesAreOfPeriod
  <2> SUFFICES ASSUME AnswerInv, Answered PROVE PricesAreOfPeriod
    BY DEF PricesAreOfPeriod
  <2>1. reader # NoRequest
    BY DEF Answered, NoRequest
  <2> QED
    BY <2>1 DEF AnswerInv, Found, PricesAreOfPeriod
<1> QED
  BY <1>1, AnswerInit, AnswerNext, PTL DEF Spec

(* And its extremes are right as long as no command of it fails and the    *)
(* updates of its period are durable, young, and not repeated outside.     *)
THEOREM Extremes ==
  Spec => []ExtremesRight
<1>1. AnswerInv => ExtremesRight
  <2> SUFFICES ASSUME AnswerInv, Answered, Reliable, Window # {}
               PROVE  ExtremesRight
    BY DEF ExtremesRight
  <2>1. /\ reader # NoRequest /\ ~reader.partial
        /\ reader.todo = {} /\ reader.members = {}
    BY DEF Answered, NoRequest, Reliable, AnswerInv, Found
  <2>2. reader.points \subseteq {[ex |-> u.ex, price |-> u.price] : u \in Window}
    BY <2>1 DEF AnswerInv, Found
  <2>3. ASSUME NEW u \in Window
        PROVE  [ex |-> u.ex, price |-> u.price] \in reader.points
    <3>1. Due(u)
      BY DEF Reliable, Due, Young
    <3> QED
      BY <2>1, <3>1 DEF AnswerInv, Complete
  <2>4. {m.price : m \in reader.points} = {u.price : u \in Window}
    <3>1. ASSUME NEW m \in reader.points
          PROVE  m.price \in {u.price : u \in Window}
      <4>1. PICK u \in Window : m = [ex |-> u.ex, price |-> u.price]
        BY <2>2
      <4> QED
        BY <4>1
    <3>2. ASSUME NEW u \in Window
          PROVE  u.price \in {m.price : m \in reader.points}
      <4> DEFINE m == [ex |-> u.ex, price |-> u.price]
      <4>1. m \in reader.points /\ m.price = u.price
        BY <2>3
      <4> HIDE DEF m
      <4> QED
        BY <4>1
    <3> QED
      BY <3>1, <3>2
  <2>5. reader.pc = "200"
    BY <2>1, <2>3 DEF Answered, AnswerInv, Found
  <2> QED
    BY <2>4, <2>5 DEF ExtremesRight, findHighestPrice, findLowestPrice
<1> QED
  BY <1>1, AnswerInit, AnswerNext, PTL DEF Spec
-----------------------------------------------------------------------------
(* The cleanup begins a round every CleanupEvery, with the cutoff of that  *)
(* time, and ends it by its deadline.                                      *)
OnTime ==
  /\ now <= nextCleanup
  /\ nextCleanup - CleanupEvery <= now
  /\ cleaner # NoCleanup =>
       /\ cleaner.cutoff = nextCleanup - CleanupEvery - Retention
       /\ cleaner.deadline = nextCleanup - CleanupEvery + RoundLimit
       /\ now <= cleaner.deadline

(* When the last round that is done with the series of e began.            *)
LastClean(e) ==
  IF cleaner.pc = "keys" \/ e \in cleaner.todo THEN nextCleanup - 2 * CleanupEvery
                                               ELSE nextCleanup - CleanupEvery

(* Since then no price is older than the retention, up to a cut to seconds.*)
Cleaned ==
  ~cleanFailed =>
    \A e \in Exchanges : \A p \in Members(e) :
      LastClean(e) - Retention - Second + 1 < series[e][p]

CleanInv == TypeOK /\ OnTime /\ Cleaned

LEMMA CleanNumbers ==
  ASSUME TypeOK
  PROVE  /\ now \in Nat /\ nextCleanup \in Nat
         /\ CleanupEvery \in Nat /\ Retention \in Nat /\ Second \in Nat
         /\ 0 < CleanupEvery /\ 0 < Second
         /\ RoundLimit \in Nat /\ RoundLimit < CleanupEvery
         /\ Delay \in Nat
         /\ \A e : LastClean(e) \in Int
         /\ \A e \in Exchanges : \A p \in Members(e) : series[e][p] \in Nat
<1>1. /\ now \in Nat /\ nextCleanup \in Nat
      /\ CleanupEvery \in Nat /\ Retention \in Nat /\ Second \in Nat
      /\ 0 < CleanupEvery /\ 0 < Second
      /\ RoundLimit \in Nat /\ RoundLimit < CleanupEvery
      /\ Delay \in Nat
  BY SeriesAssumption DEF TypeOK, Times
<1>2. \A e : LastClean(e) \in Int
  BY <1>1 DEF LastClean
<1>3. ASSUME NEW e \in Exchanges, NEW p \in Members(e)
      PROVE  series[e][p] \in Nat
  <2>1. p \in Prices /\ series[e][p] # Absent
    BY DEF Members
  <2>2. series[e][p] \in Times \cup {Absent}
    BY <2>1 DEF TypeOK
  <2> QED
    BY <2>1, <2>2, SeriesAssumption DEF Times
<1> QED
  BY <1>1, <1>2, <1>3

(* Every step keeps the rounds on time.                                    *)
LEMMA OnTimeNext ==
  ASSUME CleanInv, [Next]_vars
  PROVE  OnTime'
<1>0. /\ TypeOK /\ OnTime
      /\ cleaner # NoCleanup => cleaner.deadline \in Nat
  BY DEF CleanInv, TypeOK
<1>1. CASE Tick
  <2>1. /\ now' = now + 1 /\ now < nextCleanup
        /\ cleaner # NoCleanup => now < cleaner.deadline
        /\ cleaner' = cleaner /\ nextCleanup' = nextCleanup
    BY <1>1 DEF Tick, cleanerVars
  <2> QED
    BY <1>0, <2>1, CleanNumbers DEF OnTime
<1>2. CASE BeginCleanup
  <2>1. /\ now' = now /\ nextCleanup' = now + CleanupEvery
        /\ cleaner'.cutoff = now - Retention
        /\ cleaner'.deadline = now + RoundLimit
    BY <1>2 DEF BeginCleanup, Cutoff
  <2> QED
    BY <2>1, <1>0, CleanNumbers DEF OnTime
<1>3. ASSUME NEW keys \in SUBSET Exchanges, cleaner # NoCleanup,
             now' = now, nextCleanup' = nextCleanup,
             cleaner' = CleanRest(keys) \/ cleaner' = NoCleanup
      PROVE  OnTime'
  BY <1>0, <1>3, RestType DEF OnTime
<1>4. CASE ListKeys
  <2>1. /\ cleaner # NoCleanup /\ now' = now /\ nextCleanup' = nextCleanup
        /\ \/ cleaner' = CleanRest({e \in Exchanges : Members(e) # {}})
           \/ cleaner' = NoCleanup
    BY <1>4 DEF ListKeys, NoCleanup
  <2> QED
    BY <1>3, <2>1
<1>5. ASSUME NEW e \in Exchanges, CleanSeries(e)
      PROVE  OnTime'
  <2>1. /\ cleaner # NoCleanup /\ now' = now /\ nextCleanup' = nextCleanup
        /\ cleaner.todo \ {e} \in SUBSET Exchanges
        /\ cleaner' = CleanRest(cleaner.todo \ {e})
    BY <1>0, <1>5 DEF CleanSeries, NoCleanup, TypeOK
  <2> QED
    BY <1>3, <2>1
<1>6. ASSUME UNCHANGED <<now, cleaner, nextCleanup>>
      PROVE  OnTime'
  BY <1>0, <1>6 DEF OnTime
<1> QED
  BY <1>1, <1>2, <1>4, <1>5, <1>6 DEF Next, AddToSeries, RefreshTTL, BeginStatistic,
    ReadRange, ReadScore, EndStatistic, ReaderOnly, vars, cleanerVars

LEMMA CleanedNext ==
  ASSUME Delay < Retention, CleanInv, [Next]_vars
  PROVE  Cleaned'
<1>0. /\ TypeOK /\ OnTime /\ Cleaned
      /\ cleanFailed \in BOOLEAN
  BY DEF CleanInv, TypeOK
<1>1. ASSUME NEW e \in Exchanges, NEW p \in Prices, NEW u \in Update,
             u.score \in Times, now - Delay - Second < u.score, Adds(e, p, u)
      PROVE  Cleaned'
  <2>1. UNCHANGED <<cleaner, nextCleanup, cleanFailed>>
    BY <1>1 DEF Adds
  <2>2. ASSUME ~cleanFailed, NEW f \in Exchanges, NEW q \in Members(f)'
        PROVE  LastClean(f) - Retention - Second + 1 < series'[f][q]
    <3>1. q \in Prices /\ series'[f][q] # Absent
      BY DEF Members
    <3>2. CASE f = e /\ q = p
      <4>1. series'[f][q] = u.score /\ u.score \in Int
        BY <1>0, <1>1, <3>1, <3>2, SeriesAssumption DEF Adds, TypeOK, Times
      <4>2. LastClean(f) <= now
        BY <1>0, CleanNumbers DEF LastClean, OnTime
      <4> QED
        BY <1>0, <1>1, <4>1, <4>2, CleanNumbers
    <3>3. CASE ~(f = e /\ q = p)
      <4>1. series'[f][q] = series[f][q]
        BY <1>0, <1>1, <3>1, <3>3 DEF Adds, TypeOK
      <4> QED
        BY <1>0, <2>2, <3>1, <4>1 DEF Cleaned, Members
    <3> QED
      BY <3>2, <3>3
  <2> QED
    BY <2>1, <2>2 DEF Cleaned, LastClean
<1>2. ASSUME Removes, cleanFailed' = cleanFailed \/ cleanFailed',
             ~cleanFailed' => \A e \in Exchanges :
               Members(e) # {} => LastClean(e)' = LastClean(e)
      PROVE  Cleaned'
  <2>1. \A e \in Exchanges : \A p \in Members(e)' :
          p \in Members(e) /\ series'[e][p] = series[e][p]
    BY <1>2 DEF Removes, Members
  <2> QED
    BY <1>0, <1>2, <2>1 DEF Cleaned
<1>3. CASE Tick \/ RefreshTTL \/ RequestStep \/ UNCHANGED vars
  <2>1. UNCHANGED <<cleaner, nextCleanup, cleanFailed>>
    BY <1>3 DEF Tick, RefreshTTL, RequestStep, BeginStatistic, ReadRange, ReadScore,
      EndStatistic, ReaderOnly, vars, cleanerVars
  <2>2. \A e : LastClean(e)' = LastClean(e)
    BY <2>1 DEF LastClean
  <2> QED
    BY <1>0, <1>2, <1>3, <2>1, <2>2, RemoveStep
<1>4. CASE BeginCleanup
  <2>1. /\ now = nextCleanup /\ nextCleanup' = now + CleanupEvery
        /\ cleaner = NoCleanup /\ cleaner'.pc = "keys"
        /\ cleanFailed' = cleanFailed
    BY <1>0, <1>4, CleanNumbers DEF BeginCleanup, OnTime
  <2>2. \A e : LastClean(e)' = LastClean(e)
    BY <1>0, <2>1, CleanNumbers DEF LastClean, NoCleanup
  <2> QED
    BY <1>0, <1>2, <1>4, <2>1, <2>2, RemoveStep
<1>5. CASE ListKeys
  <2>1. /\ cleaner # NoCleanup /\ cleaner.pc = "keys"
        /\ nextCleanup' = nextCleanup
        /\ \/ /\ cleaner' = CleanRest({e \in Exchanges : Members(e) # {}})
              /\ cleanFailed' = cleanFailed
           \/ cleanFailed'
    BY <1>5 DEF ListKeys, NoCleanup
  <2>2. ASSUME ~cleanFailed', NEW e \in Exchanges, Members(e) # {}
        PROVE  LastClean(e)' = LastClean(e)
    <3>1. e \in cleaner'.todo
      BY <1>0, <2>1, <2>2, RestType
    <3> QED
      BY <2>1, <3>1 DEF LastClean
  <2> QED
    BY <1>0, <1>2, <1>5, <2>1, <2>2, RemoveStep
<1>6. ASSUME NEW e \in Exchanges, CleanSeries(e)
      PROVE  Cleaned'
  <2>1. /\ nextCleanup' = nextCleanup
        /\ cleaner.pc = "clean" /\ e \in cleaner.todo /\ cleaner # NoCleanup
        /\ cleaner.todo \ {e} \in SUBSET Exchanges
        /\ cleaner' = CleanRest(cleaner.todo \ {e})
    BY <1>0, <1>6 DEF CleanSeries, NoCleanup, TypeOK
  <2>2. cleaner'.todo = cleaner.todo \ {e} /\ cleaner'.pc # "keys"
    BY <1>0, <2>1, RestType
  <2>3. ASSUME ~cleanFailed', NEW f \in Exchanges, NEW q \in Members(f)'
        PROVE  LastClean(f)' - Retention - Second + 1 < series'[f][q]
    <3> DEFINE kept == {p \in Members(e) : ~TooOld(series[e][p])}
    <3>1. /\ ~cleanFailed
          /\ series' = [series EXCEPT ![e] =
                 [p \in Prices |-> IF p \in kept THEN @[p] ELSE Absent]]
      BY <1>6, <2>3 DEF CleanSeries
    <3>2. q \in Prices /\ series'[f][q] # Absent
      BY DEF Members
    <3>3. CASE f = e
      <4>1. q \in kept /\ series'[f][q] = series[e][q]
        BY <1>0, <3>1, <3>2, <3>3 DEF TypeOK
      <4> DEFINE score == series[e][q]
      <4>2. score \in Nat /\ ~TooOld(score)
        BY <1>0, <4>1, CleanNumbers
      <4>3. /\ cleaner.cutoff = nextCleanup - CleanupEvery - Retention
            /\ cleaner.cutoff \in Int
        BY <1>0, <2>1 DEF OnTime, TypeOK
      <4>4. WholeSecond(cleaner.cutoff) < score
            /\ cleaner.cutoff - Second < WholeSecond(cleaner.cutoff)
            /\ WholeSecond(cleaner.cutoff) \in Int
        BY <4>2, <4>3, WholeSeconds DEF TooOld
      <4>5. LastClean(f)' = nextCleanup - CleanupEvery
        BY <2>1, <2>2, <3>3 DEF LastClean
      <4> QED
        BY <1>0, <4>1, <4>2, <4>3, <4>4, <4>5, CleanNumbers
    <3>4. CASE f # e
      <4>1. series'[f][q] = series[f][q] /\ q \in Members(f)
        BY <1>0, <3>1, <3>2, <3>4 DEF TypeOK, Members
      <4>2. LastClean(f) - Retention - Second + 1 < series[f][q]
        BY <1>0, <3>1, <4>1 DEF Cleaned
      <4>3. LastClean(f)' = LastClean(f)
        BY <2>1, <2>2, <3>4 DEF LastClean
      <4> QED
        BY <4>1, <4>2, <4>3
    <3> QED
      BY <3>3, <3>4
  <2> QED
    BY <2>3 DEF Cleaned
<1> QED
  BY <1>0, <1>1, <1>3, <1>4, <1>5, <1>6, AddStep DEF Next, RequestStep

LEMMA CleanInit ==
  Init => CleanInv
<1> SUFFICES ASSUME Init PROVE CleanInv
  OBVIOUS
<1>1. TypeOK
  BY TypeInit
<1>2. OnTime
  BY <1>1, CleanNumbers DEF Init, OnTime
<1>3. Cleaned
  BY DEF Init, Cleaned, Members
<1> QED
  BY <1>1, <1>2, <1>3 DEF CleanInv

(* The series stay small, as long as the cleanup's commands succeed and    *)
(* updates arrive before the retention is over: a price is gone a second,  *)
(* one period of the cleanup and the time of a round after its time to     *)
(* live, even if no EXPIRE ever reached its key or each new price prolongs *)
(* it.  An update may be older only by what its score is cut.              *)
THEOREM Bounded ==
  ASSUME Delay < Retention
  PROVE  Spec => []SeriesBounded
<1>1. CleanInv /\ [Next]_vars => CleanInv'
  BY TypeNext, OnTimeNext, CleanedNext DEF CleanInv
<1>2. CleanInv => SeriesBounded
  <2> SUFFICES ASSUME CleanInv, ~cleanFailed,
                      NEW e \in Exchanges, NEW p \in Members(e)
               PROVE  now - series[e][p]
                        < Retention + CleanupEvery + RoundLimit + Second - 1
    BY DEF SeriesBounded
  <2>1. TypeOK /\ OnTime /\ LastClean(e) - Retention - Second + 1 < series[e][p]
    BY DEF CleanInv, Cleaned
  <2>2. series[e][p] \in Nat /\ LastClean(e) \in Int
    BY <2>1, CleanNumbers
  <2>3. now - CleanupEvery - RoundLimit <= LastClean(e)
    <3>1. CASE cleaner.pc = "keys" \/ e \in cleaner.todo
      <4>1. now <= nextCleanup - CleanupEvery + RoundLimit
        BY <2>1, <3>1 DEF OnTime, NoCleanup
      <4> QED
        BY <2>1, <3>1, <4>1, CleanNumbers DEF LastClean
    <3>2. CASE ~(cleaner.pc = "keys" \/ e \in cleaner.todo)
      BY <2>1, <3>2, CleanNumbers DEF LastClean, OnTime
    <3> QED
      BY <3>1, <3>2
  <2> QED
    BY <2>1, <2>2, <2>3, CleanNumbers
<1> QED
  BY <1>1, <1>2, CleanInit, PTL DEF Spec
=============================================================================
