----------------------------- MODULE PriceSeries -----------------------------
(***************************************************************************)
(* The time series of one symbol in Redis, a sorted set per exchange, and  *)
(* everyone who uses it: SetPrice, called for one update after the other;  *)
(* the cleanup routine; and an HTTP request that asks the price service    *)
(* for a statistic over a period.  Each is a series of Redis commands, and *)
(* those of the three interleave.  The latest:* keys, which the same       *)
(* functions use as well, are in LatestPrice.                              *)
(*                                                                         *)
(* Time is counted in ticks, Second to a second, because the code treats   *)
(* milliseconds and whole seconds differently.                             *)
(***************************************************************************)
EXTENDS Integers, FiniteSets, FiniteSetsExt

CONSTANTS
  Exchanges,
  Prices,       \* the prices that "%f" tells apart
  Second,       \* ticks per second
  Retention,    \* time to live of a key and age CleanupOldData is given, 120 s
  CleanupEvery, \* period of the cleanup routine, 30 s
  RoundLimit,   \* how long a round of it can take: its context ends after 10 s,
                \* and the command begun by then at its own timeout, 3 s
  Periods,      \* the periods requests ask for
  Delay,        \* bound: how late an update may reach SetPrice
  MaxTime,      \* bound: the last tick
  MaxWrites     \* bound: how many updates are stored

ASSUME SeriesAssumption ==
  /\ IsFiniteSet(Exchanges)
  /\ Prices \subseteq Nat \ {0}
  /\ Second \in Nat \ {0}
  /\ Retention \in Nat \ {0}
  /\ CleanupEvery \in Nat \ {0}
  /\ RoundLimit \in Nat /\ RoundLimit < CleanupEvery
  /\ Periods \subseteq Nat \ {0}
  /\ Delay \in Nat
  /\ MaxTime \in Nat /\ Second <= MaxTime
  /\ MaxWrites \in Nat

VARIABLES
  now,         \* the clock
  series,      \* series[e]: the sorted set timeseries:<symbol>:<e>
  ttl,         \* ttl[e]: when that key expires
  writer,      \* the goroutine of processMarketData, inside SetPrice
  cleaner,     \* the goroutine of startCleanupRoutine
  nextCleanup, \* when its ticker fires
  reader,      \* the goroutine that serves a request
  writes,      \* how many updates reached ZADD
  added,       \* history: the updates ZADD stored
  durable,     \* history: those whose EXPIRE took effect
  cleanFailed  \* history: a command of the cleanup had no effect

keyVars     == <<series, ttl>>
writerVars  == <<writer, writes, added, durable>>
cleanerVars == <<cleaner, nextCleanup, cleanFailed>>

vars == <<now, keyVars, writerVars, cleanerVars, reader>>
-----------------------------------------------------------------------------
Never == MaxTime + Retention + 1

Times == 0 .. MaxTime
WholeSecond(t) == (t \div Second) * Second

(* A timestamp is in seconds or, above 1e12, in milliseconds.              *)
Millis == MaxTime + 1
Stamps(t) == {t \div Second, Millis + t}

(* The score of a timestamp: seconds, with the fraction milliseconds give. *)
\* mistake: milliseconds are not converted.
ScoreUnconverted(ts) == IF ts >= Millis THEN ts ELSE ts * Second
Score(ts) == IF ts >= Millis THEN ts - Millis ELSE ts * Second

(* The n-th update stored.                                                 *)
Update == [n : 1 .. MaxWrites, ex : Exchanges, price : Prices, score : Times]

Absent == -1
Members(e) == {p \in Prices : series[e][p] # Absent}

(* The goroutines between two calls.                                       *)
NoWrite   == [pc |-> "idle"]
NoCleanup == [pc |-> "idle", todo |-> {}]
NoRequest == [pc |-> "idle"]

Init ==
  /\ now = Second
  /\ series = [e \in Exchanges |-> [p \in Prices |-> Absent]]
  /\ ttl = [e \in Exchanges |-> Never]
  /\ writer = NoWrite
  /\ cleaner = NoCleanup
  /\ nextCleanup = Second + CleanupEvery
  /\ reader = NoRequest
  /\ writes = 0
  /\ added = {}
  /\ durable = {}
  /\ cleanFailed = FALSE

(* Time passes, during a round of the cleanup as well, and Redis drops the *)
(* keys whose time to live is over.  The routine takes a tick of its       *)
(* ticker at once, and after its context's deadline no command of a round  *)
(* has an effect any more.                                                 *)
Tick ==
  /\ now < MaxTime
  /\ now < nextCleanup
  /\ cleaner # NoCleanup => now < cleaner.deadline
  /\ now' = now + 1
  /\ LET over(e) == ttl[e] <= now + 1
     IN  /\ series' = [e \in Exchanges |->
                         IF over(e) THEN [p \in Prices |-> Absent] ELSE series[e]]
         /\ ttl' = [e \in Exchanges |-> IF over(e) THEN Never ELSE ttl[e]]
  /\ UNCHANGED <<writerVars, cleanerVars, reader>>
-----------------------------------------------------------------------------
(* SetPrice, after its SET of the latest price.                            *)

(* ZADD overwrites the score of a price the set already has.  One that     *)
(* fails, like a SET that fails, ends the call and leaves no trace here.   *)
AddToSeries(e, p, ts) ==
  /\ writer = NoWrite
  /\ writes < MaxWrites
  /\ writes' = writes + 1
  /\ LET u == [n |-> writes + 1, ex |-> e, price |-> p, score |-> Score(ts)]
     IN  /\ series' = [series EXCEPT ![e][p] = u.score]
         /\ added' = added \cup {u}
         /\ writer' = [pc |-> "expire", item |-> u]
  /\ UNCHANGED <<now, ttl, durable, cleanerVars, reader>>

(* EXPIRE, whose result nobody looks at: it may fail, or find no key.      *)
RefreshTTL ==
  /\ writer.pc = "expire"
  /\ writer' = NoWrite
  /\ LET u == writer.item
     IN  \/ /\ Members(u.ex) # {}
            /\ ttl' = [ttl EXCEPT ![u.ex] = now + Retention]
            /\ durable' = durable \cup {u}
         \/ UNCHANGED <<ttl, durable>>
  /\ UNCHANGED <<now, series, writes, added, cleanerVars, reader>>
-----------------------------------------------------------------------------
(* CleanupOldData, its first half.  KEYS ends the round if it fails, any   *)
(* other command skips its key.  The cutoff is taken once, at the start.   *)

(* olderThan before now.                                                   *)
\* mistake: olderThan is not subtracted.
CutoffNow == now
Cutoff == now - Retention

BeginCleanup ==
  /\ cleaner = NoCleanup
  /\ now >= nextCleanup
  /\ nextCleanup' = now + CleanupEvery
  /\ cleaner' = [pc |-> "keys", todo |-> {}, cutoff |-> Cutoff,
                 deadline |-> now + RoundLimit]
  /\ UNCHANGED <<now, keyVars, writerVars, reader, cleanFailed>>

(* What is left of a round when the series in keys are still to be cleaned.*)
CleanRest(keys) ==
  IF keys = {} THEN NoCleanup ELSE [cleaner EXCEPT !.pc = "clean", !.todo = keys]

ListKeys ==
  /\ cleaner.pc = "keys"
  /\ \/ /\ cleaner' = CleanRest({e \in Exchanges : Members(e) # {}})
        /\ UNCHANGED cleanFailed
     \/ /\ cleaner' = NoCleanup
        /\ cleanFailed' = TRUE
  /\ UNCHANGED <<now, keyVars, writerVars, nextCleanup, reader>>

(* ZREMRANGEBYSCORE key 0 cutoff.  Redis drops a set that gets empty.      *)
\* mistake: minimum and maximum are swapped.
TooOldSwapped(score) == WholeSecond(cleaner.cutoff) <= score /\ score <= 0
TooOld(score) == 0 <= score /\ score <= WholeSecond(cleaner.cutoff)

CleanSeries(e) ==
  /\ cleaner.pc = "clean"
  /\ e \in cleaner.todo
  /\ cleaner' = CleanRest(cleaner.todo \ {e})
  /\ LET kept == {p \in Members(e) : ~TooOld(series[e][p])}
     IN  \/ /\ series' = [series EXCEPT ![e] =
                 [p \in Prices |-> IF p \in kept THEN @[p] ELSE Absent]]
            /\ ttl' = [ttl EXCEPT ![e] = IF kept = {} THEN Never ELSE @]
            /\ UNCHANGED cleanFailed
         \/ /\ cleanFailed' = TRUE
            /\ UNCHANGED keyVars
  /\ UNCHANGED <<now, writerVars, nextCleanup, reader>>
-----------------------------------------------------------------------------
(* GetHighestPrice, GetLowestPrice and GetAveragePrice read the prices of  *)
(* all exchanges with GetPricesInRange, or those of one exchange with      *)
(* GetPricesInRangeByExchange.                                             *)

ReaderOnly == UNCHANGED <<now, keyVars, writerVars, cleanerVars>>

(* The requests that get past the handler: all exchanges or one of them,   *)
(* and a period that ParsePeriod accepts.                                  *)
Requests == ({Exchanges} \cup {{e} : e \in Exchanges}) \X Periods

(* With nothing left to read the service answers with the statistic of     *)
(* what it got.  No data, and an error of the cache, are both its error,   *)
(* and the handler's status 500.                                           *)
Finished(r) == [r EXCEPT !.pc = IF r.points = {} THEN "500" ELSE "200"]
Failed(r) == [r EXCEPT !.pc = "500", !.todo = {}, !.partial = TRUE]

ContinueWith(r) ==
  reader' = IF r.todo = {} /\ r.members = {} THEN Finished(r) ELSE r

(* CalculateTimeRange, cut to whole seconds, and KEYS or EXISTS.           *)
BeginStatistic(X, period) ==
  /\ reader = NoRequest
  /\ LET r == [pc |-> "range", exchanges |-> X,
               from |-> WholeSecond(now - period), to |-> WholeSecond(now),
               todo |-> {e \in X : Members(e) # {}}, members |-> {},
               points |-> {}, before |-> durable, partial |-> FALSE]
     IN  ContinueWith(r) \/ reader' = Failed(r)
  /\ ReaderOnly

OneExchange == Cardinality(reader.exchanges) = 1

(* ZRANGEBYSCORE on one key.  Over all exchanges a failure leaves out the  *)
(* key, and each price is taken even if its ZSCORE fails; for one exchange *)
(* a failure is an error, and each price waits for its ZSCORE.             *)
\* mistake: the lower bound is left out.
NotAfter(score) == score <= reader.to
InRange(score) == reader.from <= score /\ score <= reader.to

ReadRange(e) ==
  /\ reader.pc = "range"
  /\ e \in reader.todo
  /\ LET found == {[ex |-> e, price |-> p] :
                     p \in {q \in Members(e) : InRange(series[e][q])}}
     IN  \/ /\ OneExchange
            /\ \/ ContinueWith([reader EXCEPT !.todo = {}, !.members = found])
               \/ reader' = Failed(reader)
         \/ /\ ~OneExchange
            /\ \/ ContinueWith([reader EXCEPT !.todo = @ \ {e},
                                              !.points = @ \cup found])
               \/ ContinueWith([reader EXCEPT !.todo = @ \ {e}, !.partial = TRUE])
  /\ ReaderOnly

(* ZSCORE, for one exchange: a price that is gone by now is left out, and  *)
(* so is one whose command fails.                                          *)
ReadScore(m) ==
  /\ m \in reader.members
  /\ \/ /\ m.price \in Members(m.ex)
        /\ ContinueWith([reader EXCEPT !.members = @ \ {m}, !.points = @ \cup {m}])
     \/ /\ m.price \notin Members(m.ex)
        /\ ContinueWith([reader EXCEPT !.members = @ \ {m}])
     \/ ContinueWith([reader EXCEPT !.members = @ \ {m}, !.partial = TRUE])
  /\ ReaderOnly

Answered == reader.pc \in {"200", "500"}

EndStatistic ==
  /\ Answered
  /\ reader' = NoRequest
  /\ ReaderOnly

(* findHighestPrice, findLowestPrice; calculateAveragePrice before it is   *)
(* rounded, as a sum and a count.                                          *)
findHighestPrice(P) == Max({m.price : m \in P})
findLowestPrice(P) == Min({m.price : m \in P})
PriceSum(P) == MapThenSumSet(LAMBDA m : m.price, P)
-----------------------------------------------------------------------------
(* When an update that reaches SetPrice now may have been reported; not in *)
(* the clock's first second, since a timestamp is 0 only when malformed.   *)
Recent == {t \in now - Delay .. now : t >= Second}

Next ==
  \/ Tick
  \/ \E e \in Exchanges, p \in Prices, t \in Recent :
       \E ts \in Stamps(t) : AddToSeries(e, p, ts)
  \/ RefreshTTL
  \/ BeginCleanup
  \/ ListKeys
  \/ \E e \in Exchanges : CleanSeries(e)
  \/ \E q \in Requests : BeginStatistic(q[1], q[2])
  \/ \E e \in Exchanges : ReadRange(e)
  \/ reader.pc = "range" /\ \E m \in reader.members : ReadScore(m)
  \/ EndStatistic

Spec == Init /\ [][Next]_vars
-----------------------------------------------------------------------------
Point == [ex : Exchanges, price : Prices]

(* A request under way.                                                    *)
Statistic ==
  [pc : {"range", "200", "500"}, exchanges : SUBSET Exchanges, from : Int,
   to : Times, todo : SUBSET Exchanges, members : SUBSET Point,
   points : SUBSET Point, before : SUBSET Update, partial : BOOLEAN]

(* Type invariant.                                                         *)
TypeOK ==
  /\ now \in Times
  /\ series \in [Exchanges -> [Prices -> Times \cup {Absent}]]
  /\ ttl \in [Exchanges -> Nat]
  /\ writer \in {NoWrite} \cup [pc : {"expire"}, item : added]
  /\ cleaner \in {NoCleanup}
                   \cup [pc : {"keys", "clean"}, todo : SUBSET Exchanges,
                         cutoff : Int, deadline : Nat]
  /\ nextCleanup \in Nat
  /\ reader \in {NoRequest} \cup Statistic
  /\ writes \in 0 .. MaxWrites
  /\ added \in SUBSET Update
  /\ durable \in SUBSET added
  /\ cleanFailed \in BOOLEAN

(* The updates a statistic should be about: those stored with a timestamp  *)
(* in its period.                                                          *)
Window ==
  {u \in added : u.ex \in reader.exchanges
                  /\ reader.from <= u.score /\ u.score <= reader.to}

(***************************************************************************)
(* A statistic is made of prices that were reported in its period, however *)
(* the commands of the request fall between those of the writer and of the *)
(* cleanup (GetPricesInRange, redis.go): the highest price is never too    *)
(* high and the lowest never too low.                                      *)
(***************************************************************************)
PricesAreOfPeriod ==
  Answered =>
    reader.points \subseteq {[ex |-> u.ex, price |-> u.price] : u \in Window}

(***************************************************************************)
(* The answer can be relied on to be complete if no command failed and     *)
(* every update of the period was safely stored before the request, is     *)
(* younger than the retention, and had the same price reported only        *)
(* within the period.                                                      *)
(***************************************************************************)
Reliable ==
  /\ ~reader.partial
  /\ \A u \in Window :
       /\ u \in reader.before
       /\ now < u.score + Retention
       /\ \A v \in added : v.ex = u.ex /\ v.price = u.price => v \in Window

(* Then the extremes are right ("gets the highest price for a symbol",     *)
(* prices.go): neither cleanup nor expiry takes anything away too early.   *)
ExtremesRight ==
  Answered /\ Reliable /\ Window # {} =>
    /\ reader.pc = "200"
    /\ findHighestPrice(reader.points) = findHighestPrice(Window)
    /\ findLowestPrice(reader.points) = findLowestPrice(Window)

(* And the average is that of the reported prices ("gets the average price *)
(* for a symbol across all exchanges within a period", prices.go).         *)
AverageRight ==
  Answered /\ Reliable =>
    PriceSum(reader.points) * Cardinality(Window)
      = PriceSum(Window) * Cardinality(reader.points)

(***************************************************************************)
(* The series stay small: while the commands of the cleanup succeed no     *)
(* price is kept longer than the retention, one period of the cleanup and  *)
(* the time a round may take, not even in a key that got no time to live   *)
(* or always gets a new one.  A round may come to a series early and the   *)
(* next one late, each with the cutoff of its start, which cut to a second *)
(* is up to Second - 1 too low (CleanupOldData, redis.go).                 *)
(***************************************************************************)
SeriesBounded ==
  ~cleanFailed =>
    \A e \in Exchanges : \A p \in Members(e) :
      now - series[e][p] < Retention + CleanupEvery + RoundLimit + Second - 1
=============================================================================
