----------------------------- MODULE LatestPrice -----------------------------
(***************************************************************************)
(* The latest:* keys of one symbol in Redis, a key per exchange, and       *)
(* everyone who uses them: SetPrice, which overwrites a key; the cleanup   *)
(* routine, which reads a key and deletes it in a second command; and a    *)
(* request for the latest price, of all exchanges or of one.  The series   *)
(* that the same functions keep are in PriceSeries.                        *)
(*                                                                         *)
(* Time is counted in ticks, Second to a second, because timestamps are    *)
(* milliseconds or whole seconds.                                          *)
(***************************************************************************)
EXTENDS Integers, FiniteSets

CONSTANTS
  Exchanges,
  Second,       \* ticks per second
  Retention,    \* time to live of a key and age CleanupOldData is given, 120 s
  CleanupEvery, \* period of the cleanup routine, 30 s
  Delay,        \* bound: how late an update may reach SetPrice
  MaxTime,      \* bound: the last tick
  MaxWrites     \* bound: how many updates are written

ASSUME LatestAssumption ==
  /\ Second \in Nat \ {0}
  /\ Retention \in Nat \ {0}
  /\ CleanupEvery \in Nat \ {0}
  /\ Delay \in Nat
  /\ MaxTime \in Nat
  /\ Second <= MaxTime
  /\ MaxWrites \in Nat

VARIABLES
  now,         \* the clock
  redis,       \* Redis answered the ping of Initialize
  latest,      \* latest[e]: the key latest:<symbol>:<e>
  writes,      \* how many updates were written
  cleaner,     \* the goroutine of startCleanupRoutine
  nextCleanup, \* when its ticker fires
  reader,      \* the goroutine that serves a request
  held,        \* history: held[e] is what the key of e was while a request
               \* compared the keys
  lastSet,     \* history: lastSet[e] is the update last written for e
  raced        \* history: the keys written after the cleanup had read them
               \* and before it deleted them

cleanerVars == <<cleaner, nextCleanup>>
vars == <<now, redis, latest, writes, cleanerVars, reader, held, lastSet, raced>>
-----------------------------------------------------------------------------
(* A timestamp is in seconds or, above 1e12, in milliseconds, as the       *)
(* exchange sent it; 0 is left on a malformed update only.                 *)
Millis == MaxTime + 1
Stamps(t) == {t \div Second, Millis + t, 0}
InMillis(ts) == ts >= Millis

(* What a key holds: the update, reported at tick at with timestamp ts,    *)
(* and when its time to live is over.                                      *)
Entry == [at : Nat, ts : Nat, until : Nat]
Missing == [ts |-> 0]

NoCleanup == [pc |-> "idle"]
NoRequest == [pc |-> "idle"]

Init ==
  /\ now = Second
  /\ redis \in BOOLEAN
  /\ latest = [e \in Exchanges |-> Missing]
  /\ writes = 0
  /\ cleaner = NoCleanup
  /\ nextCleanup = Second + CleanupEvery
  /\ reader = NoRequest
  /\ held = [e \in Exchanges |-> {}]
  /\ lastSet = [e \in Exchanges |-> Missing]
  /\ raced = {}

(* The keys become L, before the eyes of a request that compares them.     *)
Comparing == reader.pc = "get" /\ reader.all

KeysBecome(L) ==
  /\ latest' = L
  /\ held' = [e \in Exchanges |-> IF Comparing THEN held[e] \cup {L[e]} ELSE held[e]]

(* Time passes, and Redis drops the keys whose time to live is over.       *)
Tick ==
  /\ now < MaxTime
  /\ now' = now + 1
  /\ KeysBecome([e \in Exchanges |->
                   IF latest[e] # Missing /\ latest[e].until <= now + 1
                   THEN Missing ELSE latest[e]])
  /\ UNCHANGED <<redis, writes, cleanerVars, reader, lastSet, raced>>
-----------------------------------------------------------------------------
(* The SET of SetPrice, with its expiration.  One that fails writes        *)
(* nothing.  Without Redis nobody calls it.                                *)

\* mistake: a SET without expiration.
NoExpiration == MaxTime + 1
Expiration == now + Retention

Deleting(e) == cleaner.pc = "delete" /\ cleaner.key = e

SetLatest(e, t, ts) ==
  /\ redis
  /\ writes < MaxWrites
  /\ writes' = writes + 1
  /\ LET u == [at |-> t, ts |-> ts, until |-> Expiration]
     IN  /\ KeysBecome([latest EXCEPT ![e] = u])
         /\ lastSet' = [lastSet EXCEPT ![e] = u]
  /\ raced' = IF Deleting(e) THEN raced \cup {e} ELSE raced \ {e}
  /\ UNCHANGED <<now, redis, cleanerVars, reader>>
-----------------------------------------------------------------------------
(* CleanupOldData, its second half.  The round goes on while keys are      *)
(* left; KEYS ends it if it fails, a failed GET or DEL skips its key.      *)

CleanRest(cutoff, keys) ==
  cleaner' = IF keys = {} THEN NoCleanup
             ELSE [pc |-> "read", cutoff |-> cutoff, todo |-> keys]

Stored == {e \in Exchanges : latest[e] # Missing}

(* olderThan before the time at which the round began.                     *)
\* mistake: olderThan is not subtracted.
CutoffNow == now
Cutoff == now - Retention

BeginCleanup ==
  /\ redis
  /\ cleaner = NoCleanup
  /\ now >= nextCleanup
  /\ nextCleanup' = now + CleanupEvery
  /\ \/ CleanRest(Cutoff, Stored)
     \/ UNCHANGED cleaner
  /\ UNCHANGED <<now, redis, latest, writes, reader, held, lastSet, raced>>

(* time.Unix(data.Timestamp, 0).Before(cutoffTime): a timestamp in         *)
(* milliseconds is taken for a second in the far future.                   *)
LooksOld(ts, cutoff) == ~InMillis(ts) /\ ts * Second < cutoff

(* GET.  It fails too if the key expired since KEYS.                       *)
CleanRead(e) ==
  /\ cleaner.pc = "read"
  /\ e \in cleaner.todo
  /\ \/ /\ latest[e] # Missing
        /\ LooksOld(latest[e].ts, cleaner.cutoff)
        /\ cleaner' = [pc |-> "delete", cutoff |-> cleaner.cutoff,
                       todo |-> cleaner.todo \ {e}, key |-> e]
     \/ CleanRest(cleaner.cutoff, cleaner.todo \ {e})
  /\ UNCHANGED <<now, redis, latest, writes, nextCleanup, reader, held,
                 lastSet, raced>>

(* DEL, whatever the key holds by now.                                     *)
CleanDelete ==
  /\ cleaner.pc = "delete"
  /\ CleanRest(cleaner.cutoff, cleaner.todo)
  /\ \/ KeysBecome([latest EXCEPT ![cleaner.key] = Missing])
     \/ UNCHANGED <<latest, held>>
  /\ UNCHANGED <<now, redis, writes, nextCleanup, reader, lastSet, raced>>
-----------------------------------------------------------------------------
(* GET /prices/latest/{symbol} and /prices/latest/{exchange}/{symbol}: the *)
(* handler, the price service and the cache, down to the status of the     *)
(* response.                                                               *)

(* The requests that get past the handler and the service's validation:    *)
(* of all exchanges or of one of them.                                     *)
Requests == {Exchanges} \cup {{e} : e \in Exchanges}

ReaderOnly == UNCHANGED <<now, redis, latest, writes, cleanerVars, lastSet, raced>>

(* An error of the cache and an answer without data are both errors of the *)
(* service, which the handler answers with status 500.                     *)
\* mistake: an answer without data is not found.
FinishedNotFound(r) == [r EXCEPT !.pc = IF r.best = Missing THEN "404" ELSE "200"]
Finished(r) == [r EXCEPT !.pc = IF r.best = Missing THEN "500" ELSE "200"]
ContinueWith(r) == reader' = IF r.todo = {} THEN Finished(r) ELSE r

(* KEYS, or nothing yet when one exchange is asked for.  Without Redis the *)
(* service's cache is an interface that holds a nil *RedisAdapter: it is   *)
(* not nil, the method is called, and its panic ends the connection.       *)
BeginRequest(X) ==
  /\ reader = NoRequest
  /\ LET all == Cardinality(X) # 1
         r == [pc |-> "get", began |-> now, all |-> all, partial |-> FALSE,
               todo |-> IF all THEN Stored ELSE X, best |-> Missing]
     IN  \/ redis /\ ContinueWith(r)
         \/ redis /\ all /\ reader' = Finished([r EXCEPT !.partial = TRUE])
         \/ ~redis /\ reader' = [r EXCEPT !.pc = "aborted", !.partial = TRUE]
  /\ held' = [e \in Exchanges |-> IF reader'.all THEN {latest[e]} ELSE {}]
  /\ ReaderOnly

(* "Get the most recent price": timestamps are compared as they are, and   *)
(* one of 0 never wins.  The only key of an exchange is not compared.      *)
\* mistake: the timestamp of the best so far is not kept.
AnyStamped(u, best) == u.ts > 0
Newer(u, best) == u.ts > best.ts

(* GET of one key.  A failure, or a key that expired, is skipped.          *)
ReadLatest(e) ==
  /\ reader.pc = "get"
  /\ e \in reader.todo
  /\ LET rest == [reader EXCEPT !.todo = @ \ {e}]
         u == latest[e]
     IN  \/ ContinueWith(IF u # Missing /\ (reader.all => Newer(u, reader.best))
                         THEN [rest EXCEPT !.best = u] ELSE rest)
         \/ ContinueWith([rest EXCEPT !.partial = TRUE])
  /\ UNCHANGED held
  /\ ReaderOnly

EndRequest ==
  /\ reader.pc \in {"200", "500", "aborted"}
  /\ reader' = NoRequest
  /\ held' = [e \in Exchanges |-> {}]
  /\ ReaderOnly
-----------------------------------------------------------------------------
(* When an update that reaches SetPrice now may have been reported.        *)
Recent == {t \in now - Delay .. now : t >= Second}

Next ==
  \/ Tick
  \/ \E e \in Exchanges, t \in Recent : \E ts \in Stamps(t) : SetLatest(e, t, ts)
  \/ BeginCleanup
  \/ \E e \in Exchanges : CleanRead(e)
  \/ CleanDelete
  \/ \E X \in Requests : BeginRequest(X)
  \/ \E e \in Exchanges : ReadLatest(e)
  \/ EndRequest

Spec == Init /\ [][Next]_vars
-----------------------------------------------------------------------------
Value == Entry \cup {Missing}

(* Type invariant.                                                         *)
TypeOK ==
  /\ now \in Nat
  /\ redis \in BOOLEAN
  /\ latest \in [Exchanges -> Value]
  /\ writes \in Nat
  /\ cleaner \in {NoCleanup}
       \cup [pc : {"read"}, cutoff : Int, todo : SUBSET Exchanges]
       \cup [pc : {"delete"}, cutoff : Int, todo : SUBSET Exchanges,
             key : Exchanges]
  /\ nextCleanup \in Nat
  /\ reader \in {NoRequest}
       \cup [pc : {"get", "200", "500", "aborted"}, began : Nat, all : BOOLEAN,
             partial : BOOLEAN, todo : SUBSET Exchanges, best : Value]
  /\ held \in [Exchanges -> SUBSET Value]
  /\ lastSet \in [Exchanges -> Value]
  /\ raced \in SUBSET Exchanges

(***************************************************************************)
(* The price of all exchanges is the most recent one, to the second, of    *)
(* those that stood while the request was served ("Get the most recent     *)
(* price", redis.go), however its commands fall between writes, expiry and *)
(* cleanup: an exchange whose key had a timestamp all the time has no      *)
(* newer price.  The code keeps this only if all commands succeeded and    *)
(* the timestamps it met were of one unit.                                 *)
(***************************************************************************)
Whole(t) == t \div Second

OneUnit ==
  \A u, v \in UNION {held[e] : e \in Exchanges} :
    u.ts > 0 /\ v.ts > 0 => (InMillis(u.ts) <=> InMillis(v.ts))

LatestIsMostRecent ==
  reader.pc \in {"200", "500"} /\ reader.all /\ ~reader.partial /\ OneUnit =>
    \A e \in Exchanges : (\A u \in held[e] : u.ts > 0) =>
      /\ reader.pc = "200"
      /\ \E u \in held[e] : Whole(u.at) <= Whole(reader.best.at)

(***************************************************************************)
(* No answer is a price written more than the retention before the request *)
(* began, cleanup or not: it is not older than that and the time it took   *)
(* to get to SetPrice ("Set latest price with 2 minute expiration (to      *)
(* ensure cleanup)", redis.go).                                            *)
(***************************************************************************)
AnswersAreRecent ==
  reader.pc = "200" => reader.began < reader.best.at + Delay + Retention

(***************************************************************************)
(* A price with a timestamp is there for the whole retention ("removes     *)
(* data older than specified duration", redis.go), unless it was written   *)
(* between the two commands of a cleanup that found its predecessor old.   *)
(***************************************************************************)
FreshIsKept ==
  \A e \in Exchanges :
    /\ lastSet[e].ts > 0
    /\ e \notin raced
    /\ now < Whole(lastSet[e].at) * Second + Retention
    => latest[e] = lastSet[e]
=============================================================================
