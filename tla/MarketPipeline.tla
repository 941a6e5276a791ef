--------------------------- MODULE MarketPipeline ---------------------------
(***************************************************************************)
(* The data path of one run of the exchange service: what flows, after a   *)
(* successful StartDataProcessing, from the data channels of the started   *)
(* adapters to the Redis cache.                                            *)
(*                                                                         *)
(*   adapter --dataChan--> fanIn --aggregated--> distributor               *)
(*           --workerPool--> worker --resultChan--> processMarketData      *)
(*                                                                         *)
(* Every arrow is a bounded Go channel and every name a goroutine that     *)
(* holds at most one update between a receive and a send.  A send that is  *)
(* still blocked after 100 ms drops the update; a Go select waiting on a   *)
(* full channel completes as soon as there is room, so the timer wins only *)
(* while the channel is full.                                              *)
(***************************************************************************)
EXTENDS Integers, Sequences, Functions

CONSTANTS
  Exchanges,     \* the adapters whose Start succeeded (the inputs of fanIn)
  NumWorkers,    \* ExchangeService.numWorkers, 15 in the code
  AdapterCap,    \* capacity of an adapter's dataChan, 100
  AggregatedCap, \* capacity of aggregatedDataChan, 1000
  WorkerCap,     \* capacity of a worker's channel, 100
  ResultCap,     \* capacity of resultChan, 1000
  Malformed,     \* <<e, n>>: the n-th update of e has no symbol, a price <= 0
                 \* or a symbol IsSymbolSupported does not know
  Unstamped,     \* <<e, n>>: the n-th update of e carries timestamp 0
  MaxUpdates     \* bound: how many updates each exchange reports

ASSUME PipelineAssumption ==
  /\ NumWorkers \in Nat \ {0}
  /\ AdapterCap \in Nat \ {0}
  /\ AggregatedCap \in Nat \ {0}
  /\ WorkerCap \in Nat \ {0}
  /\ ResultCap \in Nat \ {0}
  /\ MaxUpdates \in Nat

VARIABLES
  fed,         \* fed[e]: how many updates readData of adapter e has sent on
  closed,      \* closed[e]: adapter e was stopped and closed its dataChan
  dataChan,    \* dataChan[e]: the adapter's channel
  fan,         \* fan[e]: fanIn's goroutine for input e
  aggregated,  \* aggregatedDataChan
  dist,        \* the distributor goroutine
  workerIndex, \* its round-robin index
  workerPool,  \* workerPool[w]: the channel of worker w
  work,        \* work[w]: the worker goroutine w
  resultChan,  \* the channel GetDataStream hands to the application
  store,       \* the application's processMarketData goroutine
  latest,      \* latest[e]: value of the Redis key latest:<symbol>:<e>
  stored,      \* history: the updates SetPrice wrote to the latest key
  dispatched,  \* history: dispatched[e] is the last update of e the
               \* distributor received, 0 before the first
  lost,        \* history: updates dropped on a full channel, or that Redis
               \* did not take
  cancelled,   \* e.ctx is done
  appDone      \* app.ctx, the parent of e.ctx, is done

vars == <<fed, closed, dataChan, fan, aggregated, dist, workerIndex,
          workerPool, work, resultChan, store, latest, stored, dispatched,
          lost, cancelled, appDone>>

(* The variables of each stage, for UNCHANGED. *)
inputVars  == <<fed, closed, dataChan>>
distVars   == <<dist, workerIndex, dispatched>>
workerVars == <<workerPool, work>>
cacheVars  == <<latest, stored>>
ctxVars    == <<cancelled, appDone>>
-----------------------------------------------------------------------------
Workers == 0 .. NumWorkers - 1

(* A domain.MarketData: the n-th update its exchange reported, whose order *)
(* is also the order of their timestamps, and whether a timestamp is set.  *)
Update == [ex : Exchanges, n : 1 .. MaxUpdates, stamped : BOOLEAN]

(* What a goroutine holds: waiting for input, an update it must pass on,   *)
(* or nothing for ever because it returned.                                *)
Waiting == [pc |-> "recv"]
Exited  == [pc |-> "exited"]
Holding(u) == [pc |-> "send", item |-> u]
Goroutine == {Waiting, Exited} \cup {Holding(u) : u \in Update}

NoPrice == [ex |-> "none"]

Reported(e, n) == [ex |-> e, n |-> n, stamped |-> <<e, n>> \notin Unstamped]

IsMalformed(u) == <<u.ex, u.n>> \in Malformed

(* The two outcomes of a send on channel c of capacity cap: there is room, *)
(* or the 100 ms timer fires while the channel is full.                    *)
HasRoom(c, cap) == Len(c) < cap
TimesOut(c, cap) == Len(c) = cap

(* A channel is first in, first out.                                       *)
Send(c, u) == Append(c, u)

(* processMarketData of the exchange service: a malformed update is logged *)
(* and returned as it is, any other gets a timestamp if it has none.       *)
\* mistake: the missing timestamp is not set.
NoEnrichment(u) == u
ProcessMarketData(u) ==
  IF IsMalformed(u) THEN u ELSE [u EXCEPT !.stamped = TRUE]

Init ==
  /\ fed = [e \in Exchanges |-> 0]
  /\ closed = [e \in Exchanges |-> FALSE]
  /\ dataChan = [e \in Exchanges |-> <<>>]
  /\ fan = [e \in Exchanges |-> Waiting]
  /\ aggregated = <<>>
  /\ dist = Waiting
  /\ workerIndex = 0
  /\ workerPool = [w \in Workers |-> <<>>]
  /\ work = [w \in Workers |-> Waiting]
  /\ resultChan = <<>>
  /\ store = Waiting
  /\ latest = [e \in Exchanges |-> NoPrice]
  /\ stored = {}
  /\ dispatched = [e \in Exchanges |-> 0]
  /\ lost = {}
  /\ cancelled = FALSE
  /\ appDone = FALSE
-----------------------------------------------------------------------------
(* The adapters: readData's send and Stop's close.  What a reader does     *)
(* between its own steps is in ExchangeAdapter.                            *)

Publish(e) ==
  /\ ~closed[e]
  /\ fed[e] < MaxUpdates
  /\ fed' = [fed EXCEPT ![e] = @ + 1]
  /\ \/ /\ HasRoom(dataChan[e], AdapterCap)
        /\ dataChan' = [dataChan EXCEPT ![e] = Send(@, Reported(e, fed[e] + 1))]
        /\ UNCHANGED lost
     \/ /\ TimesOut(dataChan[e], AdapterCap)
        /\ lost' = lost \cup {Reported(e, fed[e] + 1)}
        /\ UNCHANGED dataChan
  /\ UNCHANGED <<closed, fan, aggregated, distVars, workerVars, resultChan,
                 store, cacheVars, ctxVars>>

CloseInput(e) ==
  /\ ~closed[e]
  /\ closed' = [closed EXCEPT ![e] = TRUE]
  /\ UNCHANGED <<fed, dataChan, fan, aggregated, distVars, workerVars,
                 resultChan, store, cacheVars, lost, ctxVars>>
-----------------------------------------------------------------------------
(* fanIn: one goroutine per input channel.                                 *)

FanInReceive(e) ==
  /\ fan[e] = Waiting
  /\ dataChan[e] # <<>>
  /\ fan' = [fan EXCEPT ![e] = Holding(Head(dataChan[e]))]
  /\ dataChan' = [dataChan EXCEPT ![e] = Tail(@)]
  /\ UNCHANGED <<fed, closed, aggregated, distVars, workerVars, resultChan,
                 store, cacheVars, lost, ctxVars>>

\* mistake: an update that timed out goes back to its input.
FanInRequeue(e) ==
  /\ fan[e].pc = "send"
  /\ fan' = [fan EXCEPT ![e] = Waiting]
  /\ \/ /\ HasRoom(aggregated, AggregatedCap)
        /\ aggregated' = Send(aggregated, fan[e].item)
        /\ UNCHANGED dataChan
     \/ /\ TimesOut(aggregated, AggregatedCap)
        /\ dataChan' = [dataChan EXCEPT ![e] = Send(@, fan[e].item)]
        /\ UNCHANGED aggregated
  /\ UNCHANGED <<fed, closed, distVars, workerVars, resultChan, store,
                 cacheVars, lost, ctxVars>>

FanInSend(e) ==
  /\ fan[e].pc = "send"
  /\ fan' = [fan EXCEPT ![e] = Waiting]
  /\ \/ /\ HasRoom(aggregated, AggregatedCap)
        /\ aggregated' = Send(aggregated, fan[e].item)
        /\ UNCHANGED lost
     \/ /\ TimesOut(aggregated, AggregatedCap)
        /\ lost' = lost \cup {fan[e].item}
        /\ UNCHANGED aggregated
  /\ UNCHANGED <<inputVars, distVars, workerVars, resultChan, store,
                 cacheVars, ctxVars>>

(* The goroutine returns when its input is closed and drained, or, waiting *)
(* to receive or to send, when the context is done.                        *)
\* mistake: a closed input is not drained.
FanInExitUndrained(e) ==
  /\ closed[e] \/ cancelled
  /\ fan[e] # Exited
  /\ fan' = [fan EXCEPT ![e] = Exited]
  /\ UNCHANGED <<inputVars, aggregated, distVars, workerVars, resultChan,
                 store, cacheVars, lost, ctxVars>>

FanInExit(e) ==
  /\ \/ fan[e] = Waiting /\ closed[e] /\ dataChan[e] = <<>>
     \/ fan[e] # Exited /\ cancelled
  /\ fan' = [fan EXCEPT ![e] = Exited]
  /\ UNCHANGED <<inputVars, aggregated, distVars, workerVars, resultChan,
                 store, cacheVars, lost, ctxVars>>
-----------------------------------------------------------------------------
(* distributor                                                             *)

DistributorReceive ==
  /\ dist = Waiting
  /\ aggregated # <<>>
  /\ LET u == Head(aggregated)
     IN  /\ dist' = Holding(u)
         /\ dispatched' = [dispatched EXCEPT ![u.ex] = u.n]
  /\ aggregated' = Tail(aggregated)
  /\ UNCHANGED <<inputVars, fan, workerIndex, workerVars, resultChan, store,
                 cacheVars, lost, ctxVars>>

(* The index moves on whether the worker took the update or not.           *)
\* mistake: the index is not wrapped.
NextWorkerUnwrapped == workerIndex + 1
NextWorker == (workerIndex + 1) % NumWorkers

DistributorSend ==
  /\ dist.pc = "send"
  /\ dist' = Waiting
  /\ workerIndex' = NextWorker
  /\ \/ /\ HasRoom(workerPool[workerIndex], WorkerCap)
        /\ workerPool' = [workerPool EXCEPT ![workerIndex] = Send(@, dist.item)]
        /\ UNCHANGED lost
     \/ /\ TimesOut(workerPool[workerIndex], WorkerCap)
        /\ lost' = lost \cup {dist.item}
        /\ UNCHANGED workerPool
  /\ UNCHANGED <<inputVars, fan, aggregated, dispatched, work, resultChan,
                 store, cacheVars, ctxVars>>

DistributorExit ==
  /\ dist # Exited
  /\ cancelled
  /\ dist' = Exited
  /\ UNCHANGED <<inputVars, fan, aggregated, workerIndex, dispatched,
                 workerVars, resultChan, store, cacheVars, lost, ctxVars>>
-----------------------------------------------------------------------------
(* worker                                                                  *)

WorkerReceive(w) ==
  /\ work[w] = Waiting
  /\ workerPool[w] # <<>>
  /\ work' = [work EXCEPT ![w] = Holding(ProcessMarketData(Head(workerPool[w])))]
  /\ workerPool' = [workerPool EXCEPT ![w] = Tail(@)]
  /\ UNCHANGED <<inputVars, fan, aggregated, distVars, resultChan, store,
                 cacheVars, lost, ctxVars>>

\* mistake: the worker sends an update again.
WorkerSendAndKeep(w) ==
  /\ work[w].pc = "send"
  /\ HasRoom(resultChan, ResultCap)
  /\ resultChan' = Send(resultChan, work[w].item)
  /\ UNCHANGED <<inputVars, fan, aggregated, distVars, workerVars, store,
                 cacheVars, lost, ctxVars>>

WorkerSend(w) ==
  /\ work[w].pc = "send"
  /\ work' = [work EXCEPT ![w] = Waiting]
  /\ \/ /\ HasRoom(resultChan, ResultCap)
        /\ resultChan' = Send(resultChan, work[w].item)
        /\ UNCHANGED lost
     \/ /\ TimesOut(resultChan, ResultCap)
        /\ lost' = lost \cup {work[w].item}
        /\ UNCHANGED resultChan
  /\ UNCHANGED <<inputVars, fan, aggregated, distVars, workerPool, store,
                 cacheVars, ctxVars>>

\* mistake: only the inner select watches the context.
WorkerExitWhileSending(w) ==
  /\ work[w].pc = "send"
  /\ cancelled
  /\ work' = [work EXCEPT ![w] = Exited]
  /\ UNCHANGED <<inputVars, fan, aggregated, distVars, workerPool, resultChan,
                 store, cacheVars, lost, ctxVars>>

WorkerExit(w) ==
  /\ work[w] # Exited
  /\ cancelled
  /\ work' = [work EXCEPT ![w] = Exited]
  /\ UNCHANGED <<inputVars, fan, aggregated, distVars, workerPool, resultChan,
                 store, cacheVars, lost, ctxVars>>
-----------------------------------------------------------------------------
(* The application's processMarketData goroutine and SetPrice.             *)

StoreReceive ==
  /\ store = Waiting
  /\ resultChan # <<>>
  /\ store' = Holding(Head(resultChan))
  /\ resultChan' = Tail(resultChan)
  /\ UNCHANGED <<inputVars, fan, aggregated, distVars, workerVars, cacheVars,
                 lost, ctxVars>>

(* SetPrice overwrites the latest key of the update's symbol and exchange. *)
(* It writes nothing when Redis is not configured or fails, which is at    *)
(* most logged.                                                            *)
StorePrice ==
  /\ store.pc = "send"
  /\ store' = Waiting
  /\ \/ /\ lost' = lost \cup {store.item}
        /\ UNCHANGED cacheVars
     \/ /\ latest' = [latest EXCEPT ![store.item.ex] = store.item]
        /\ stored' = stored \cup {store.item}
        /\ UNCHANGED lost
  /\ UNCHANGED <<inputVars, fan, aggregated, distVars, workerVars, resultChan,
                 ctxVars>>

StoreExit ==
  /\ store = Waiting
  /\ appDone
  /\ store' = Exited
  /\ UNCHANGED <<inputVars, fan, aggregated, distVars, workerVars, resultChan,
                 cacheVars, lost, ctxVars>>
-----------------------------------------------------------------------------
(* e.ctx is a child of the context StartDataProcessing was given: it is    *)
(* done when the service or that caller cancels it, and with app.ctx.      *)
Cancel ==
  /\ ~cancelled
  /\ cancelled' = TRUE
  /\ UNCHANGED <<inputVars, fan, aggregated, distVars, workerVars, resultChan,
                 store, cacheVars, lost, appDone>>

AppCancel ==
  /\ ~appDone
  /\ appDone' = TRUE
  /\ cancelled' = TRUE
  /\ UNCHANGED <<inputVars, fan, aggregated, distVars, workerVars, resultChan,
                 store, cacheVars, lost>>

Next ==
  \/ \E e \in Exchanges : \/ Publish(e)
                          \/ CloseInput(e)
                          \/ FanInReceive(e)
                          \/ FanInSend(e)
                          \/ FanInExit(e)
  \/ DistributorReceive
  \/ DistributorSend
  \/ DistributorExit
  \/ \E w \in Workers : \/ WorkerReceive(w)
                        \/ WorkerSend(w)
                        \/ WorkerExit(w)
  \/ StoreReceive
  \/ StorePrice
  \/ StoreExit
  \/ Cancel
  \/ AppCancel

Spec == Init /\ [][Next]_vars

(***************************************************************************)
(* Fairness: the Go scheduler runs every goroutine that can go on, and a   *)
(* goroutine blocked in a send can always go on once its timer has fired.  *)
(* Nothing is assumed of the exchanges, of Stop or of cancellation.        *)
(***************************************************************************)
Fairness ==
  /\ \A e \in Exchanges :
       WF_vars(FanInReceive(e) \/ FanInSend(e) \/ FanInExit(e))
  /\ WF_vars(DistributorReceive \/ DistributorSend \/ DistributorExit)
  /\ \A w \in Workers :
       WF_vars(WorkerReceive(w) \/ WorkerSend(w) \/ WorkerExit(w))
  /\ WF_vars(StoreReceive \/ StorePrice \/ StoreExit)

FairSpec == Spec /\ Fairness
-----------------------------------------------------------------------------
(* Type invariant.                                                         *)
TypeOK ==
  /\ fed \in [Exchanges -> Nat]
  /\ closed \in [Exchanges -> BOOLEAN]
  /\ dataChan \in [Exchanges -> Seq(Update)]
  /\ fan \in [Exchanges -> Goroutine]
  /\ aggregated \in Seq(Update)
  /\ dist \in Goroutine
  /\ workerIndex \in Workers
  /\ workerPool \in [Workers -> Seq(Update)]
  /\ work \in [Workers -> Goroutine]
  /\ resultChan \in Seq(Update)
  /\ store \in Goroutine
  /\ latest \in [Exchanges -> Update \cup {NoPrice}]
  /\ stored \in SUBSET Update
  /\ dispatched \in [Exchanges -> Nat]
  /\ lost \in SUBSET Update
  /\ cancelled \in BOOLEAN
  /\ appDone \in BOOLEAN

-----------------------------------------------------------------------------
(* Where an update is.                                                     *)
Key(u) == <<u.ex, u.n>>
Held(g) == IF g.pc = "send" THEN {g.item} ELSE {}

Buffered ==
  (UNION {Range(dataChan[e]) : e \in Exchanges}) \cup Range(aggregated)
    \cup (UNION {Range(workerPool[w]) : w \in Workers}) \cup Range(resultChan)

InHand ==
  (UNION {Held(fan[e]) : e \in Exchanges}) \cup Held(dist)
    \cup (UNION {Held(work[w]) : w \in Workers}) \cup Held(store)

Keys(S) == {Key(u) : u \in S}
Reports == UNION {{<<e, n>> : n \in 1 .. fed[e]} : e \in Exchanges}
InFlight == Keys(Buffered \cup InHand)

(***************************************************************************)
(* Upstream of the worker pool the updates of one exchange stay in the     *)
(* order the exchange reported them: everything waiting is later than what *)
(* the distributor took last, fanIn's update is later than what it already *)
(* forwarded, and so on back to the adapter (fanIn and distributor,        *)
(* service.go).                                                            *)
(***************************************************************************)
InOrder(s) ==
  \A i, j \in DOMAIN s : i < j /\ s[i].ex = s[j].ex => s[i].n < s[j].n

(* Everything of e in s is earlier than its n-th update.                   *)
AllBefore(s, e, n) == \A u \in Range(s) : u.ex = e => u.n < n

AfterAggregated(e, n) == dispatched[e] < n /\ AllBefore(aggregated, e, n)

AggregatedInOrder ==
  /\ InOrder(aggregated)
  /\ \A u \in Range(aggregated) : dispatched[u.ex] < u.n

FanInOrder ==
  \A e \in Exchanges : fan[e].pc = "send" =>
    /\ fan[e].item.ex = e
    /\ fan[e].item.n <= fed[e]
    /\ AfterAggregated(e, fan[e].item.n)

(* The last conjunct is about the update the adapter sends next.           *)
InputInOrder ==
  \A e \in Exchanges :
    /\ InOrder(dataChan[e])
    /\ \A u \in Range(dataChan[e]) :
         /\ u.ex = e
         /\ u.n <= fed[e]
         /\ AfterAggregated(e, u.n)
         /\ fan[e].pc = "send" => fan[e].item.n < u.n
    /\ AfterAggregated(e, fed[e] + 1)

UpstreamOrdered == AggregatedInOrder /\ FanInOrder /\ InputInOrder

(***************************************************************************)
(* Nothing disappears unseen: while the context is not done, each update   *)
(* the exchanges reported is in flight, written to Redis, or given up by   *)
(* one of the logged drops; and at no time is it in two of these places,   *)
(* so no update reaches the cache twice.                                   *)
(***************************************************************************)
Accounted ==
  /\ InFlight \cap Keys(stored \cup lost) = {}
  /\ Keys(stored) \cap Keys(lost) = {}
  /\ ~cancelled => Reports = InFlight \cup Keys(stored \cup lost)

(***************************************************************************)
(* A well-formed update is written with a timestamp, even one its exchange *)
(* reported without (service.go, "Ensure timestamp is set"); one written   *)
(* with timestamp 0 could never be returned by GetLatestPrice.             *)
(***************************************************************************)
StoredAreStamped == \A u \in stored : u.stamped \/ IsMalformed(u)

(***************************************************************************)
(* The latest price of a symbol on an exchange never goes back to an       *)
(* earlier report ("Store latest price for quick access", redis.go).       *)
(***************************************************************************)
LatestNeverRegresses ==
  [][\A e \in Exchanges :
       latest[e] # NoPrice => latest'[e].n >= latest[e].n]_vars

(***************************************************************************)
(* Once its context is done every goroutine of the pipeline returns, full  *)
(* channels or not: the wait on the WaitGroup in StopDataProcessing ends.  *)
(***************************************************************************)
PipelineExited ==
  /\ \A e \in Exchanges : fan[e] = Exited
  /\ dist = Exited
  /\ \A w \in Workers : work[w] = Exited

DrainsWhenCancelled == cancelled ~> PipelineExited

(***************************************************************************)
(* The pipeline is a lossy relay of the updates: each reaches the cache at *)
(* most once, and while the context is not done each one accepted is       *)
(* written or given up in the end.                                         *)
(***************************************************************************)
Relay == INSTANCE LossyRelay WITH
           Item <- Exchanges \X (1 .. MaxUpdates),
           offered <- Reports, inFlight <- InFlight,
           delivered <- Keys(stored), stopped <- cancelled

IsLossyRelay == Relay!FairSpec
=============================================================================
