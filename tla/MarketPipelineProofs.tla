------------------------ MODULE MarketPipelineProofs ------------------------
(***************************************************************************)
(* Proofs about MarketPipeline, for every set of exchanges, number of      *)
(* workers and updates and capacity of the channels: first of the types,   *)
(* then of the order of updates, then of their timestamps, then of what    *)
(* one worker would keep of the order, and last of what becomes of each    *)
(* update, which is that the pipeline is a lossy relay.                    *)
(***************************************************************************)
EXTENDS MarketPipeline, TLAPS

(* The sizes the types depend on.                                          *)
LEMMA ConstantTypes ==
  /\ NumWorkers \in Nat \ {0}
  /\ MaxUpdates \in Nat
BY PipelineAssumption DEF PipelineAssumption

(* What goroutines hold.                                                   *)
LEMMA GoroutineTypes ==
  /\ Waiting \in Goroutine
  /\ Exited \in Goroutine
  /\ \A u \in Update : Holding(u) \in Goroutine
  /\ \A g \in Goroutine : g.pc = "send" => g.item \in Update
<1>1. Waiting \in Goroutine /\ Exited \in Goroutine
  BY DEF Goroutine
<1>2. \A u \in Update : Holding(u) \in Goroutine
  BY DEF Goroutine
<1>3. ASSUME NEW g \in Goroutine, g.pc = "send"
      PROVE  g.item \in Update
  <2>1. g # Waiting /\ g # Exited
    BY <1>3 DEF Waiting, Exited
  <2>2. PICK u \in Update : g = Holding(u)
    BY <2>1 DEF Goroutine
  <2> QED
    BY <2>2 DEF Holding
<1> QED
  BY <1>1, <1>2, <1>3

(* Receiving from a channel that is not empty, and sending on one.         *)
LEMMA ChannelTypes ==
  ASSUME NEW c \in Seq(Update)
  PROVE  /\ c # <<>> => Head(c) \in Update /\ Tail(c) \in Seq(Update)
         /\ \A u \in Update : Send(c, u) \in Seq(Update)
BY DEF Send

(* What an adapter sends is an update.                                     *)
LEMMA ReportedType ==
  ASSUME NEW e \in Exchanges, NEW n \in 1 .. MaxUpdates
  PROVE  Reported(e, n) \in Update
BY DEF Reported, Update

(* What a worker makes of an update is an update.                          *)
LEMMA ProcessedType ==
  ASSUME NEW u \in Update
  PROVE  ProcessMarketData(u) \in Update
BY DEF ProcessMarketData, Update

(* The type invariant of the pipeline.                                     *)
THEOREM TypeCorrect == Spec => []TypeOK
<1>1. ASSUME Init PROVE TypeOK
  <2>1. 0 \in Workers
    BY ConstantTypes DEF Workers
  <2>2. <<>> \in Seq(Update)
    OBVIOUS
  <2> QED
    BY <1>1, <2>1, <2>2, GoroutineTypes DEF Init, TypeOK
<1>2. TypeOK /\ [Next]_vars => TypeOK'
  <2> SUFFICES ASSUME TypeOK, [Next]_vars PROVE TypeOK'
    OBVIOUS
  <2> USE ConstantTypes, GoroutineTypes, ChannelTypes
  <2>1. ASSUME NEW e \in Exchanges, Publish(e) PROVE TypeOK'
    <3>1. fed[e] + 1 \in 1 .. MaxUpdates
      BY <2>1 DEF TypeOK, Publish
    <3>2. Reported(e, fed[e] + 1) \in Update
      BY <3>1, ReportedType
    <3>3. fed' \in [Exchanges -> Nat]
      BY <2>1, <3>1 DEF TypeOK, Publish
    <3>4. dataChan[e] \in Seq(Update)
      BY DEF TypeOK
    <3>5. dataChan' \in [Exchanges -> Seq(Update)] /\ lost' \in SUBSET Update
      BY <2>1, <3>2, <3>4 DEF TypeOK, Publish
    <3> QED
      BY <2>1, <3>3, <3>5 DEF TypeOK, Publish, distVars, workerVars, cacheVars, ctxVars
  <2>2. ASSUME NEW e \in Exchanges, CloseInput(e) PROVE TypeOK'
    BY <2>2 DEF TypeOK, CloseInput, distVars, workerVars, cacheVars, ctxVars
  <2>3. ASSUME NEW e \in Exchanges, FanInReceive(e) PROVE TypeOK'
    BY <2>3 DEF TypeOK, FanInReceive, distVars, workerVars, cacheVars, ctxVars
  <2>4. ASSUME NEW e \in Exchanges, FanInSend(e) PROVE TypeOK'
    BY <2>4 DEF TypeOK, FanInSend, inputVars, distVars, workerVars, cacheVars, ctxVars
  <2>5. ASSUME NEW e \in Exchanges, FanInExit(e) PROVE TypeOK'
    BY <2>5 DEF TypeOK, FanInExit, inputVars, distVars, workerVars, cacheVars, ctxVars
  <2>6. CASE DistributorReceive
    <3> DEFINE u == Head(aggregated)
    <3>1. u \in Update /\ aggregated' \in Seq(Update)
      BY <2>6 DEF TypeOK, DistributorReceive
    <3>2. u.n \in Nat
      BY <3>1 DEF Update
    <3>3. dist' \in Goroutine
      BY <2>6, <3>1 DEF DistributorReceive
    <3>4. dispatched' \in [Exchanges -> Nat]
      BY <2>6, <3>2 DEF TypeOK, DistributorReceive
    <3> QED
      BY <2>6, <3>1, <3>3, <3>4
      DEF TypeOK, DistributorReceive, inputVars, workerVars, cacheVars, ctxVars
  <2>7. CASE DistributorSend
    <3>1. workerIndex' \in Workers
      BY <2>7 DEF TypeOK, DistributorSend, NextWorker, Workers
    <3>2. dist.item \in Update /\ workerPool[workerIndex] \in Seq(Update)
      BY <2>7 DEF TypeOK, DistributorSend
    <3>3. workerPool' \in [Workers -> Seq(Update)] /\ lost' \in SUBSET Update
      BY <2>7, <3>2 DEF TypeOK, DistributorSend
    <3> QED
      BY <2>7, <3>1, <3>3 DEF TypeOK, DistributorSend, inputVars, cacheVars, ctxVars
  <2>8. CASE DistributorExit
    BY <2>8 DEF TypeOK, DistributorExit, inputVars, workerVars, cacheVars, ctxVars
  <2>9. ASSUME NEW w \in Workers, WorkerReceive(w) PROVE TypeOK'
    BY <2>9, ProcessedType DEF TypeOK, WorkerReceive, inputVars, distVars, cacheVars, ctxVars
  <2>10. ASSUME NEW w \in Workers, WorkerSend(w) PROVE TypeOK'
    BY <2>10 DEF TypeOK, WorkerSend, inputVars, distVars, cacheVars, ctxVars
  <2>11. ASSUME NEW w \in Workers, WorkerExit(w) PROVE TypeOK'
    BY <2>11 DEF TypeOK, WorkerExit, inputVars, distVars, cacheVars, ctxVars
  <2>12. CASE StoreReceive
    BY <2>12 DEF TypeOK, StoreReceive, inputVars, distVars, workerVars, cacheVars, ctxVars
  <2>13. CASE StorePrice
    BY <2>13 DEF TypeOK, StorePrice, inputVars, distVars, workerVars, cacheVars, ctxVars
  <2>14. CASE StoreExit
    BY <2>14 DEF TypeOK, StoreExit, inputVars, distVars, workerVars, cacheVars, ctxVars
  <2>15. CASE Cancel \/ AppCancel
    BY <2>15 DEF TypeOK, Cancel, AppCancel, inputVars, distVars, workerVars, cacheVars
  <2>16. CASE UNCHANGED vars
    BY <2>16 DEF TypeOK, vars
  <2> QED
    BY <2>1, <2>2, <2>3, <2>4, <2>5, <2>6, <2>7, <2>8, <2>9, <2>10, <2>11,
       <2>12, <2>13, <2>14, <2>15, <2>16 DEF Next
<1> QED
  BY <1>1, <1>2, PTL DEF Spec
-----------------------------------------------------------------------------
(***************************************************************************)
(* The proof that the pipeline keeps the order of each exchange's updates  *)
(* upstream of the worker pool, for any number of exchanges, workers and   *)
(* updates and any capacities.  With TypeOK the property is inductive: it  *)
(* speaks of the update the adapter sends next as well.  First come facts  *)
(* on a channel read as a sequence, then a lemma for each action that      *)
(* moves an update or counts one, and last the theorem.                    *)
(***************************************************************************)

(* A channel read as the sequence of what its sender put in.               *)
LEMMA SendFacts ==
  ASSUME NEW s \in Seq(Update), NEW u \in Update
  PROVE  /\ Range(Send(s, u)) = Range(s) \cup {u}
         /\ DOMAIN s = 1 .. Len(s)
         /\ DOMAIN Send(s, u) = 1 .. Len(s) + 1
         /\ \A i \in 1 .. Len(s) : Send(s, u)[i] = s[i]
         /\ Send(s, u)[Len(s) + 1] = u
<1>1. /\ DOMAIN s = 1 .. Len(s)
      /\ DOMAIN Send(s, u) = 1 .. Len(s) + 1
      /\ \A i \in 1 .. Len(s) : Send(s, u)[i] = s[i]
      /\ Send(s, u)[Len(s) + 1] = u
  BY DEF Send
<1>2. Range(Send(s, u)) = Range(s) \cup {u}
  BY <1>1 DEF Range
<1> QED
  BY <1>1, <1>2

(* What is left in a channel, and what was taken, were in it.              *)
LEMMA ReceiveFacts ==
  ASSUME NEW s \in Seq(Update), s # <<>>
  PROVE  /\ Range(Tail(s)) \subseteq Range(s)
         /\ Head(s) \in Range(s)
         /\ DOMAIN s = 1 .. Len(s)
         /\ Len(s) >= 1 /\ Head(s) = s[1]
         /\ DOMAIN Tail(s) = 1 .. Len(s) - 1
         /\ \A i \in 1 .. Len(s) - 1 : Tail(s)[i] = s[i + 1]
<1>1. /\ DOMAIN s = 1 .. Len(s)
      /\ Len(s) >= 1 /\ Head(s) = s[1]
      /\ DOMAIN Tail(s) = 1 .. Len(s) - 1
      /\ \A i \in 1 .. Len(s) - 1 : Tail(s)[i] = s[i + 1]
  OBVIOUS
<1>2. Range(Tail(s)) \subseteq Range(s) /\ Head(s) \in Range(s)
  BY <1>1 DEF Range
<1> QED
  BY <1>1, <1>2

(* Sending an update that is later than what the channel holds.            *)
LEMMA SendInOrder ==
  ASSUME NEW s \in Seq(Update), NEW u \in Update,
         InOrder(s), AllBefore(s, u.ex, u.n)
  PROVE  InOrder(Send(s, u))
<1> SUFFICES ASSUME NEW i \in 1 .. Len(s) + 1, NEW j \in 1 .. Len(s) + 1, i < j,
                    Send(s, u)[i].ex = Send(s, u)[j].ex
             PROVE  Send(s, u)[i].n < Send(s, u)[j].n
  BY SendFacts DEF InOrder
<1>1. i \in 1 .. Len(s) /\ Send(s, u)[i] = s[i]
  BY SendFacts
<1>2. CASE j \in 1 .. Len(s)
  BY <1>1, <1>2, SendFacts DEF InOrder
<1>3. CASE j = Len(s) + 1
  BY <1>1, <1>3, SendFacts DEF AllBefore, Range
<1> QED
  BY <1>2, <1>3

(* What is left after a receive is in order and later than what was taken. *)
LEMMA ReceiveInOrder ==
  ASSUME NEW s \in Seq(Update), s # <<>>, InOrder(s)
  PROVE  /\ InOrder(Tail(s))
         /\ \A u \in Range(Tail(s)) : u.ex = Head(s).ex => Head(s).n < u.n
<1>1. InOrder(Tail(s))
  <2> SUFFICES ASSUME NEW i \in 1 .. Len(s) - 1, NEW j \in 1 .. Len(s) - 1, i < j,
                      Tail(s)[i].ex = Tail(s)[j].ex
               PROVE  Tail(s)[i].n < Tail(s)[j].n
    BY ReceiveFacts DEF InOrder
  <2>1. /\ Tail(s)[i] = s[i + 1] /\ Tail(s)[j] = s[j + 1]
        /\ i + 1 \in 1 .. Len(s) /\ j + 1 \in 1 .. Len(s) /\ i + 1 < j + 1
    BY ReceiveFacts
  <2> QED
    BY <2>1, ReceiveFacts DEF InOrder
<1>2. ASSUME NEW u \in Range(Tail(s)), u.ex = Head(s).ex
      PROVE  Head(s).n < u.n
  <2>1. PICK i \in 1 .. Len(s) - 1 : u = s[i + 1]
    BY ReceiveFacts DEF Range
  <2>2. i + 1 \in 1 .. Len(s) /\ 1 \in 1 .. Len(s) /\ 1 < i + 1 /\ Head(s) = s[1]
    BY ReceiveFacts
  <2> QED
    BY <1>2, <2>1, <2>2, ReceiveFacts DEF InOrder
<1> QED
  BY <1>1, <1>2
-----------------------------------------------------------------------------
(* The updates the goroutines and channels upstream hold are typed.        *)
LEMMA UpstreamTypes ==
  ASSUME TypeOK
  PROVE  /\ aggregated \in Seq(Update) /\ Range(aggregated) \subseteq Update
         /\ dispatched \in [Exchanges -> Nat] /\ fed \in [Exchanges -> Nat]
         /\ \A e \in Exchanges :
              /\ dataChan[e] \in Seq(Update)
              /\ Range(dataChan[e]) \subseteq Update
              /\ fan[e].pc = "send" => fan[e].item \in Update
         /\ \A u \in Update : u.ex \in Exchanges /\ u.n \in Nat
<1>1. \A s \in Seq(Update) : Range(s) \subseteq Update
  BY DEF Range
<1>2. \A u \in Update : u.ex \in Exchanges /\ u.n \in Nat
  BY ConstantTypes DEF Update
<1> QED
  BY <1>1, <1>2, GoroutineTypes DEF TypeOK

(* The distributor's receive moves the mark without overtaking anything    *)
(* that is later than what the aggregated channel holds.                   *)
LEMMA DispatchKeepsAfter ==
  ASSUME TypeOK, DistributorReceive,
         NEW e \in Exchanges, NEW n \in Nat, AfterAggregated(e, n)
  PROVE  dispatched'[e] < n /\ AllBefore(aggregated', e, n)
<1> DEFINE u == Head(aggregated)
<1>1. /\ aggregated # <<>>
      /\ dispatched' = [dispatched EXCEPT ![u.ex] = u.n]
      /\ aggregated' = Tail(aggregated)
  BY DEF DistributorReceive
<1>2. u \in Range(aggregated) /\ Range(aggregated') \subseteq Range(aggregated)
  BY <1>1, UpstreamTypes, ReceiveFacts
<1>3. dispatched'[e] = IF e = u.ex THEN u.n ELSE dispatched[e]
  BY <1>1, UpstreamTypes
<1> QED
  BY <1>2, <1>3 DEF AfterAggregated, AllBefore

(* fanIn's send keeps below n what was below n, if its update is.          *)
LEMMA ForwardKeepsAfter ==
  ASSUME TypeOK, NEW f \in Exchanges, FanInSend(f),
         NEW e \in Exchanges, NEW n \in Nat, AfterAggregated(e, n),
         fan[f].item.ex = e => fan[f].item.n < n
  PROVE  dispatched'[e] < n /\ AllBefore(aggregated', e, n)
<1> DEFINE u == fan[f].item
<1>1. u \in Update /\ aggregated \in Seq(Update)
  BY UpstreamTypes DEF FanInSend
<1>2. /\ dispatched' = dispatched
      /\ aggregated' = aggregated \/ aggregated' = Send(aggregated, u)
  BY DEF FanInSend, distVars
<1>3. Range(aggregated') \subseteq Range(aggregated) \cup {u}
  BY <1>1, <1>2, SendFacts
<1> QED
  BY <1>2, <1>3 DEF AfterAggregated, AllBefore

(* Nothing upstream changes but that some goroutines let go of an update   *)
(* and that some adapters close their channel.                             *)
LEMMA UpstreamUnchanged ==
  ASSUME UpstreamOrdered,
         UNCHANGED <<fed, dataChan, aggregated, dispatched>>,
         \A e \in Exchanges : fan'[e] = fan[e] \/ fan'[e] = Exited
  PROVE  UpstreamOrdered'
<1>1. \A e \in Exchanges : fan'[e].pc = "send" => fan'[e] = fan[e]
  BY DEF Exited
<1>2. AggregatedInOrder'
  BY DEF UpstreamOrdered, AggregatedInOrder
<1>3. FanInOrder'
  BY <1>1 DEF UpstreamOrdered, FanInOrder, AfterAggregated
<1>4. InputInOrder'
  BY <1>1 DEF UpstreamOrdered, InputInOrder, AfterAggregated
<1> QED
  BY <1>2, <1>3, <1>4 DEF UpstreamOrdered
-----------------------------------------------------------------------------
(* Each step that touches the upstream stages preserves their order.       *)
LEMMA PublishKeepsOrder ==
  ASSUME TypeOK, UpstreamOrdered, NEW e \in Exchanges, Publish(e)
  PROVE  UpstreamOrdered'
<1> DEFINE u == Reported(e, fed[e] + 1)
<1>1. u \in Update /\ u.ex = e /\ u.n = fed[e] + 1 /\ fed[e] \in Nat
  <2>1. fed[e] + 1 \in 1 .. MaxUpdates /\ fed[e] \in Nat
    BY ConstantTypes DEF TypeOK, Publish
  <2> QED
    BY <2>1, ReportedType DEF Reported
<1>2. /\ fed' = [fed EXCEPT ![e] = @ + 1]
      /\ UNCHANGED <<fan, aggregated, dispatched>>
      /\ \/ dataChan' = dataChan
         \/ dataChan' = [dataChan EXCEPT ![e] = Send(@, u)]
  BY DEF Publish, distVars
<1>3. fed'[e] = fed[e] + 1 /\ \A f \in Exchanges \ {e} : fed'[f] = fed[f]
  BY <1>2, UpstreamTypes
<1>4. AggregatedInOrder'
  BY <1>2 DEF UpstreamOrdered, AggregatedInOrder
<1>5. FanInOrder'
  BY <1>1, <1>2, <1>3, UpstreamTypes
  DEF UpstreamOrdered, FanInOrder, AfterAggregated
<1>6. InputInOrder'
  <2> SUFFICES ASSUME NEW f \in Exchanges
               PROVE  /\ InOrder(dataChan'[f])
                      /\ \A v \in Range(dataChan'[f]) :
                           /\ v.ex = f
                           /\ v.n <= fed'[f]
                           /\ AfterAggregated(f, v.n)
                           /\ fan[f].pc = "send" => fan[f].item.n < v.n
                      /\ AfterAggregated(f, fed'[f] + 1)
    BY <1>2 DEF InputInOrder, AfterAggregated
  <2>1. AfterAggregated(f, fed'[f] + 1)
    <3>1. AfterAggregated(f, fed[f] + 1)
      BY DEF UpstreamOrdered, InputInOrder
    <3>2. fed[f] + 1 <= fed'[f] + 1 /\ fed[f] \in Nat /\ fed'[f] \in Nat
      BY <1>1, <1>3, UpstreamTypes
    <3> QED
      BY <3>1, <3>2, UpstreamTypes DEF AfterAggregated, AllBefore
  <2>2. /\ \A v \in Range(dataChan[f]) :
              /\ v.ex = f
              /\ v.n <= fed[f]
              /\ AfterAggregated(f, v.n)
              /\ fan[f].pc = "send" => fan[f].item.n < v.n
        /\ InOrder(dataChan[f])
    BY DEF UpstreamOrdered, InputInOrder
  <2>3. /\ \A v \in Range(dataChan[f]) : v.n \in Nat
        /\ fed[f] \in Nat /\ fed[f] <= fed'[f] /\ fed'[f] \in Nat
    <3>1. \A v \in Range(dataChan[f]) : v.n \in Nat
      BY UpstreamTypes
    <3>2. fed[f] \in Nat
      BY UpstreamTypes
    <3>3. fed'[f] = fed[f] \/ fed'[f] = fed[f] + 1
      BY <1>3
    <3> QED
      BY <3>1, <3>2, <3>3
  <2>4. \A v \in Range(dataChan[f]) : v.n <= fed'[f]
    BY <2>2, <2>3
  <2>5. CASE dataChan'[f] = dataChan[f]
    BY <2>1, <2>5, <2>2, <2>4
  <2>6. CASE f = e /\ dataChan'[e] = Send(dataChan[e], u)
    <3>1. InOrder(Send(dataChan[e], u))
      <4>1. AllBefore(dataChan[e], u.ex, u.n)
        BY <1>1, <2>6, <2>2, <2>3 DEF AllBefore
      <4> QED
        BY <4>1, <1>1, <2>6, <2>2, SendInOrder, UpstreamTypes
    <3>2. Range(Send(dataChan[e], u)) = Range(dataChan[e]) \cup {u}
      BY <1>1, SendFacts, UpstreamTypes
    <3>3. /\ u.ex = e
          /\ u.n <= fed'[e]
          /\ AfterAggregated(e, u.n)
          /\ fan[e].pc = "send" => fan[e].item.n < u.n
      BY <1>1, <1>3, UpstreamTypes
      DEF UpstreamOrdered, InputInOrder, FanInOrder
    <3> QED
      BY <2>1, <2>6, <2>2, <2>4, <3>1, <3>2, <3>3
  <2>7. dataChan'[f] = dataChan[f] \/ (f = e /\ dataChan'[e] = Send(dataChan[e], u))
    BY <1>2 DEF TypeOK
  <2> QED
    BY <2>5, <2>6, <2>7
<1> QED
  BY <1>4, <1>5, <1>6 DEF UpstreamOrdered

(* fanIn takes the earliest update that waits in its input.                *)
LEMMA FanInReceiveKeepsOrder ==
  ASSUME TypeOK, UpstreamOrdered, NEW e \in Exchanges, FanInReceive(e)
  PROVE  UpstreamOrdered'
<1> DEFINE u == Head(dataChan[e])
<1>1. /\ fan' = [fan EXCEPT ![e] = Holding(u)]
      /\ dataChan' = [dataChan EXCEPT ![e] = Tail(@)]
      /\ fan[e] = Waiting /\ dataChan[e] # <<>>
      /\ UNCHANGED <<fed, aggregated, dispatched>>
  BY DEF FanInReceive, distVars
<1>2. /\ fan'[e] = Holding(u) /\ dataChan'[e] = Tail(dataChan[e])
      /\ \A f \in Exchanges \ {e} : fan'[f] = fan[f] /\ dataChan'[f] = dataChan[f]
  BY <1>1 DEF TypeOK
<1>3. /\ u \in Range(dataChan[e])
      /\ Range(Tail(dataChan[e])) \subseteq Range(dataChan[e])
      /\ InOrder(Tail(dataChan[e]))
      /\ \A v \in Range(Tail(dataChan[e])) : v.ex = u.ex => u.n < v.n
  BY <1>1, ReceiveFacts, ReceiveInOrder, UpstreamTypes
  DEF UpstreamOrdered, InputInOrder
<1>4. /\ Holding(u).pc = "send" /\ Holding(u).item = u
  BY DEF Holding
<1>5. AggregatedInOrder'
  BY <1>1 DEF UpstreamOrdered, AggregatedInOrder
<1>6. FanInOrder'
  <2> SUFFICES ASSUME NEW f \in Exchanges, fan'[f].pc = "send"
               PROVE  /\ fan'[f].item.ex = f
                      /\ fan'[f].item.n <= fed[f]
                      /\ AfterAggregated(f, fan'[f].item.n)
    BY <1>1 DEF FanInOrder, AfterAggregated
  <2> QED
    BY <1>2, <1>3, <1>4 DEF UpstreamOrdered, FanInOrder, InputInOrder
<1>7. InputInOrder'
  <2> SUFFICES ASSUME NEW f \in Exchanges
               PROVE  /\ InOrder(dataChan'[f])
                      /\ \A v \in Range(dataChan'[f]) :
                           /\ v.ex = f
                           /\ v.n <= fed[f]
                           /\ AfterAggregated(f, v.n)
                           /\ fan'[f].pc = "send" => fan'[f].item.n < v.n
                      /\ AfterAggregated(f, fed[f] + 1)
    BY <1>1 DEF InputInOrder, AfterAggregated
  <2>1. CASE f # e
    BY <1>2, <2>1 DEF UpstreamOrdered, InputInOrder
  <2>2. CASE f = e
    BY <1>2, <1>3, <1>4, <2>2 DEF UpstreamOrdered, InputInOrder
  <2> QED
    BY <2>1, <2>2
<1> QED
  BY <1>5, <1>6, <1>7 DEF UpstreamOrdered

(* What fanIn forwards is later than all it forwarded of that exchange.    *)
LEMMA FanInSendKeepsOrder ==
  ASSUME TypeOK, UpstreamOrdered, NEW e \in Exchanges, FanInSend(e)
  PROVE  UpstreamOrdered'
<1> DEFINE u == fan[e].item
<1>1. /\ fan[e].pc = "send"
      /\ fan' = [fan EXCEPT ![e] = Waiting]
      /\ aggregated' = aggregated \/ aggregated' = Send(aggregated, u)
      /\ UNCHANGED <<fed, dataChan, dispatched>>
  BY DEF FanInSend, inputVars, distVars
<1>2. /\ u \in Update /\ u.ex = e /\ u.n <= fed[e] /\ AfterAggregated(e, u.n)
  BY <1>1, UpstreamTypes DEF UpstreamOrdered, FanInOrder
<1>3. \A f \in Exchanges : fan'[f].pc = "send" => f # e /\ fan'[f] = fan[f]
  BY <1>1 DEF TypeOK, Waiting
<1>4. \A f \in Exchanges, n \in Nat :
        AfterAggregated(f, n) /\ (f = e => u.n < n)
          => dispatched'[f] < n /\ AllBefore(aggregated', f, n)
  BY <1>2, ForwardKeepsAfter
<1>5. AggregatedInOrder'
  <2>1. CASE aggregated' = aggregated
    BY <1>1, <2>1 DEF UpstreamOrdered, AggregatedInOrder
  <2>2. CASE aggregated' = Send(aggregated, u)
    <3>1. Range(aggregated') = Range(aggregated) \cup {u}
      BY <1>2, <2>2, SendFacts, UpstreamTypes
    <3>2. InOrder(aggregated')
      BY <1>2, <2>2, SendInOrder, UpstreamTypes
      DEF UpstreamOrdered, AggregatedInOrder, AfterAggregated
    <3> QED
      BY <1>1, <1>2, <3>1, <3>2
      DEF UpstreamOrdered, AggregatedInOrder, AfterAggregated
  <2> QED
    BY <1>1, <2>1, <2>2
<1>6. FanInOrder'
  <2> SUFFICES ASSUME NEW f \in Exchanges, fan'[f].pc = "send"
               PROVE  /\ fan'[f].item.ex = f
                      /\ fan'[f].item.n <= fed[f]
                      /\ dispatched'[f] < fan'[f].item.n
                      /\ AllBefore(aggregated', f, fan'[f].item.n)
    BY <1>1 DEF FanInOrder, AfterAggregated
  <2> QED
    BY <1>3, <1>4, UpstreamTypes DEF UpstreamOrdered, FanInOrder
<1>7. InputInOrder'
  <2> SUFFICES ASSUME NEW f \in Exchanges
               PROVE  /\ InOrder(dataChan[f])
                      /\ \A v \in Range(dataChan[f]) :
                           /\ v.ex = f
                           /\ v.n <= fed[f]
                           /\ dispatched'[f] < v.n
                           /\ AllBefore(aggregated', f, v.n)
                           /\ fan'[f].pc = "send" => fan'[f].item.n < v.n
                      /\ dispatched'[f] < fed[f] + 1
                      /\ AllBefore(aggregated', f, fed[f] + 1)
    BY <1>1 DEF InputInOrder, AfterAggregated
  <2>1. \A v \in Range(dataChan[f]) : f = e => u.n < v.n
    BY <1>1 DEF UpstreamOrdered, InputInOrder
  <2>2. f = e => u.n < fed[f] + 1
    BY <1>2, UpstreamTypes
  <2>3. /\ InOrder(dataChan[f])
        /\ \A v \in Range(dataChan[f]) :
             /\ v.ex = f
             /\ v.n <= fed[f]
             /\ AfterAggregated(f, v.n)
             /\ fan[f].pc = "send" => fan[f].item.n < v.n
        /\ AfterAggregated(f, fed[f] + 1)
    BY DEF UpstreamOrdered, InputInOrder
  <2>4. fed[f] + 1 \in Nat /\ \A v \in Range(dataChan[f]) : v.n \in Nat
    BY UpstreamTypes
  <2> QED
    BY <1>3, <1>4, <2>1, <2>2, <2>3, <2>4
<1> QED
  BY <1>5, <1>6, <1>7 DEF UpstreamOrdered

(* The distributor takes the earliest update of its exchange there is.     *)
LEMMA DistributorReceiveKeepsOrder ==
  ASSUME TypeOK, UpstreamOrdered, DistributorReceive
  PROVE  UpstreamOrdered'
<1> DEFINE u == Head(aggregated)
<1>1. /\ aggregated # <<>> /\ aggregated' = Tail(aggregated)
      /\ dispatched' = [dispatched EXCEPT ![u.ex] = u.n]
      /\ UNCHANGED <<fed, dataChan, fan>>
  BY DEF DistributorReceive, inputVars
<1>2. \A f \in Exchanges, n \in Nat :
        AfterAggregated(f, n) => dispatched'[f] < n /\ AllBefore(aggregated', f, n)
  BY DispatchKeepsAfter
<1>3. AggregatedInOrder'
  <2>1. InOrder(aggregated')
    BY <1>1, ReceiveInOrder, UpstreamTypes DEF UpstreamOrdered, AggregatedInOrder
  <2>2. ASSUME NEW v \in Range(aggregated') PROVE dispatched'[v.ex] < v.n
    <3>1. v \in Range(aggregated) /\ v \in Update
      BY <1>1, ReceiveFacts, UpstreamTypes
    <3>2. dispatched'[v.ex] = IF v.ex = u.ex THEN u.n ELSE dispatched[v.ex]
      BY <1>1, <3>1, UpstreamTypes
    <3>3. v.ex = u.ex => u.n < v.n
      BY <1>1, ReceiveInOrder, UpstreamTypes DEF UpstreamOrdered, AggregatedInOrder
    <3> QED
      BY <3>1, <3>2, <3>3 DEF UpstreamOrdered, AggregatedInOrder
  <2> QED
    BY <2>1, <2>2 DEF AggregatedInOrder
<1>4. FanInOrder'
  BY <1>1, <1>2, UpstreamTypes DEF UpstreamOrdered, FanInOrder, AfterAggregated
<1>5. InputInOrder'
  BY <1>1, <1>2, UpstreamTypes DEF UpstreamOrdered, InputInOrder, AfterAggregated
<1> QED
  BY <1>3, <1>4, <1>5 DEF UpstreamOrdered

(* Upstream of the worker pool each exchange's updates stay in the order   *)
(* in which it reported them, whatever is dropped, closed or cancelled.    *)
THEOREM OrderKept == Spec => []UpstreamOrdered
<1>1. ASSUME Init PROVE UpstreamOrdered
  <2>1. Range(<<>>) = {}
    BY DEF Range
  <2>2. \A e \in Exchanges : fan[e].pc # "send"
    BY <1>1 DEF Init, Waiting
  <2> QED
    BY <1>1, <2>1, <2>2
    DEF Init, UpstreamOrdered, AggregatedInOrder, FanInOrder, InputInOrder,
        AfterAggregated, AllBefore, InOrder
<1>2. TypeOK /\ UpstreamOrdered /\ [Next]_vars => UpstreamOrdered'
  <2> SUFFICES ASSUME TypeOK, UpstreamOrdered, [Next]_vars PROVE UpstreamOrdered'
    OBVIOUS
  <2>1. ASSUME NEW e \in Exchanges,
               Publish(e) \/ FanInReceive(e) \/ FanInSend(e)
        PROVE  UpstreamOrdered'
    BY <2>1, PublishKeepsOrder, FanInReceiveKeepsOrder, FanInSendKeepsOrder
  <2>2. CASE DistributorReceive
    BY <2>2, DistributorReceiveKeepsOrder
  <2>3. ASSUME NEW e \in Exchanges, FanInExit(e) PROVE UpstreamOrdered'
    <3>1. \A f \in Exchanges : fan'[f] = fan[f] \/ fan'[f] = Exited
      BY <2>3 DEF FanInExit, TypeOK
    <3> QED
      BY <2>3, <3>1, UpstreamUnchanged DEF FanInExit, inputVars, distVars
  <2>4. CASE \/ \E e \in Exchanges : CloseInput(e)
             \/ DistributorSend \/ DistributorExit
             \/ \E w \in Workers : WorkerReceive(w) \/ WorkerSend(w) \/ WorkerExit(w)
             \/ StoreReceive \/ StorePrice \/ StoreExit \/ Cancel \/ AppCancel
             \/ UNCHANGED vars
    <3>1. UNCHANGED <<fed, dataChan, fan, aggregated, dispatched>>
      BY <2>4
      DEF CloseInput, DistributorSend, DistributorExit, WorkerReceive, WorkerSend,
          WorkerExit, StoreReceive, StorePrice, StoreExit, Cancel, AppCancel,
          vars, inputVars, distVars
    <3> QED
      BY <3>1, UpstreamUnchanged
  <2> QED
    BY <2>1, <2>2, <2>3, <2>4 DEF Next
<1> QED
  BY <1>1, <1>2, TypeCorrect, PTL DEF Spec
-----------------------------------------------------------------------------
(***************************************************************************)
(* The proof that what the pipeline writes to the cache has a timestamp.   *)
(* StoredAreStamped says it of the updates already written; inductive is   *)
(* that every update downstream of a worker's processing has one.          *)
(***************************************************************************)

Stamped(u) == u.stamped \/ IsMalformed(u)

DownstreamStamped ==
  /\ \A w \in Workers : work[w].pc = "send" => Stamped(work[w].item)
  /\ \A u \in Range(resultChan) : Stamped(u)
  /\ store.pc = "send" => Stamped(store.item)
  /\ StoredAreStamped

(* Processing sets the timestamp of every well-formed update.              *)
LEMMA ProcessingStamps ==
  ASSUME NEW u \in Update
  PROVE  Stamped(ProcessMarketData(u))
BY DEF Stamped, ProcessMarketData, IsMalformed, Update

(* A worker holds the update it received only after processing it.         *)
LEMMA WorkerReceiveStamps ==
  ASSUME TypeOK, DownstreamStamped, NEW w \in Workers, WorkerReceive(w)
  PROVE  DownstreamStamped'
<1> DEFINE u == Head(workerPool[w])
<1>1. u \in Update
  BY ChannelTypes DEF WorkerReceive, TypeOK
<1>2. \A v \in Workers :
        work'[v] = IF v = w THEN Holding(ProcessMarketData(u)) ELSE work[v]
  BY DEF WorkerReceive, TypeOK
<1>3. Stamped(Holding(ProcessMarketData(u)).item)
  BY <1>1, ProcessingStamps DEF Holding
<1>4. UNCHANGED <<resultChan, store, stored>>
  BY DEF WorkerReceive, cacheVars
<1> QED
  BY <1>2, <1>3, <1>4
  DEF DownstreamStamped, StoredAreStamped, Stamped, IsMalformed

(* What a worker sends on it had processed.                                *)
LEMMA WorkerSendStamps ==
  ASSUME TypeOK, DownstreamStamped, NEW w \in Workers, WorkerSend(w)
  PROVE  DownstreamStamped'
<1>1. /\ work[w].item \in Update /\ Stamped(work[w].item)
      /\ resultChan \in Seq(Update)
  BY GoroutineTypes DEF WorkerSend, TypeOK, DownstreamStamped
<1>2. \A v \in Workers : work'[v] = IF v = w THEN Waiting ELSE work[v]
  BY DEF WorkerSend, TypeOK
<1>3. Range(resultChan') \subseteq Range(resultChan) \cup {work[w].item}
  BY <1>1, SendFacts DEF WorkerSend
<1>4. UNCHANGED <<store, stored>>
  BY DEF WorkerSend, cacheVars
<1>5. \A v \in Workers : work'[v].pc = "send" => Stamped(work'[v].item)
  BY <1>2 DEF DownstreamStamped, Waiting
<1>6. \A u \in Range(resultChan') : Stamped(u)
  BY <1>1, <1>3 DEF DownstreamStamped
<1> QED
  BY <1>4, <1>5, <1>6
  DEF DownstreamStamped, StoredAreStamped, Stamped, IsMalformed

(* A worker that returns leaves nothing behind.                            *)
LEMMA WorkerExitStamps ==
  ASSUME TypeOK, DownstreamStamped, NEW w \in Workers, WorkerExit(w)
  PROVE  DownstreamStamped'
<1>1. \A v \in Workers : work'[v] = IF v = w THEN Exited ELSE work[v]
  BY DEF WorkerExit, TypeOK
<1>2. UNCHANGED <<resultChan, store, stored>>
  BY DEF WorkerExit, cacheVars
<1> QED
  BY <1>1, <1>2
  DEF DownstreamStamped, StoredAreStamped, Stamped, IsMalformed, Exited

(* What is taken from resultChan and written went through a worker.        *)
LEMMA StoreStamps ==
  ASSUME TypeOK, DownstreamStamped, StoreReceive \/ StorePrice \/ StoreExit
  PROVE  DownstreamStamped'
<1>1. CASE StoreReceive
  <2>1. resultChan \in Seq(Update) /\ resultChan # <<>>
    BY <1>1 DEF StoreReceive, TypeOK
  <2>2. /\ Range(resultChan') \subseteq Range(resultChan)
        /\ store'.item \in Range(resultChan)
    BY <1>1, <2>1, ReceiveFacts DEF StoreReceive, Holding
  <2>3. UNCHANGED <<work, stored>>
    BY <1>1 DEF StoreReceive, workerVars, cacheVars
  <2> QED
    BY <2>2, <2>3 DEF DownstreamStamped, StoredAreStamped, Stamped, IsMalformed
<1>2. CASE StorePrice
  <2>1. store'.pc # "send" /\ stored' \subseteq stored \cup {store.item}
    BY <1>2 DEF StorePrice, Waiting, cacheVars
  <2>2. Stamped(store.item) /\ UNCHANGED <<work, resultChan>>
    BY <1>2 DEF StorePrice, DownstreamStamped, workerVars
  <2> QED
    BY <2>1, <2>2 DEF DownstreamStamped, StoredAreStamped, Stamped, IsMalformed
<1>3. CASE StoreExit
  <2>1. store'.pc # "send" /\ UNCHANGED <<work, resultChan, stored>>
    BY <1>3 DEF StoreExit, Exited, workerVars, cacheVars
  <2> QED
    BY <2>1 DEF DownstreamStamped, StoredAreStamped, Stamped, IsMalformed
<1> QED
  BY <1>1, <1>2, <1>3

(* A well-formed update that is written to the cache has a timestamp, even *)
(* if its exchange reported it without one.                                *)
THEOREM StampsKept == Spec => []StoredAreStamped
<1>1. ASSUME Init PROVE DownstreamStamped
  <2>1. Range(<<>>) = {}
    BY DEF Range
  <2> QED
    BY <1>1, <2>1 DEF Init, DownstreamStamped, StoredAreStamped, Waiting
<1>2. TypeOK /\ DownstreamStamped /\ [Next]_vars => DownstreamStamped'
  <2> SUFFICES ASSUME TypeOK, DownstreamStamped, [Next]_vars
               PROVE  DownstreamStamped'
    OBVIOUS
  <2>1. ASSUME NEW w \in Workers, WorkerReceive(w) \/ WorkerSend(w) \/ WorkerExit(w)
        PROVE  DownstreamStamped'
    BY <2>1, WorkerReceiveStamps, WorkerSendStamps, WorkerExitStamps
  <2>2. CASE StoreReceive \/ StorePrice \/ StoreExit
    BY <2>2, StoreStamps
  <2>3. CASE \/ \E e \in Exchanges : \/ Publish(e) \/ CloseInput(e)
                                     \/ FanInReceive(e) \/ FanInSend(e) \/ FanInExit(e)
             \/ DistributorReceive \/ DistributorSend \/ DistributorExit
             \/ Cancel \/ AppCancel \/ UNCHANGED vars
    <3>1. UNCHANGED <<work, resultChan, store, stored>>
      BY <2>3
      DEF Publish, CloseInput, FanInReceive, FanInSend, FanInExit,
          DistributorReceive, DistributorSend, DistributorExit, Cancel, AppCancel,
          vars, workerVars, cacheVars
    <3> QED
      BY <3>1 DEF DownstreamStamped, StoredAreStamped, Stamped, IsMalformed
  <2> QED
    BY <2>1, <2>2, <2>3 DEF Next
<1>3. DownstreamStamped => StoredAreStamped
  BY DEF DownstreamStamped
<1> QED
  BY <1>1, <1>2, <1>3, TypeCorrect, PTL DEF Spec
-----------------------------------------------------------------------------
(***************************************************************************)
(* LatestNeverRegresses is false of the pipeline.  That the workers are    *)
(* several is the whole reason: with one worker it holds, whatever is      *)
(* dropped, cancelled or refused by Redis.  The worker then takes updates  *)
(* in the order the distributor sends them, and each place downstream of   *)
(* the distributor holds only updates that are later, exchange by          *)
(* exchange, than those of the places after it.                            *)
(***************************************************************************)
HeldBefore(g, e, n) == g.pc = "send" /\ g.item.ex = e => g.item.n < n

(* The n-th update of e is later than all that the cache holds of e, then  *)
(* than all from the application on, from resultChan on, and so forth.     *)
AfterLatest(e, n) == latest[e] # NoPrice => latest[e].n < n
AfterStore(e, n) == AfterLatest(e, n) /\ HeldBefore(store, e, n)
AfterResults(e, n) == AfterStore(e, n) /\ AllBefore(resultChan, e, n)
AfterWork(e, n) == AfterResults(e, n) /\ HeldBefore(work[0], e, n)
AfterPool(e, n) == AfterWork(e, n) /\ AllBefore(workerPool[0], e, n)
AfterDist(e, n) == AfterPool(e, n) /\ HeldBefore(dist, e, n)

StoreInOrder == store.pc = "send" => AfterLatest(store.item.ex, store.item.n)

ResultsInOrder ==
  /\ InOrder(resultChan)
  /\ \A u \in Range(resultChan) : AfterStore(u.ex, u.n)

WorkInOrder ==
  work[0].pc = "send" => AfterResults(work[0].item.ex, work[0].item.n)

PoolInOrder ==
  /\ InOrder(workerPool[0])
  /\ \A u \in Range(workerPool[0]) : AfterWork(u.ex, u.n)

DistInOrder == dist.pc = "send" => AfterPool(dist.item.ex, dist.item.n)

(* The link to the stages upstream: what comes after the last update       *)
(* dispatched is later than everything.                                    *)
DispatchedInOrder == \A e \in Exchanges : AfterDist(e, dispatched[e] + 1)

DownstreamOrdered ==
  /\ StoreInOrder
  /\ ResultsInOrder
  /\ WorkInOrder
  /\ PoolInOrder
  /\ DistInOrder
  /\ DispatchedInOrder

(* What the goroutines and channels downstream hold is typed.              *)
LEMMA DownstreamTypes ==
  ASSUME TypeOK, NumWorkers = 1
  PROVE  /\ Workers = {0} /\ workerIndex = 0
         /\ resultChan \in Seq(Update) /\ Range(resultChan) \subseteq Update
         /\ workerPool[0] \in Seq(Update) /\ Range(workerPool[0]) \subseteq Update
         /\ dist.pc = "send" => dist.item \in Update
         /\ work[0].pc = "send" => work[0].item \in Update
         /\ store.pc = "send" => store.item \in Update
         /\ \A e \in Exchanges : latest[e] # NoPrice => latest[e] \in Update
         /\ dispatched \in [Exchanges -> Nat]
         /\ \A u \in Update : u.ex \in Exchanges /\ u.n \in Nat
<1>1. Workers = {0}
  BY DEF Workers
<1>2. \A s \in Seq(Update) : Range(s) \subseteq Update
  BY DEF Range
<1>3. workerPool[0] \in Seq(Update) /\ work[0] \in Goroutine /\ workerIndex = 0
  BY <1>1 DEF TypeOK
<1>4. \A u \in Update : u.ex \in Exchanges /\ u.n \in Nat
  BY ConstantTypes DEF Update
<1> QED
  BY <1>1, <1>2, <1>3, <1>4, GoroutineTypes DEF TypeOK

(* What is later than the places from the distributor on, stays so of a    *)
(* later update.                                                           *)
LEMMA LaterStill ==
  ASSUME TypeOK, NumWorkers = 1,
         NEW e \in Exchanges, NEW n \in Nat, NEW m \in Nat, n <= m,
         AfterPool(e, n)
  PROVE  AfterPool(e, m)
<1>1. AfterLatest(e, m)
  BY DownstreamTypes
  DEF AfterLatest, AfterStore, AfterResults, AfterWork, AfterPool
<1>2. HeldBefore(store, e, m) /\ HeldBefore(work[0], e, m)
  BY DownstreamTypes
  DEF HeldBefore, AfterStore, AfterResults, AfterWork, AfterPool
<1>3. AllBefore(resultChan, e, m) /\ AllBefore(workerPool[0], e, m)
  BY DownstreamTypes DEF AllBefore, AfterResults, AfterWork, AfterPool
<1> QED
  BY <1>1, <1>2, <1>3 DEF AfterStore, AfterResults, AfterWork, AfterPool

(* Nothing downstream changes but that goroutines let go of an update.     *)
LEMMA DownstreamUnchanged ==
  ASSUME DownstreamOrdered,
         UNCHANGED <<latest, resultChan, workerPool, dispatched>>,
         store' = store \/ store' = Exited,
         work'[0] = work[0] \/ work'[0] = Exited,
         dist' = dist \/ dist' = Exited
  PROVE  DownstreamOrdered'
<1>1. \A g : g = Exited => g.pc # "send"
  BY DEF Exited
<1>2. /\ \A e, n : HeldBefore(store, e, n) => HeldBefore(store', e, n)
      /\ \A e, n : HeldBefore(work[0], e, n) => HeldBefore(work'[0], e, n)
      /\ \A e, n : HeldBefore(dist, e, n) => HeldBefore(dist', e, n)
  BY <1>1 DEF HeldBefore
<1>3. \A e, n : AfterLatest(e, n) => AfterLatest(e, n)'
  BY DEF AfterLatest
<1>4. \A e, n : AfterStore(e, n) => AfterStore(e, n)'
  BY <1>2, <1>3 DEF AfterStore
<1>5. \A e, n : AfterResults(e, n) => AfterResults(e, n)'
  BY <1>4 DEF AfterResults, AllBefore
<1>6. \A e, n : AfterWork(e, n) => AfterWork(e, n)'
  BY <1>2, <1>5 DEF AfterWork
<1>7. \A e, n : AfterPool(e, n) => AfterPool(e, n)'
  BY <1>6 DEF AfterPool, AllBefore
<1>8. \A e, n : AfterDist(e, n) => AfterDist(e, n)'
  BY <1>2, <1>7 DEF AfterDist
<1>9. StoreInOrder'
  BY <1>1, <1>3 DEF DownstreamOrdered, StoreInOrder
<1>10. ResultsInOrder'
  BY <1>4 DEF DownstreamOrdered, ResultsInOrder
<1>11. WorkInOrder'
  BY <1>1, <1>5 DEF DownstreamOrdered, WorkInOrder
<1>12. PoolInOrder'
  BY <1>6 DEF DownstreamOrdered, PoolInOrder
<1>13. DistInOrder'
  BY <1>1, <1>7 DEF DownstreamOrdered, DistInOrder
<1>14. DispatchedInOrder'
  BY <1>8 DEF DownstreamOrdered, DispatchedInOrder
<1> QED
  BY <1>9, <1>10, <1>11, <1>12, <1>13, <1>14 DEF DownstreamOrdered

(* The distributor takes an update later than any it took of its exchange. *)
LEMMA DistributorReceiveInOrder ==
  ASSUME TypeOK, NumWorkers = 1, UpstreamOrdered, DownstreamOrdered,
         DistributorReceive
  PROVE  DownstreamOrdered'
<1> DEFINE u == Head(aggregated)
<1>1. /\ aggregated # <<>>
      /\ dist' = Holding(u)
      /\ dispatched' = [dispatched EXCEPT ![u.ex] = u.n]
      /\ UNCHANGED <<latest, resultChan, workerPool, work, store>>
  BY DEF DistributorReceive, workerVars, cacheVars
<1>2. u \in Update /\ u.ex \in Exchanges /\ u.n \in Nat /\ dispatched[u.ex] < u.n
  BY <1>1, UpstreamTypes, ReceiveFacts DEF UpstreamOrdered, AggregatedInOrder
<1>3. \A e \in Exchanges :
        dispatched'[e] = IF e = u.ex THEN u.n ELSE dispatched[e]
  BY <1>1, DownstreamTypes
<1>4. \A e, n : /\ AfterLatest(e, n)' = AfterLatest(e, n)
                /\ AfterStore(e, n)' = AfterStore(e, n)
                /\ AfterResults(e, n)' = AfterResults(e, n)
                /\ AfterWork(e, n)' = AfterWork(e, n)
                /\ AfterPool(e, n)' = AfterPool(e, n)
  BY <1>1
  DEF AfterLatest, AfterStore, AfterResults, AfterWork, AfterPool, HeldBefore, AllBefore
<1>5. \A e \in Exchanges : AfterPool(e, dispatched[e] + 1)
  BY DEF DownstreamOrdered, DispatchedInOrder, AfterDist
<1>6. AfterPool(u.ex, u.n) /\ AfterPool(u.ex, u.n + 1)
  <2>1. /\ dispatched[u.ex] + 1 \in Nat /\ dispatched[u.ex] + 1 <= u.n
        /\ u.n + 1 \in Nat /\ dispatched[u.ex] + 1 <= u.n + 1
    BY <1>2, DownstreamTypes
  <2> QED
    BY <1>2, <1>5, <2>1, LaterStill
<1>7. DistInOrder'
  BY <1>1, <1>4, <1>6 DEF DistInOrder, Holding
<1>8. DispatchedInOrder'
  <2> SUFFICES ASSUME NEW e \in Exchanges PROVE AfterDist(e, dispatched[e] + 1)'
    BY DEF DispatchedInOrder
  <2>1. PICK m : m = dispatched'[e] + 1
    OBVIOUS
  <2>2. AfterPool(e, m)
    BY <1>3, <1>5, <1>6, <2>1
  <2>3. HeldBefore(dist', e, m)
    BY <1>1, <1>2, <1>3, <2>1 DEF HeldBefore, Holding
  <2> QED
    BY <1>1, <2>1, <2>2, <2>3
    DEF AfterDist, AfterPool, AfterWork, AfterResults, AfterStore, AfterLatest,
        HeldBefore, AllBefore
<1>9. StoreInOrder' /\ WorkInOrder'
  BY <1>1, <1>4 DEF DownstreamOrdered, StoreInOrder, WorkInOrder
<1>10. ResultsInOrder' /\ PoolInOrder'
  BY <1>1, <1>4 DEF DownstreamOrdered, ResultsInOrder, PoolInOrder
<1> QED
  BY <1>7, <1>8, <1>9, <1>10 DEF DownstreamOrdered

(* What the distributor sends, if it is not dropped, goes to the end of    *)
(* the only worker's channel.                                              *)
LEMMA DistributorSendInOrder ==
  ASSUME TypeOK, NumWorkers = 1, DownstreamOrdered, DistributorSend
  PROVE  DownstreamOrdered'
<1> DEFINE u == dist.item
<1>1. /\ dist.pc = "send"
      /\ dist' = Waiting
      /\ UNCHANGED <<latest, resultChan, dispatched, work, store>>
  BY DEF DistributorSend, cacheVars
<1>2. workerPool'[0] = workerPool[0] \/ workerPool'[0] = Send(workerPool[0], u)
  BY DownstreamTypes DEF DistributorSend, TypeOK
<1>3. u \in Update /\ AfterPool(u.ex, u.n)
  BY <1>1, DownstreamTypes DEF DownstreamOrdered, DistInOrder
<1>4. Range(workerPool'[0]) \subseteq Range(workerPool[0]) \cup {u}
  BY <1>2, <1>3, SendFacts, DownstreamTypes
<1>5. \A e, n : /\ AfterLatest(e, n)' = AfterLatest(e, n)
                /\ AfterStore(e, n)' = AfterStore(e, n)
                /\ AfterResults(e, n)' = AfterResults(e, n)
                /\ AfterWork(e, n)' = AfterWork(e, n)
  BY <1>1
  DEF AfterLatest, AfterStore, AfterResults, AfterWork, HeldBefore, AllBefore
<1>6. \A e, n : AfterDist(e, n) => AfterDist(e, n)'
  BY <1>1, <1>4, <1>5
  DEF AfterDist, AfterPool, HeldBefore, AllBefore, Waiting
<1>7. PoolInOrder'
  <2>1. InOrder(workerPool'[0])
    BY <1>2, <1>3, SendInOrder, DownstreamTypes
    DEF DownstreamOrdered, PoolInOrder, AfterPool
  <2>2. \A v \in Range(workerPool'[0]) : AfterWork(v.ex, v.n)
    BY <1>3, <1>4 DEF DownstreamOrdered, PoolInOrder, AfterPool
  <2> QED
    BY <1>5, <2>1, <2>2 DEF PoolInOrder
<1>8. StoreInOrder' /\ WorkInOrder' /\ DistInOrder'
  BY <1>1, <1>5
  DEF DownstreamOrdered, StoreInOrder, WorkInOrder, DistInOrder, Waiting
<1>9. ResultsInOrder'
  BY <1>1, <1>5 DEF DownstreamOrdered, ResultsInOrder
<1>10. DispatchedInOrder'
  BY <1>1, <1>6 DEF DownstreamOrdered, DispatchedInOrder
<1> QED
  BY <1>7, <1>8, <1>9, <1>10 DEF DownstreamOrdered

(* The worker takes the earliest update of its channel, and processing     *)
(* changes neither its exchange nor its place in the order.                *)
LEMMA WorkerReceiveInOrder ==
  ASSUME TypeOK, NumWorkers = 1, DownstreamOrdered, WorkerReceive(0)
  PROVE  DownstreamOrdered'
<1> DEFINE u == Head(workerPool[0])
           p == ProcessMarketData(u)
<1>1. /\ workerPool[0] # <<>>
      /\ work'[0] = Holding(p) /\ workerPool'[0] = Tail(workerPool[0])
      /\ UNCHANGED <<latest, resultChan, dispatched, dist, store>>
  BY DownstreamTypes DEF WorkerReceive, TypeOK, distVars, cacheVars
<1>2. /\ u \in Range(workerPool[0]) /\ u \in Update
      /\ Range(workerPool'[0]) \subseteq Range(workerPool[0])
      /\ InOrder(workerPool'[0])
      /\ \A v \in Range(workerPool'[0]) : v.ex = u.ex => u.n < v.n
  BY <1>1, ReceiveFacts, ReceiveInOrder, DownstreamTypes
  DEF DownstreamOrdered, PoolInOrder
<1>3. p.ex = u.ex /\ p.n = u.n
  BY <1>2 DEF ProcessMarketData, Update
<1>4. \A e, n : HeldBefore(work'[0], e, n) <=> (u.ex = e => u.n < n)
  BY <1>1, <1>3 DEF HeldBefore, Holding
<1>5. \A e, n : /\ AfterLatest(e, n)' = AfterLatest(e, n)
                /\ AfterStore(e, n)' = AfterStore(e, n)
                /\ AfterResults(e, n)' = AfterResults(e, n)
  BY <1>1 DEF AfterLatest, AfterStore, AfterResults, HeldBefore, AllBefore
<1>6. \A e, n : AfterPool(e, n) => AfterPool(e, n)'
  BY <1>2, <1>4, <1>5 DEF AfterPool, AfterWork, AllBefore
<1>7. \A e, n : AfterDist(e, n) => AfterDist(e, n)'
  BY <1>1, <1>6 DEF AfterDist
<1>8. WorkInOrder'
  BY <1>1, <1>2, <1>3, <1>5
  DEF DownstreamOrdered, PoolInOrder, AfterWork, WorkInOrder, Holding
<1>9. PoolInOrder'
  BY <1>2, <1>4, <1>5 DEF DownstreamOrdered, PoolInOrder, AfterWork
<1>10. StoreInOrder' /\ DistInOrder'
  BY <1>1, <1>5, <1>6 DEF DownstreamOrdered, StoreInOrder, DistInOrder
<1>11. ResultsInOrder' /\ DispatchedInOrder'
  BY <1>1, <1>5, <1>7 DEF DownstreamOrdered, ResultsInOrder, DispatchedInOrder
<1> QED
  BY <1>8, <1>9, <1>10, <1>11 DEF DownstreamOrdered

(* What the worker sends, if it is not dropped, goes to the end of         *)
(* resultChan.                                                             *)
LEMMA WorkerSendInOrder ==
  ASSUME TypeOK, NumWorkers = 1, DownstreamOrdered, WorkerSend(0)
  PROVE  DownstreamOrdered'
<1> DEFINE u == work[0].item
<1>1. /\ work[0].pc = "send"
      /\ work'[0] = Waiting
      /\ resultChan' = resultChan \/ resultChan' = Send(resultChan, u)
      /\ UNCHANGED <<latest, workerPool, dispatched, dist, store>>
  BY DownstreamTypes DEF WorkerSend, TypeOK, distVars, cacheVars
<1>2. u \in Update /\ AfterResults(u.ex, u.n)
  BY <1>1, DownstreamTypes DEF DownstreamOrdered, WorkInOrder
<1>3. Range(resultChan') \subseteq Range(resultChan) \cup {u}
  BY <1>1, <1>2, SendFacts, DownstreamTypes
<1>4. \A e, n : /\ AfterLatest(e, n)' = AfterLatest(e, n)
                /\ AfterStore(e, n)' = AfterStore(e, n)
  BY <1>1 DEF AfterLatest, AfterStore, HeldBefore
<1>5. \A e, n : AfterWork(e, n) => AfterWork(e, n)'
  BY <1>1, <1>3, <1>4 DEF AfterWork, AfterResults, HeldBefore, AllBefore, Waiting
<1>6. \A e, n : AfterPool(e, n) => AfterPool(e, n)'
  BY <1>1, <1>5 DEF AfterPool
<1>7. \A e, n : AfterDist(e, n) => AfterDist(e, n)'
  BY <1>1, <1>6 DEF AfterDist
<1>8. ResultsInOrder'
  <2>1. InOrder(resultChan')
    BY <1>1, <1>2, SendInOrder, DownstreamTypes
    DEF DownstreamOrdered, ResultsInOrder, AfterResults
  <2>2. \A v \in Range(resultChan') : AfterStore(v.ex, v.n)
    BY <1>2, <1>3 DEF DownstreamOrdered, ResultsInOrder, AfterResults
  <2> QED
    BY <1>4, <2>1, <2>2 DEF ResultsInOrder
<1>9. StoreInOrder' /\ WorkInOrder' /\ DistInOrder'
  BY <1>1, <1>4, <1>6
  DEF DownstreamOrdered, StoreInOrder, WorkInOrder, DistInOrder, Waiting
<1>10. PoolInOrder' /\ DispatchedInOrder'
  BY <1>1, <1>5, <1>7 DEF DownstreamOrdered, PoolInOrder, DispatchedInOrder
<1> QED
  BY <1>8, <1>9, <1>10 DEF DownstreamOrdered

(* The application takes the earliest update of resultChan.                *)
LEMMA StoreReceiveInOrder ==
  ASSUME TypeOK, NumWorkers = 1, DownstreamOrdered, StoreReceive
  PROVE  DownstreamOrdered'
<1> DEFINE u == Head(resultChan)
<1>1. /\ resultChan # <<>>
      /\ store' = Holding(u) /\ resultChan' = Tail(resultChan)
      /\ UNCHANGED <<latest, workerPool, work, dispatched, dist>>
  BY DEF StoreReceive, distVars, workerVars, cacheVars
<1>2. /\ u \in Range(resultChan)
      /\ Range(resultChan') \subseteq Range(resultChan)
      /\ InOrder(resultChan')
      /\ \A v \in Range(resultChan') : v.ex = u.ex => u.n < v.n
  BY <1>1, ReceiveFacts, ReceiveInOrder, DownstreamTypes
  DEF DownstreamOrdered, ResultsInOrder
<1>3. \A e, n : HeldBefore(store', e, n) <=> (u.ex = e => u.n < n)
  BY <1>1 DEF HeldBefore, Holding
<1>4. \A e, n : AfterLatest(e, n)' = AfterLatest(e, n)
  BY <1>1 DEF AfterLatest
<1>5. \A e, n : AfterResults(e, n) => AfterResults(e, n)'
  BY <1>2, <1>3, <1>4 DEF AfterResults, AfterStore, AllBefore
<1>6. \A e, n : /\ AfterWork(e, n) => AfterWork(e, n)'
                /\ AfterPool(e, n) => AfterPool(e, n)'
                /\ AfterDist(e, n) => AfterDist(e, n)'
  BY <1>1, <1>5 DEF AfterWork, AfterPool, AfterDist
<1>7. StoreInOrder'
  BY <1>1, <1>2, <1>4
  DEF DownstreamOrdered, ResultsInOrder, AfterStore, StoreInOrder, Holding
<1>8. ResultsInOrder'
  BY <1>2, <1>3, <1>4 DEF DownstreamOrdered, ResultsInOrder, AfterStore
<1>9. WorkInOrder' /\ DistInOrder'
  BY <1>1, <1>5, <1>6 DEF DownstreamOrdered, WorkInOrder, DistInOrder
<1>10. PoolInOrder' /\ DispatchedInOrder'
  BY <1>1, <1>6 DEF DownstreamOrdered, PoolInOrder, DispatchedInOrder
<1> QED
  BY <1>7, <1>8, <1>9, <1>10 DEF DownstreamOrdered

(* The application overwrites the latest price with a later one, or gives  *)
(* its update up.                                                          *)
LEMMA StorePriceInOrder ==
  ASSUME TypeOK, NumWorkers = 1, DownstreamOrdered, StorePrice
  PROVE  /\ DownstreamOrdered'
         /\ \A e \in Exchanges :
              latest[e] # NoPrice => latest'[e].n >= latest[e].n
<1> DEFINE u == store.item
<1>1. /\ store.pc = "send" /\ store' = Waiting
      /\ UNCHANGED <<resultChan, workerPool, work, dispatched, dist>>
  BY DEF StorePrice, distVars, workerVars
<1>2. u \in Update /\ AfterLatest(u.ex, u.n)
  BY <1>1, DownstreamTypes DEF DownstreamOrdered, StoreInOrder
<1>3. \A e \in Exchanges : latest'[e] = latest[e] \/ (e = u.ex /\ latest'[e] = u)
  BY DEF StorePrice, TypeOK, cacheVars
<1>4. \A e \in Exchanges : \A n : AfterStore(e, n) => AfterStore(e, n)'
  BY <1>1, <1>3 DEF AfterStore, AfterLatest, HeldBefore, Waiting
<1>5. \A e \in Exchanges : \A n :
        /\ AfterResults(e, n) => AfterResults(e, n)'
        /\ AfterWork(e, n) => AfterWork(e, n)'
        /\ AfterPool(e, n) => AfterPool(e, n)'
        /\ AfterDist(e, n) => AfterDist(e, n)'
  BY <1>1, <1>4 DEF AfterResults, AfterWork, AfterPool, AfterDist
<1>6. StoreInOrder'
  BY <1>1 DEF StoreInOrder, Waiting
<1>7. ResultsInOrder'
  BY <1>1, <1>4, DownstreamTypes DEF DownstreamOrdered, ResultsInOrder
<1>8. WorkInOrder' /\ DistInOrder'
  BY <1>1, <1>5, DownstreamTypes DEF DownstreamOrdered, WorkInOrder, DistInOrder
<1>9. PoolInOrder' /\ DispatchedInOrder'
  BY <1>1, <1>5, DownstreamTypes DEF DownstreamOrdered, PoolInOrder, DispatchedInOrder
<1>10. \A e \in Exchanges : latest[e] # NoPrice => latest'[e].n >= latest[e].n
  BY <1>2, <1>3, DownstreamTypes DEF AfterLatest
<1> QED
  BY <1>6, <1>7, <1>8, <1>9, <1>10 DEF DownstreamOrdered

(* With one worker the latest price of an exchange never goes back.        *)
THEOREM OneWorkerNeverRegresses ==
  ASSUME NumWorkers = 1
  PROVE  Spec => LatestNeverRegresses
<1>1. ASSUME Init PROVE DownstreamOrdered
  <2>1. Range(<<>>) = {} /\ DOMAIN <<>> = {} /\ 0 \in Workers
    BY DEF Range, Workers
  <2>2. dist.pc # "send" /\ work[0].pc # "send" /\ store.pc # "send"
    BY <1>1, <2>1 DEF Init, Waiting
  <2>3. resultChan = <<>> /\ workerPool[0] = <<>>
    BY <1>1, <2>1 DEF Init
  <2>4. \A e \in Exchanges : latest[e] = NoPrice
    BY <1>1 DEF Init
  <2>5. ResultsInOrder /\ PoolInOrder
    BY <2>1, <2>3 DEF ResultsInOrder, PoolInOrder, InOrder
  <2>6. DispatchedInOrder
    BY <2>1, <2>2, <2>3, <2>4
    DEF DispatchedInOrder, AfterDist, AfterPool, AfterWork, AfterResults,
        AfterStore, AfterLatest, HeldBefore, AllBefore
  <2> QED
    BY <2>2, <2>5, <2>6 DEF DownstreamOrdered, StoreInOrder, WorkInOrder, DistInOrder
<1>2. ASSUME TypeOK, UpstreamOrdered, DownstreamOrdered, [Next]_vars
      PROVE  /\ DownstreamOrdered'
             /\ \A e \in Exchanges :
                  latest[e] # NoPrice => latest'[e].n >= latest[e].n
  <2>1. ASSUME StorePrice
        PROVE  /\ DownstreamOrdered'
               /\ \A e \in Exchanges :
                    latest[e] # NoPrice => latest'[e].n >= latest[e].n
    BY <1>2, <2>1, StorePriceInOrder
  <2>2. ASSUME ~StorePrice PROVE latest' = latest
    BY <1>2, <2>2
    DEF Next, Publish, CloseInput, FanInReceive, FanInSend, FanInExit,
        DistributorReceive, DistributorSend, DistributorExit, WorkerReceive,
        WorkerSend, WorkerExit, StoreReceive, StoreExit, Cancel, AppCancel,
        vars, cacheVars
  <2>3. ASSUME DistributorReceive \/ DistributorSend \/ StoreReceive
        PROVE  DownstreamOrdered'
    BY <1>2, <2>3, DistributorReceiveInOrder, DistributorSendInOrder,
       StoreReceiveInOrder
  <2>4. ASSUME NEW w \in Workers, WorkerReceive(w) \/ WorkerSend(w)
        PROVE  DownstreamOrdered'
    BY <1>2, <2>4, WorkerReceiveInOrder, WorkerSendInOrder, DownstreamTypes
  <2>5. ASSUME \/ \E e \in Exchanges : \/ Publish(e) \/ CloseInput(e) \/ FanInReceive(e)
                                       \/ FanInSend(e) \/ FanInExit(e)
               \/ DistributorExit \/ StoreExit
               \/ \E w \in Workers : WorkerExit(w)
               \/ Cancel \/ AppCancel \/ UNCHANGED vars
        PROVE  DownstreamOrdered'
    <3>1. /\ UNCHANGED <<latest, resultChan, workerPool, dispatched>>
          /\ store' = store \/ store' = Exited
          /\ dist' = dist \/ dist' = Exited
      BY <2>5
      DEF Publish, CloseInput, FanInReceive, FanInSend, FanInExit,
          DistributorExit, WorkerExit, StoreExit, Cancel, AppCancel,
          vars, distVars, workerVars, cacheVars
    <3>2. work'[0] = work[0] \/ work'[0] = Exited
      BY <1>2, <2>5, DownstreamTypes
      DEF Publish, CloseInput, FanInReceive, FanInSend, FanInExit,
          DistributorExit, WorkerExit, StoreExit, Cancel, AppCancel,
          vars, distVars, workerVars, cacheVars, TypeOK
    <3> QED
      BY <1>2, <3>1, <3>2, DownstreamUnchanged
  <2>6. DownstreamOrdered'
    BY <1>2, <2>1, <2>3, <2>4, <2>5 DEF Next
  <2>7. ASSUME NEW e \in Exchanges, latest[e] # NoPrice
        PROVE  latest'[e].n >= latest[e].n
    BY <2>1, <2>2, <2>7, <1>2, StorePriceInOrder, DownstreamTypes
  <2> QED
    BY <2>6, <2>7
<1> QED
  BY <1>1, <1>2, TypeCorrect, OrderKept, PTL DEF Spec, LatestNeverRegresses
-----------------------------------------------------------------------------
(***************************************************************************)
(* That the pipeline accounts for every update and implements the lossy    *)
(* relay is proved in two halves.  The first sees each action as what it   *)
(* does to the places an update can be in: one update arrives, moves to    *)
(* the next place, or leaves.  The second argues about those movements     *)
(* alone, and never looks at a channel again.                              *)
(***************************************************************************)

(***************************************************************************)
(* The places of the pipeline, and the updates, by key, that are at each.  *)
(***************************************************************************)
Places ==
  ({"dataChan", "fan"} \X Exchanges) \cup ({"workerPool", "work"} \X Workers)
    \cup ({"aggregated", "dist", "resultChan", "store"} \X {0})

KeysIn(c) == Keys(Range(c))
KeysHeld(g) == Keys(Held(g))

At(p) ==
  CASE p[1] = "dataChan"   -> KeysIn(dataChan[p[2]])
    [] p[1] = "fan"        -> KeysHeld(fan[p[2]])
    [] p[1] = "aggregated" -> KeysIn(aggregated)
    [] p[1] = "dist"       -> KeysHeld(dist)
    [] p[1] = "workerPool" -> KeysIn(workerPool[p[2]])
    [] p[1] = "work"       -> KeysHeld(work[p[2]])
    [] p[1] = "resultChan" -> KeysIn(resultChan)
    [] p[1] = "store"      -> KeysHeld(store)

(* A channel that holds no update twice.                                   *)
NoRepeat(c) == \A i, j \in DOMAIN c : Key(c[i]) = Key(c[j]) => i = j

ChannelsDistinct ==
  /\ \A e \in Exchanges : NoRepeat(dataChan[e])
  /\ NoRepeat(aggregated)
  /\ \A w \in Workers : NoRepeat(workerPool[w])
  /\ NoRepeat(resultChan)

(***************************************************************************)
(* The inductive invariant: no update is at two places, none is in a       *)
(* channel twice, and all were reported.                                   *)
(***************************************************************************)
OnePlace == \A p, q \in Places : p # q => At(p) \cap At(q) = {}

AllReported == InFlight \cup Keys(stored \cup lost) \subseteq Reports

AccountInv == ChannelsDistinct /\ OnePlace /\ AllReported /\ Accounted

(***************************************************************************)
(* What a step can do to update k: it moves from p to q, it leaves p, it   *)
(* arrives at p; and to no update, nothing.                                *)
(***************************************************************************)
Moves(k, p, q) ==
  /\ k \in At(p)
  /\ \A r \in Places : At(r)' = IF r = p THEN At(p) \ {k}
                                ELSE IF r = q THEN At(q) \cup {k} ELSE At(r)

Leaves(k, p) ==
  /\ k \in At(p)
  /\ \A r \in Places : At(r)' = IF r = p THEN At(p) \ {k} ELSE At(r)

Arrives(k, p) ==
  \A r \in Places : At(r)' = IF r = p THEN At(p) \cup {k} ELSE At(r)

Stays == \A r \in Places : At(r)' = At(r)

SameEnds == UNCHANGED <<stored, lost>>
Lost(k) == Keys(lost') = Keys(lost) \cup {k} /\ UNCHANGED stored
Stored(k) == Keys(stored') = Keys(stored) \cup {k} /\ UNCHANGED lost

SameInput == UNCHANGED <<fed, cancelled>>
NewReport(k) == k \notin Reports /\ Reports' = Reports \cup {k} /\ UNCHANGED cancelled

(* The steps of an update through the pipeline.                            *)
Taken(k, p)     == NewReport(k) /\ Arrives(k, p) /\ SameEnds
Refused(k)      == NewReport(k) /\ Stays /\ Lost(k)
Passed(k, p, q) == SameInput /\ p # q /\ Moves(k, p, q) /\ SameEnds
Dropped(k, p)   == SameInput /\ Leaves(k, p) /\ Lost(k)
Written(k, p)   == SameInput /\ Leaves(k, p) /\ Stored(k)
Abandoned(k, p) == SameInput /\ cancelled /\ Leaves(k, p) /\ SameEnds
Ended           == ~cancelled /\ cancelled' = TRUE /\ UNCHANGED fed /\ Stays /\ SameEnds
Nothing         == SameInput /\ Stays /\ SameEnds

(* What the relay carries.                                                 *)
Item == Exchanges \X (1 .. MaxUpdates)

(* Every step of the pipeline is one of these (StepEffect).                *)
Effect ==
  \/ \E k \in Item : \E p, q \in Places :
       \/ Taken(k, p)
       \/ Refused(k)
       \/ Passed(k, p, q)
       \/ Dropped(k, p)
       \/ Written(k, p)
       \/ Abandoned(k, p)
  \/ Ended
  \/ Nothing
-----------------------------------------------------------------------------
(* What a receive and a send do to the keys in a channel.                  *)
LEMMA ReceiveKeys ==
  ASSUME NEW s \in Seq(Update), s # <<>>, NoRepeat(s)
  PROVE  /\ NoRepeat(Tail(s))
         /\ Head(s) \in Update
         /\ Key(Head(s)) \in KeysIn(s)
         /\ KeysIn(Tail(s)) = KeysIn(s) \ {Key(Head(s))}
<1>1. /\ DOMAIN s = 1 .. Len(s) /\ Len(s) \in Nat
      /\ Len(s) >= 1 /\ Head(s) = s[1]
      /\ DOMAIN Tail(s) = 1 .. Len(s) - 1
      /\ \A i \in 1 .. Len(s) - 1 : Tail(s)[i] = s[i + 1]
  BY ReceiveFacts
<1>2. \A i \in 1 .. Len(s) - 1 : i + 1 \in DOMAIN s /\ i + 1 # 1
  BY <1>1
<1>3. NoRepeat(Tail(s))
  <2> SUFFICES ASSUME NEW i \in 1 .. Len(s) - 1, NEW j \in 1 .. Len(s) - 1,
                      Key(Tail(s)[i]) = Key(Tail(s)[j])
               PROVE  i = j
    BY <1>1 DEF NoRepeat
  <2>1. Key(s[i + 1]) = Key(s[j + 1])
    BY <1>1
  <2>2. i + 1 = j + 1
    BY <1>2, <2>1 DEF NoRepeat
  <2> QED
    BY <1>1, <2>2
<1>4. Head(s) \in Update /\ Key(Head(s)) \in KeysIn(s)
  BY <1>1, ReceiveFacts DEF KeysIn, Keys
<1>5. \A k : k \in KeysIn(Tail(s)) <=> \E i \in 1 .. Len(s) - 1 : k = Key(s[i + 1])
  BY <1>1 DEF KeysIn, Keys, Range
<1>6. \A k : k \in KeysIn(s) <=> \E i \in 1 .. Len(s) : k = Key(s[i])
  BY <1>1 DEF KeysIn, Keys, Range
<1>7. ASSUME NEW k \in KeysIn(Tail(s))
      PROVE  k \in KeysIn(s) /\ k # Key(Head(s))
  <2>1. PICK i \in 1 .. Len(s) - 1 : k = Key(s[i + 1])
    BY <1>5
  <2>2. i + 1 \in DOMAIN s /\ i + 1 # 1 /\ 1 \in DOMAIN s
    BY <1>1, <1>2
  <2>3. Key(s[i + 1]) # Key(s[1])
    BY <2>2 DEF NoRepeat
  <2> QED
    BY <1>1, <1>6, <2>1, <2>2, <2>3
<1>8. ASSUME NEW k \in KeysIn(s), k # Key(Head(s))
      PROVE  k \in KeysIn(Tail(s))
  <2>1. PICK i \in 1 .. Len(s) : k = Key(s[i])
    BY <1>6
  <2>2. i - 1 \in 1 .. Len(s) - 1 /\ (i - 1) + 1 = i
    BY <1>1, <1>8, <2>1
  <2> QED
    BY <1>5, <2>1, <2>2
<1> QED
  BY <1>3, <1>4, <1>7, <1>8

(* The update sent joins the others; a new one is in the channel once.      *)
LEMMA SendKeys ==
  ASSUME NEW s \in Seq(Update), NEW u \in Update
  PROVE  /\ KeysIn(Send(s, u)) = KeysIn(s) \cup {Key(u)}
         /\ NoRepeat(s) /\ Key(u) \notin KeysIn(s) => NoRepeat(Send(s, u))
<1>1. /\ Range(Send(s, u)) = Range(s) \cup {u}
      /\ DOMAIN s = 1 .. Len(s) /\ Len(s) \in Nat
      /\ DOMAIN Send(s, u) = 1 .. Len(s) + 1
      /\ \A i \in 1 .. Len(s) : Send(s, u)[i] = s[i]
      /\ Send(s, u)[Len(s) + 1] = u
  BY SendFacts
<1>2. KeysIn(Send(s, u)) = KeysIn(s) \cup {Key(u)}
  BY <1>1 DEF KeysIn, Keys
<1>3. ASSUME NoRepeat(s), Key(u) \notin KeysIn(s)
      PROVE  NoRepeat(Send(s, u))
  <2> SUFFICES ASSUME NEW i \in 1 .. Len(s) + 1, NEW j \in 1 .. Len(s) + 1,
                      Key(Send(s, u)[i]) = Key(Send(s, u)[j])
               PROVE  i = j
    BY <1>1 DEF NoRepeat
  <2>1. \A m \in 1 .. Len(s) : Key(s[m]) \in KeysIn(s)
    BY <1>1 DEF KeysIn, Keys, Range
  <2>2. CASE i \in 1 .. Len(s) /\ j \in 1 .. Len(s)
    BY <1>1, <1>3, <2>2 DEF NoRepeat
  <2>3. CASE i = Len(s) + 1 \/ j = Len(s) + 1
    BY <1>1, <1>3, <2>1, <2>3
  <2> QED
    BY <1>1, <2>2, <2>3
<1> QED
  BY <1>2, <1>3
-----------------------------------------------------------------------------
(* The places, with what is there before and after a step.                 *)
LEMMA InputPlaces ==
  ASSUME NEW e \in Exchanges
  PROVE  /\ <<"dataChan", e>> \in Places /\ <<"fan", e>> \in Places
         /\ At(<<"dataChan", e>>) = KeysIn(dataChan[e])
         /\ At(<<"fan", e>>) = KeysHeld(fan[e])
         /\ At(<<"dataChan", e>>)' = KeysIn(dataChan'[e])
         /\ At(<<"fan", e>>)' = KeysHeld(fan'[e])
BY DEF Places, At

(* The places of a worker.                                                 *)
LEMMA WorkerPlaces ==
  ASSUME NEW w \in Workers
  PROVE  /\ <<"workerPool", w>> \in Places /\ <<"work", w>> \in Places
         /\ At(<<"workerPool", w>>) = KeysIn(workerPool[w])
         /\ At(<<"work", w>>) = KeysHeld(work[w])
         /\ At(<<"workerPool", w>>)' = KeysIn(workerPool'[w])
         /\ At(<<"work", w>>)' = KeysHeld(work'[w])
BY DEF Places, At

(* The places there is one of.                                             *)
LEMMA SharedPlaces ==
  /\ {<<"aggregated", 0>>, <<"dist", 0>>, <<"resultChan", 0>>, <<"store", 0>>}
       \subseteq Places
  /\ At(<<"aggregated", 0>>) = KeysIn(aggregated)
  /\ At(<<"dist", 0>>) = KeysHeld(dist)
  /\ At(<<"resultChan", 0>>) = KeysIn(resultChan)
  /\ At(<<"store", 0>>) = KeysHeld(store)
  /\ At(<<"aggregated", 0>>)' = KeysIn(aggregated')
  /\ At(<<"dist", 0>>)' = KeysHeld(dist')
  /\ At(<<"resultChan", 0>>)' = KeysIn(resultChan')
  /\ At(<<"store", 0>>)' = KeysHeld(store')
BY DEF Places, At

(* A goroutine holds the one update it is about to send, or none.          *)
LEMMA HeldKeys ==
  /\ KeysHeld(Waiting) = {}
  /\ KeysHeld(Exited) = {}
  /\ \A u : KeysHeld(Holding(u)) = {Key(u)}
  /\ \A g \in Goroutine : g.pc = "send" => KeysHeld(g) = {Key(g.item)}
  /\ \A g \in Goroutine : g # Waiting /\ g # Exited => g.pc = "send"
BY DEF KeysHeld, Keys, Held, Waiting, Exited, Holding, Goroutine

(* The key of an update names an item.                                     *)
LEMMA KeyIsItem == \A u \in Update : Key(u) \in Item
BY DEF Key, Item, Update

(* An update that joins a set joins its keys.                              *)
LEMMA JoinKeys == \A S, u : Keys(S \cup {u}) = Keys(S) \cup {Key(u)}
BY DEF Keys

(***************************************************************************)
(* What each action is, seen as a movement.  A channel stays without       *)
(* repetition because what is sent on it was elsewhere.                    *)
(***************************************************************************)

(* fanIn takes an update from its input.                                   *)
LEMMA FanInReceiveEffect ==
  ASSUME TypeOK, AccountInv, NEW e \in Exchanges, FanInReceive(e)
  PROVE  Effect /\ ChannelsDistinct'
<1> DEFINE u == Head(dataChan[e])
           p == <<"dataChan", e>>
           q == <<"fan", e>>
<1>1. /\ fan[e] = Waiting /\ dataChan[e] # <<>> /\ dataChan[e] \in Seq(Update)
      /\ \A f \in Exchanges :
           /\ dataChan'[f] = IF f = e THEN Tail(dataChan[e]) ELSE dataChan[f]
           /\ fan'[f] = IF f = e THEN Holding(u) ELSE fan[f]
      /\ UNCHANGED <<aggregated, dist, workerPool, work, resultChan, store>>
      /\ UNCHANGED <<fed, cancelled, stored, lost>>
  BY DEF FanInReceive, TypeOK, distVars, workerVars, cacheVars, ctxVars
<1>2. /\ NoRepeat(Tail(dataChan[e])) /\ u \in Update
      /\ Key(u) \in KeysIn(dataChan[e])
      /\ KeysIn(Tail(dataChan[e])) = KeysIn(dataChan[e]) \ {Key(u)}
  BY <1>1, ReceiveKeys DEF AccountInv, ChannelsDistinct
<1>3. Moves(Key(u), p, q)
  <2>1. /\ Key(u) \in At(p) /\ At(p)' = At(p) \ {Key(u)}
        /\ At(q)' = At(q) \cup {Key(u)}
    BY <1>1, <1>2, InputPlaces, HeldKeys
  <2>2. ASSUME NEW r \in Places, r # p, r # q
        PROVE  At(r)' = At(r)
    BY <1>1, <2>2 DEF At, Places
  <2> QED
    BY <2>1, <2>2 DEF Moves
<1>4. ChannelsDistinct'
  BY <1>1, <1>2 DEF AccountInv, ChannelsDistinct
<1> QED
  BY <1>1, <1>2, <1>3, <1>4, KeyIsItem, InputPlaces
     DEF Effect, Passed, SameInput, SameEnds

(* fanIn's update goes on to aggregated, or is dropped.                    *)
LEMMA FanInSendEffect ==
  ASSUME TypeOK, AccountInv, NEW e \in Exchanges, FanInSend(e)
  PROVE  Effect /\ ChannelsDistinct'
<1> DEFINE u == fan[e].item
           p == <<"fan", e>>
           q == <<"aggregated", 0>>
<1>1. /\ fan[e].pc = "send" /\ fan[e] \in Goroutine /\ aggregated \in Seq(Update)
      /\ \A f \in Exchanges : fan'[f] = IF f = e THEN Waiting ELSE fan[f]
      /\ UNCHANGED <<dataChan, dist, workerPool, work, resultChan, store>>
      /\ UNCHANGED <<fed, cancelled, stored>>
      /\ \/ aggregated' = Send(aggregated, u) /\ UNCHANGED lost
         \/ lost' = lost \cup {u} /\ UNCHANGED aggregated
  BY DEF FanInSend, TypeOK, inputVars, distVars, workerVars, cacheVars, ctxVars
<1>2. u \in Update /\ At(p) = {Key(u)} /\ At(p)' = {} /\ p \in Places /\ q \in Places
  BY <1>1, GoroutineTypes, InputPlaces, HeldKeys, SharedPlaces
<1>3. ASSUME NEW r \in Places, r # p, r # q
      PROVE  At(r)' = At(r)
  BY <1>1, <1>3 DEF At, Places
<1>4. CASE aggregated' = Send(aggregated, u) /\ UNCHANGED lost
  <2>1. At(q) = KeysIn(aggregated) /\ Key(u) \notin At(q)
    BY <1>2, SharedPlaces DEF AccountInv, OnePlace
  <2>2. At(q)' = At(q) \cup {Key(u)} /\ NoRepeat(aggregated')
    BY <1>1, <1>2, <1>4, <2>1, SharedPlaces, SendKeys DEF AccountInv, ChannelsDistinct
  <2>3. Moves(Key(u), p, q)
    BY <1>2, <1>3, <2>2 DEF Moves
  <2> QED
    BY <1>1, <1>2, <1>4, <2>2, <2>3, KeyIsItem
       DEF Effect, Passed, SameInput, SameEnds, AccountInv, ChannelsDistinct
<1>5. CASE lost' = lost \cup {u} /\ UNCHANGED aggregated
  <2>1. At(q)' = At(q)
    BY <1>5, SharedPlaces
  <2>2. Leaves(Key(u), p)
    BY <1>2, <1>3, <2>1 DEF Leaves
  <2> QED
    BY <1>1, <1>2, <1>5, <2>2, KeyIsItem, JoinKeys
       DEF Effect, Dropped, SameInput, Lost, AccountInv, ChannelsDistinct
<1> QED
  BY <1>1, <1>4, <1>5

(* A goroutine of fanIn that returns abandons what it holds.               *)
LEMMA FanInExitEffect ==
  ASSUME TypeOK, AccountInv, NEW e \in Exchanges, FanInExit(e)
  PROVE  Effect /\ ChannelsDistinct'
<1> DEFINE p == <<"fan", e>>
<1>1. /\ fan[e] = Waiting \/ cancelled
      /\ fan[e] # Exited /\ fan[e] \in Goroutine
      /\ \A f \in Exchanges : fan'[f] = IF f = e THEN Exited ELSE fan[f]
      /\ UNCHANGED <<dataChan, aggregated, dist, workerPool, work, resultChan, store>>
      /\ UNCHANGED <<fed, cancelled, stored, lost>>
  BY DEF FanInExit, TypeOK, inputVars, distVars, workerVars, cacheVars, ctxVars,
         Waiting, Exited
<1>2. ASSUME NEW r \in Places, r # p
      PROVE  At(r)' = At(r)
  BY <1>1, <1>2 DEF At, Places
<1>3. At(p)' = {} /\ p \in Places
  BY <1>1, InputPlaces, HeldKeys
<1>4. CASE fan[e] = Waiting
  <2>1. At(p) = {}
    BY <1>4, InputPlaces, HeldKeys
  <2> QED
    BY <1>1, <1>2, <1>3, <2>1
       DEF Effect, Nothing, Stays, SameInput, SameEnds, AccountInv, ChannelsDistinct
<1>5. CASE fan[e] # Waiting
  <2>1. fan[e].item \in Update /\ At(p) = {Key(fan[e].item)}
    BY <1>1, <1>5, InputPlaces, HeldKeys, GoroutineTypes
  <2>2. Leaves(Key(fan[e].item), p)
    BY <1>2, <1>3, <2>1 DEF Leaves
  <2> QED
    BY <1>1, <1>3, <1>5, <2>1, <2>2, KeyIsItem
       DEF Effect, Abandoned, SameInput, SameEnds, AccountInv, ChannelsDistinct
<1> QED
  BY <1>4, <1>5

(* The distributor takes an update from aggregated.                        *)
LEMMA DistributorReceiveEffect ==
  ASSUME TypeOK, AccountInv, DistributorReceive
  PROVE  Effect /\ ChannelsDistinct'
<1> DEFINE u == Head(aggregated)
           p == <<"aggregated", 0>>
           q == <<"dist", 0>>
<1>1. /\ dist = Waiting /\ aggregated # <<>> /\ aggregated \in Seq(Update)
      /\ aggregated' = Tail(aggregated) /\ dist' = Holding(u)
      /\ UNCHANGED <<dataChan, fan, workerPool, work, resultChan, store>>
      /\ UNCHANGED <<fed, cancelled, stored, lost>>
  BY DEF DistributorReceive, TypeOK, inputVars, workerVars, cacheVars, ctxVars
<1>2. /\ NoRepeat(Tail(aggregated)) /\ u \in Update
      /\ Key(u) \in KeysIn(aggregated)
      /\ KeysIn(Tail(aggregated)) = KeysIn(aggregated) \ {Key(u)}
  BY <1>1, ReceiveKeys DEF AccountInv, ChannelsDistinct
<1>3. Moves(Key(u), p, q)
  <2>1. /\ Key(u) \in At(p) /\ At(p)' = At(p) \ {Key(u)}
        /\ At(q)' = At(q) \cup {Key(u)}
    BY <1>1, <1>2, SharedPlaces, HeldKeys
  <2>2. ASSUME NEW r \in Places, r # p, r # q
        PROVE  At(r)' = At(r)
    BY <1>1, <2>2 DEF At, Places
  <2> QED
    BY <2>1, <2>2 DEF Moves
<1>4. ChannelsDistinct'
  BY <1>1, <1>2 DEF AccountInv, ChannelsDistinct
<1> QED
  BY <1>1, <1>2, <1>3, <1>4, KeyIsItem, SharedPlaces
     DEF Effect, Passed, SameInput, SameEnds

(* The distributor's update goes on to the worker whose turn it is, or is  *)
(* dropped.                                                                *)
LEMMA DistributorSendEffect ==
  ASSUME TypeOK, AccountInv, DistributorSend, NEW w \in Workers, w = workerIndex
  PROVE  Effect /\ ChannelsDistinct'
<1> DEFINE u == dist.item
           p == <<"dist", 0>>
           q == <<"workerPool", w>>
<1>1. /\ dist.pc = "send" /\ dist \in Goroutine /\ dist' = Waiting
      /\ workerPool[w] \in Seq(Update)
      /\ UNCHANGED <<dataChan, fan, aggregated, work, resultChan, store>>
      /\ UNCHANGED <<fed, cancelled, stored>>
      /\ \/ /\ \A v \in Workers :
                 workerPool'[v] = IF v = w THEN Send(workerPool[w], u) ELSE workerPool[v]
            /\ UNCHANGED lost
         \/ lost' = lost \cup {u} /\ UNCHANGED workerPool
  BY DEF DistributorSend, TypeOK, inputVars, cacheVars, ctxVars
<1>2. u \in Update /\ At(p) = {Key(u)} /\ At(p)' = {} /\ p \in Places /\ q \in Places
  BY <1>1, GoroutineTypes, SharedPlaces, HeldKeys, WorkerPlaces
<1>3. ASSUME NEW r \in Places, r # p, r # q
      PROVE  At(r)' = At(r)
  BY <1>1, <1>3 DEF At, Places
<1>4. ASSUME \A v \in Workers :
               workerPool'[v] = IF v = w THEN Send(workerPool[w], u) ELSE workerPool[v],
             UNCHANGED lost
      PROVE  Effect /\ ChannelsDistinct'
  <2>1. At(q) = KeysIn(workerPool[w]) /\ Key(u) \notin At(q)
    BY <1>1, <1>2, WorkerPlaces DEF AccountInv, OnePlace
  <2>2. At(q)' = At(q) \cup {Key(u)} /\ NoRepeat(workerPool'[w])
    BY <1>1, <1>2, <1>4, <2>1, WorkerPlaces, SendKeys DEF AccountInv, ChannelsDistinct
  <2>3. Moves(Key(u), p, q)
    BY <1>2, <1>3, <2>2 DEF Moves
  <2> QED
    BY <1>1, <1>2, <1>4, <2>2, <2>3, KeyIsItem
       DEF Effect, Passed, SameInput, SameEnds, AccountInv, ChannelsDistinct
<1>5. CASE lost' = lost \cup {u} /\ UNCHANGED workerPool
  <2>1. At(q)' = At(q)
    BY <1>1, <1>5, WorkerPlaces
  <2>2. Leaves(Key(u), p)
    BY <1>2, <1>3, <2>1 DEF Leaves
  <2> QED
    BY <1>1, <1>2, <1>5, <2>2, KeyIsItem, JoinKeys
       DEF Effect, Dropped, SameInput, Lost, AccountInv, ChannelsDistinct
<1> QED
  BY <1>1, <1>4, <1>5

(* The distributor returns and abandons what it holds.                     *)
LEMMA DistributorExitEffect ==
  ASSUME TypeOK, AccountInv, DistributorExit
  PROVE  Effect /\ ChannelsDistinct'
<1> DEFINE p == <<"dist", 0>>
<1>1. /\ cancelled /\ dist # Exited /\ dist \in Goroutine /\ dist' = Exited
      /\ UNCHANGED <<dataChan, fan, aggregated, workerPool, work, resultChan, store>>
      /\ UNCHANGED <<fed, cancelled, stored, lost>>
  BY DEF DistributorExit, TypeOK, inputVars, workerVars, cacheVars, ctxVars
<1>2. ASSUME NEW r \in Places, r # p
      PROVE  At(r)' = At(r)
  BY <1>1, <1>2 DEF At, Places
<1>3. At(p)' = {} /\ p \in Places
  BY <1>1, SharedPlaces, HeldKeys
<1>4. CASE dist = Waiting
  <2>1. At(p) = {}
    BY <1>4, SharedPlaces, HeldKeys
  <2> QED
    BY <1>1, <1>2, <1>3, <2>1
       DEF Effect, Nothing, Stays, SameInput, SameEnds, AccountInv, ChannelsDistinct
<1>5. CASE dist # Waiting
  <2>1. dist.item \in Update /\ At(p) = {Key(dist.item)}
    BY <1>1, <1>5, SharedPlaces, HeldKeys, GoroutineTypes
  <2>2. Leaves(Key(dist.item), p)
    BY <1>2, <1>3, <2>1 DEF Leaves
  <2> QED
    BY <1>1, <1>3, <2>1, <2>2, KeyIsItem
       DEF Effect, Abandoned, SameInput, SameEnds, AccountInv, ChannelsDistinct
<1> QED
  BY <1>4, <1>5

(* Processing does not change which update it is.                          *)
LEMMA ProcessedKey == \A u \in Update : Key(ProcessMarketData(u)) = Key(u)
BY DEF Key, ProcessMarketData, Update

(* A worker takes an update from its channel.                              *)
LEMMA WorkerReceiveEffect ==
  ASSUME TypeOK, AccountInv, NEW w \in Workers, WorkerReceive(w)
  PROVE  Effect /\ ChannelsDistinct'
<1> DEFINE u == Head(workerPool[w])
           p == <<"workerPool", w>>
           q == <<"work", w>>
<1>1. /\ work[w] = Waiting /\ workerPool[w] # <<>> /\ workerPool[w] \in Seq(Update)
      /\ \A v \in Workers :
           /\ workerPool'[v] = IF v = w THEN Tail(workerPool[w]) ELSE workerPool[v]
           /\ work'[v] = IF v = w THEN Holding(ProcessMarketData(u)) ELSE work[v]
      /\ UNCHANGED <<dataChan, fan, aggregated, dist, resultChan, store>>
      /\ UNCHANGED <<fed, cancelled, stored, lost>>
  BY DEF WorkerReceive, TypeOK, inputVars, distVars, cacheVars, ctxVars
<1>2. /\ NoRepeat(Tail(workerPool[w])) /\ u \in Update
      /\ Key(u) \in KeysIn(workerPool[w])
      /\ KeysIn(Tail(workerPool[w])) = KeysIn(workerPool[w]) \ {Key(u)}
  BY <1>1, ReceiveKeys DEF AccountInv, ChannelsDistinct
<1>3. Moves(Key(u), p, q)
  <2>1. /\ Key(u) \in At(p) /\ At(p)' = At(p) \ {Key(u)}
        /\ At(q)' = At(q) \cup {Key(u)}
    BY <1>1, <1>2, WorkerPlaces, HeldKeys, ProcessedKey
  <2>2. ASSUME NEW r \in Places, r # p, r # q
        PROVE  At(r)' = At(r)
    BY <1>1, <2>2 DEF At, Places
  <2> QED
    BY <2>1, <2>2 DEF Moves
<1>4. ChannelsDistinct'
  BY <1>1, <1>2 DEF AccountInv, ChannelsDistinct
<1> QED
  BY <1>1, <1>2, <1>3, <1>4, KeyIsItem, WorkerPlaces
     DEF Effect, Passed, SameInput, SameEnds

(* A worker's update goes on to resultChan, or is dropped.                 *)
LEMMA WorkerSendEffect ==
  ASSUME TypeOK, AccountInv, NEW w \in Workers, WorkerSend(w)
  PROVE  Effect /\ ChannelsDistinct'
<1> DEFINE u == work[w].item
           p == <<"work", w>>
           q == <<"resultChan", 0>>
<1>1. /\ work[w].pc = "send" /\ work[w] \in Goroutine /\ resultChan \in Seq(Update)
      /\ \A v \in Workers : work'[v] = IF v = w THEN Waiting ELSE work[v]
      /\ UNCHANGED <<dataChan, fan, aggregated, dist, workerPool, store>>
      /\ UNCHANGED <<fed, cancelled, stored>>
      /\ \/ resultChan' = Send(resultChan, u) /\ UNCHANGED lost
         \/ lost' = lost \cup {u} /\ UNCHANGED resultChan
  BY DEF WorkerSend, TypeOK, inputVars, distVars, cacheVars, ctxVars
<1>2. u \in Update /\ At(p) = {Key(u)} /\ At(p)' = {} /\ p \in Places /\ q \in Places
  BY <1>1, GoroutineTypes, WorkerPlaces, HeldKeys, SharedPlaces
<1>3. ASSUME NEW r \in Places, r # p, r # q
      PROVE  At(r)' = At(r)
  BY <1>1, <1>3 DEF At, Places
<1>4. CASE resultChan' = Send(resultChan, u) /\ UNCHANGED lost
  <2>1. At(q) = KeysIn(resultChan) /\ Key(u) \notin At(q)
    BY <1>2, SharedPlaces DEF AccountInv, OnePlace
  <2>2. At(q)' = At(q) \cup {Key(u)} /\ NoRepeat(resultChan')
    BY <1>1, <1>2, <1>4, <2>1, SharedPlaces, SendKeys DEF AccountInv, ChannelsDistinct
  <2>3. Moves(Key(u), p, q)
    BY <1>2, <1>3, <2>2 DEF Moves
  <2> QED
    BY <1>1, <1>2, <1>4, <2>2, <2>3, KeyIsItem
       DEF Effect, Passed, SameInput, SameEnds, AccountInv, ChannelsDistinct
<1>5. CASE lost' = lost \cup {u} /\ UNCHANGED resultChan
  <2>1. At(q)' = At(q)
    BY <1>5, SharedPlaces
  <2>2. Leaves(Key(u), p)
    BY <1>2, <1>3, <2>1 DEF Leaves
  <2> QED
    BY <1>1, <1>2, <1>5, <2>2, KeyIsItem, JoinKeys
       DEF Effect, Dropped, SameInput, Lost, AccountInv, ChannelsDistinct
<1> QED
  BY <1>1, <1>4, <1>5

(* A worker that returns abandons what it holds.                           *)
LEMMA WorkerExitEffect ==
  ASSUME TypeOK, AccountInv, NEW w \in Workers, WorkerExit(w)
  PROVE  Effect /\ ChannelsDistinct'
<1> DEFINE p == <<"work", w>>
<1>1. /\ cancelled /\ work[w] # Exited /\ work[w] \in Goroutine
      /\ \A v \in Workers : work'[v] = IF v = w THEN Exited ELSE work[v]
      /\ UNCHANGED <<dataChan, fan, aggregated, dist, workerPool, resultChan, store>>
      /\ UNCHANGED <<fed, cancelled, stored, lost>>
  BY DEF WorkerExit, TypeOK, inputVars, distVars, cacheVars, ctxVars
<1>2. ASSUME NEW r \in Places, r # p
      PROVE  At(r)' = At(r)
  BY <1>1, <1>2 DEF At, Places
<1>3. At(p)' = {} /\ p \in Places
  BY <1>1, WorkerPlaces, HeldKeys
<1>4. CASE work[w] = Waiting
  <2>1. At(p) = {}
    BY <1>4, WorkerPlaces, HeldKeys
  <2> QED
    BY <1>1, <1>2, <1>3, <2>1
       DEF Effect, Nothing, Stays, SameInput, SameEnds, AccountInv, ChannelsDistinct
<1>5. CASE work[w] # Waiting
  <2>1. work[w].item \in Update /\ At(p) = {Key(work[w].item)}
    BY <1>1, <1>5, WorkerPlaces, HeldKeys, GoroutineTypes
  <2>2. Leaves(Key(work[w].item), p)
    BY <1>2, <1>3, <2>1 DEF Leaves
  <2> QED
    BY <1>1, <1>3, <2>1, <2>2, KeyIsItem
       DEF Effect, Abandoned, SameInput, SameEnds, AccountInv, ChannelsDistinct
<1> QED
  BY <1>4, <1>5

(* The application takes an update from resultChan.                        *)
LEMMA StoreReceiveEffect ==
  ASSUME TypeOK, AccountInv, StoreReceive
  PROVE  Effect /\ ChannelsDistinct'
<1> DEFINE u == Head(resultChan)
           p == <<"resultChan", 0>>
           q == <<"store", 0>>
<1>1. /\ store = Waiting /\ resultChan # <<>> /\ resultChan \in Seq(Update)
      /\ resultChan' = Tail(resultChan) /\ store' = Holding(u)
      /\ UNCHANGED <<dataChan, fan, aggregated, dist, workerPool, work>>
      /\ UNCHANGED <<fed, cancelled, stored, lost>>
  BY DEF StoreReceive, TypeOK, inputVars, distVars, workerVars, cacheVars, ctxVars
<1>2. /\ NoRepeat(Tail(resultChan)) /\ u \in Update
      /\ Key(u) \in KeysIn(resultChan)
      /\ KeysIn(Tail(resultChan)) = KeysIn(resultChan) \ {Key(u)}
  BY <1>1, ReceiveKeys DEF AccountInv, ChannelsDistinct
<1>3. Moves(Key(u), p, q)
  <2>1. /\ Key(u) \in At(p) /\ At(p)' = At(p) \ {Key(u)}
        /\ At(q)' = At(q) \cup {Key(u)}
    BY <1>1, <1>2, SharedPlaces, HeldKeys
  <2>2. ASSUME NEW r \in Places, r # p, r # q
        PROVE  At(r)' = At(r)
    BY <1>1, <2>2 DEF At, Places
  <2> QED
    BY <2>1, <2>2 DEF Moves
<1>4. ChannelsDistinct'
  BY <1>1, <1>2 DEF AccountInv, ChannelsDistinct
<1> QED
  BY <1>1, <1>2, <1>3, <1>4, KeyIsItem, SharedPlaces
     DEF Effect, Passed, SameInput, SameEnds

(* Its update is written, or given up when Redis does not take it.         *)
LEMMA StorePriceEffect ==
  ASSUME TypeOK, AccountInv, StorePrice
  PROVE  Effect /\ ChannelsDistinct'
<1> DEFINE u == store.item
           p == <<"store", 0>>
<1>1. /\ store.pc = "send" /\ store \in Goroutine /\ store' = Waiting
      /\ UNCHANGED <<dataChan, fan, aggregated, dist, workerPool, work, resultChan>>
      /\ UNCHANGED <<fed, cancelled>>
      /\ \/ lost' = lost \cup {u} /\ UNCHANGED stored
         \/ stored' = stored \cup {u} /\ UNCHANGED lost
  BY DEF StorePrice, TypeOK, inputVars, distVars, workerVars, cacheVars, ctxVars
<1>2. u \in Update /\ At(p) = {Key(u)} /\ At(p)' = {} /\ p \in Places
  BY <1>1, GoroutineTypes, SharedPlaces, HeldKeys
<1>3. ASSUME NEW r \in Places, r # p
      PROVE  At(r)' = At(r)
  BY <1>1, <1>3 DEF At, Places
<1>4. Leaves(Key(u), p)
  BY <1>2, <1>3 DEF Leaves
<1>5. Lost(Key(u)) \/ Stored(Key(u))
  BY <1>1, JoinKeys DEF Lost, Stored
<1> QED
  BY <1>1, <1>2, <1>4, <1>5, KeyIsItem
     DEF Effect, Dropped, Written, SameInput, AccountInv, ChannelsDistinct

(* What is a key of a set of updates.                                      *)
LEMMA KeysMembers == \A S, k : k \in Keys(S) <=> \E u : u \in S /\ k = Key(u)
BY DEF Keys

(* The keys of two sets together.                                          *)
LEMMA KeysOfBoth == \A S, T : Keys(S \cup T) = Keys(S) \cup Keys(T)
BY DEF Keys

(* An update is in flight when it is at some place.                        *)
LEMMA InFlightPlaces ==
  /\ \A k : k \in InFlight <=> \E p \in Places : k \in At(p)
  /\ \A k : k \in InFlight' <=> \E p \in Places : k \in At(p)'
<1>1. \A k : k \in InFlight <=>
        \/ \E e \in Exchanges : k \in KeysIn(dataChan[e]) \/ k \in KeysHeld(fan[e])
        \/ \E w \in Workers : k \in KeysIn(workerPool[w]) \/ k \in KeysHeld(work[w])
        \/ k \in KeysIn(aggregated) \/ k \in KeysHeld(dist)
        \/ k \in KeysIn(resultChan) \/ k \in KeysHeld(store)
  <2>1. \A u : u \in Buffered <=>
          \/ \E e \in Exchanges : u \in Range(dataChan[e])
          \/ \E w \in Workers : u \in Range(workerPool[w])
          \/ u \in Range(aggregated) \/ u \in Range(resultChan)
    BY DEF Buffered
  <2>2. \A u : u \in InHand <=>
          \/ \E e \in Exchanges : u \in Held(fan[e])
          \/ \E w \in Workers : u \in Held(work[w])
          \/ u \in Held(dist) \/ u \in Held(store)
    BY DEF InHand
  <2>3. \A k : k \in InFlight <=> \E u : (u \in Buffered \/ u \in InHand) /\ k = Key(u)
    BY DEF InFlight, Keys
  <2> QED
    BY <2>1, <2>2, <2>3, KeysMembers DEF KeysIn, KeysHeld
<1>2. \A k : k \in InFlight' <=>
        \/ \E e \in Exchanges : k \in KeysIn(dataChan'[e]) \/ k \in KeysHeld(fan'[e])
        \/ \E w \in Workers : k \in KeysIn(workerPool'[w]) \/ k \in KeysHeld(work'[w])
        \/ k \in KeysIn(aggregated') \/ k \in KeysHeld(dist')
        \/ k \in KeysIn(resultChan') \/ k \in KeysHeld(store')
  <2>1. \A u : u \in Buffered' <=>
          \/ \E e \in Exchanges : u \in Range(dataChan'[e])
          \/ \E w \in Workers : u \in Range(workerPool'[w])
          \/ u \in Range(aggregated') \/ u \in Range(resultChan')
    BY DEF Buffered
  <2>2. \A u : u \in InHand' <=>
          \/ \E e \in Exchanges : u \in Held(fan'[e])
          \/ \E w \in Workers : u \in Held(work'[w])
          \/ u \in Held(dist') \/ u \in Held(store')
    BY DEF InHand
  <2>3. \A k : k \in InFlight' <=> \E u : (u \in Buffered' \/ u \in InHand') /\ k = Key(u)
    BY DEF InFlight, Keys
  <2> QED
    BY <2>1, <2>2, <2>3, KeysMembers DEF KeysIn, KeysHeld
<1>3. ASSUME NEW k, k \in InFlight
      PROVE  \E p \in Places : k \in At(p)
  BY <1>1, <1>3, InputPlaces, WorkerPlaces, SharedPlaces
<1>4. ASSUME NEW k, NEW p \in Places, k \in At(p)
      PROVE  k \in InFlight
  BY <1>1, <1>4 DEF Places, At
<1>5. ASSUME NEW k, k \in InFlight'
      PROVE  \E p \in Places : k \in At(p)'
  BY <1>2, <1>5, InputPlaces, WorkerPlaces, SharedPlaces
<1>6. ASSUME NEW k, NEW p \in Places, k \in At(p)'
      PROVE  k \in InFlight'
  BY <1>2, <1>6 DEF Places, At
<1> QED
  BY <1>3, <1>4, <1>5, <1>6

(* The next update of an exchange joins the reports.                       *)
LEMMA NextReport ==
  ASSUME TypeOK, NEW e \in Exchanges, fed' = [fed EXCEPT ![e] = @ + 1]
  PROVE  /\ <<e, fed[e] + 1>> \notin Reports
         /\ Reports' = Reports \cup {<<e, fed[e] + 1>>}
<1>1. \A k : k \in Reports <=>
        \E f \in Exchanges : \E n \in 1 .. fed[f] : k = <<f, n>>
  BY DEF Reports
<1>2. \A k : k \in Reports' <=>
        \E f \in Exchanges : \E n \in 1 .. fed'[f] : k = <<f, n>>
  BY DEF Reports
<1>3. /\ \A f \in Exchanges : fed[f] \in Nat
      /\ \A f \in Exchanges : fed'[f] = IF f = e THEN fed[e] + 1 ELSE fed[f]
  BY DEF TypeOK
<1>4. 1 .. fed'[e] = 1 .. fed[e] \cup {fed[e] + 1}
  BY <1>3
<1>5. <<e, fed[e] + 1>> \notin Reports
  BY <1>1, <1>3
<1>6. \A k : k \in Reports' <=> k \in Reports \/ k = <<e, fed[e] + 1>>
  BY <1>1, <1>2, <1>3, <1>4
<1> QED
  BY <1>5, <1>6

(* An adapter's update is taken in, or refused for want of room.           *)
LEMMA PublishEffect ==
  ASSUME TypeOK, AccountInv, NEW e \in Exchanges, Publish(e)
  PROVE  Effect /\ ChannelsDistinct'
<1> DEFINE n == fed[e] + 1
           u == Reported(e, n)
           p == <<"dataChan", e>>
<1>1. /\ fed[e] \in Nat /\ fed[e] < MaxUpdates /\ dataChan[e] \in Seq(Update)
      /\ fed' = [fed EXCEPT ![e] = @ + 1]
      /\ UNCHANGED <<fan, aggregated, dist, workerPool, work, resultChan, store>>
      /\ UNCHANGED <<stored, cancelled>>
      /\ \/ /\ \A f \in Exchanges :
                 dataChan'[f] = IF f = e THEN Send(dataChan[e], u) ELSE dataChan[f]
            /\ UNCHANGED lost
         \/ lost' = lost \cup {u} /\ UNCHANGED dataChan
  BY DEF Publish, TypeOK, distVars, workerVars, cacheVars, ctxVars
<1>2. /\ n \in 1 .. MaxUpdates /\ u \in Update /\ Key(u) = <<e, n>>
      /\ p \in Places
  <2>1. n \in 1 .. MaxUpdates
    BY <1>1, ConstantTypes
  <2>2. u \in Update
    BY <2>1, ReportedType
  <2> QED
    BY <2>1, <2>2, InputPlaces DEF Key, Reported
<1>3. NewReport(Key(u))
  BY <1>1, <1>2, NextReport DEF NewReport
<1>4. ASSUME NEW r \in Places, r # p
      PROVE  At(r)' = At(r)
  BY <1>1, <1>4 DEF At, Places
<1>5. ASSUME \A f \in Exchanges :
               dataChan'[f] = IF f = e THEN Send(dataChan[e], u) ELSE dataChan[f],
             UNCHANGED lost
      PROVE  Effect /\ ChannelsDistinct'
  <2>1. At(p) = KeysIn(dataChan[e]) /\ Key(u) \notin At(p)
    BY <1>2, <1>3, InputPlaces, InFlightPlaces DEF NewReport, AccountInv, AllReported
  <2>2. At(p)' = At(p) \cup {Key(u)} /\ NoRepeat(dataChan'[e])
    BY <1>1, <1>2, <1>5, <2>1, InputPlaces, SendKeys DEF AccountInv, ChannelsDistinct
  <2>3. Arrives(Key(u), p)
    BY <1>2, <1>4, <2>2 DEF Arrives
  <2> QED
    BY <1>1, <1>2, <1>3, <1>5, <2>2, <2>3, KeyIsItem
       DEF Effect, Taken, SameEnds, AccountInv, ChannelsDistinct
<1>6. CASE lost' = lost \cup {u} /\ UNCHANGED dataChan
  <2>1. At(p)' = At(p)
    BY <1>6, InputPlaces
  <2>2. Stays
    BY <1>4, <2>1 DEF Stays
  <2> QED
    BY <1>1, <1>2, <1>3, <1>6, <2>2, KeyIsItem, JoinKeys
       DEF Effect, Refused, Lost, AccountInv, ChannelsDistinct
<1> QED
  BY <1>1, <1>5, <1>6

(* Stop, the end of the store and of the contexts move no update.          *)
LEMMA ControlEffect ==
  ASSUME TypeOK, AccountInv,
         \/ \E e \in Exchanges : CloseInput(e)
         \/ StoreExit
         \/ Cancel
         \/ AppCancel
         \/ UNCHANGED vars
  PROVE  Effect /\ ChannelsDistinct'
<1>1. /\ UNCHANGED <<dataChan, fan, aggregated, dist, workerPool, work, resultChan>>
      /\ UNCHANGED <<fed, stored, lost>>
      /\ UNCHANGED store \/ (store = Waiting /\ store' = Exited)
      /\ UNCHANGED cancelled \/ (~cancelled /\ cancelled' = TRUE)
  <2>1. CASE \E e \in Exchanges : CloseInput(e)
    BY <2>1 DEF CloseInput, distVars, workerVars, cacheVars, ctxVars
  <2>2. CASE StoreExit
    BY <2>2 DEF StoreExit, inputVars, distVars, workerVars, cacheVars, ctxVars
  <2>3. CASE Cancel
    BY <2>3 DEF Cancel, inputVars, distVars, workerVars, cacheVars
  <2>4. CASE AppCancel
    BY <2>4 DEF AppCancel, TypeOK, inputVars, distVars, workerVars, cacheVars
  <2>5. CASE UNCHANGED vars
    BY <2>5 DEF vars
  <2> QED
    BY <2>1, <2>2, <2>3, <2>4, <2>5
<1>2. KeysHeld(store') = KeysHeld(store)
  BY <1>1, HeldKeys
<1>3. Stays
  BY <1>1, <1>2 DEF Stays, At, Places
<1> QED
  BY <1>1, <1>3
     DEF Effect, Ended, Nothing, SameInput, SameEnds, AccountInv, ChannelsDistinct

(* Every step of the pipeline is a movement.                               *)
LEMMA StepEffect ==
  ASSUME TypeOK, AccountInv, [Next]_vars
  PROVE  Effect /\ ChannelsDistinct'
<1>1. CASE DistributorSend
  <2>1. PICK w \in Workers : w = workerIndex
    BY DEF TypeOK
  <2> QED
    BY <1>1, <2>1, DistributorSendEffect
<1>2. ASSUME NEW e \in Exchanges,
             \/ Publish(e)
             \/ FanInReceive(e)
             \/ FanInSend(e)
             \/ FanInExit(e)
      PROVE  Effect /\ ChannelsDistinct'
  BY <1>2, PublishEffect, FanInReceiveEffect, FanInSendEffect, FanInExitEffect
<1>3. CASE DistributorReceive \/ DistributorExit \/ StoreReceive \/ StorePrice
  BY <1>3, DistributorReceiveEffect, DistributorExitEffect, StoreReceiveEffect,
     StorePriceEffect
<1>4. ASSUME NEW w \in Workers, WorkerReceive(w) \/ WorkerSend(w) \/ WorkerExit(w)
      PROVE  Effect /\ ChannelsDistinct'
  BY <1>4, WorkerReceiveEffect, WorkerSendEffect, WorkerExitEffect
<1> QED
  BY <1>1, <1>2, <1>3, <1>4, ControlEffect DEF Next
-----------------------------------------------------------------------------
(***************************************************************************)
(* From here on only movements count.                                      *)
(***************************************************************************)

(* The keys of what is written or given up.                                *)
LEMMA EndedKeys ==
  /\ Keys(stored \cup lost) = Keys(stored) \cup Keys(lost)
  /\ Keys(stored' \cup lost') = Keys(stored') \cup Keys(lost')
BY KeysOfBoth

(* An update in flight is at one place only: when it leaves that, it is in *)
(* flight no more.                                                         *)
LEMMA LeavesFlight ==
  ASSUME OnePlace, NEW k, NEW p \in Places, Leaves(k, p)
  PROVE  /\ OnePlace'
         /\ k \in InFlight
         /\ \A j : j \in InFlight' <=> j \in InFlight /\ j # k
<1>1. OnePlace'
  BY DEF OnePlace, Leaves
<1>2. k \in InFlight
  BY InFlightPlaces DEF Leaves
<1>3. ASSUME NEW j, j \in InFlight'
      PROVE  j \in InFlight /\ j # k
  BY <1>3, InFlightPlaces DEF Leaves, OnePlace
<1>4. ASSUME NEW j, j \in InFlight, j # k
      PROVE  j \in InFlight'
  <2>1. PICK q \in Places : j \in At(q)
    BY <1>4, InFlightPlaces
  <2>2. j \in At(q)'
    BY <1>4, <2>1 DEF Leaves
  <2> QED
    BY <2>2, InFlightPlaces
<1> QED
  BY <1>1, <1>2, <1>3, <1>4

(* An update that moves stays in flight, at one place.                     *)
LEMMA MovesFlight ==
  ASSUME OnePlace, NEW k, NEW p \in Places, NEW q \in Places, p # q, Moves(k, p, q)
  PROVE  /\ OnePlace'
         /\ \A j : j \in InFlight' <=> j \in InFlight
<1>1. OnePlace'
  <2> SUFFICES ASSUME NEW r \in Places, NEW s \in Places, r # s,
                      NEW j, j \in At(r)', j \in At(s)'
               PROVE  FALSE
    BY DEF OnePlace
  <2> QED
    BY DEF OnePlace, Moves
<1>2. ASSUME NEW j, j \in InFlight'
      PROVE  j \in InFlight
  BY <1>2, InFlightPlaces DEF Moves
<1>3. ASSUME NEW j, j \in InFlight
      PROVE  j \in InFlight'
  <2>1. PICK r \in Places : j \in At(r)
    BY <1>3, InFlightPlaces
  <2>2. j \in At(r)' \/ j \in At(q)'
    BY <2>1 DEF Moves
  <2> QED
    BY <2>2, InFlightPlaces
<1> QED
  BY <1>1, <1>2, <1>3

(* An update that arrives was nowhere, and is at one place.                *)
LEMMA ArrivesFlight ==
  ASSUME OnePlace, NEW k, NEW p \in Places, k \notin InFlight, Arrives(k, p)
  PROVE  /\ OnePlace'
         /\ \A j : j \in InFlight' <=> j \in InFlight \/ j = k
<1>1. \A r \in Places : k \notin At(r)
  BY InFlightPlaces
<1>2. OnePlace'
  <2> SUFFICES ASSUME NEW r \in Places, NEW s \in Places, r # s,
                      NEW j, j \in At(r)', j \in At(s)'
               PROVE  FALSE
    BY DEF OnePlace
  <2> QED
    BY <1>1 DEF OnePlace, Arrives
<1>3. ASSUME NEW j, j \in InFlight'
      PROVE  j \in InFlight \/ j = k
  BY <1>3, InFlightPlaces DEF Arrives
<1>4. ASSUME NEW j, j \in InFlight \/ j = k
      PROVE  j \in InFlight'
  BY <1>4, InFlightPlaces DEF Arrives
<1> QED
  BY <1>2, <1>3, <1>4

(* Without a movement nothing changes.                                     *)
LEMMA StaysFlight ==
  ASSUME OnePlace, Stays
  PROVE  OnePlace' /\ \A j : j \in InFlight' <=> j \in InFlight
BY InFlightPlaces DEF OnePlace, Stays

(* Every movement keeps the account.                                       *)
LEMMA MovementAccounted ==
  ASSUME AccountInv, Effect
  PROVE  OnePlace' /\ AllReported' /\ Accounted'
<1> USE DEF AccountInv, AllReported, Accounted
<1>0. UNCHANGED fed => Reports' = Reports
  BY DEF Reports
<1>1. ASSUME NEW k \in Item, NEW p \in Places, Taken(k, p)
      PROVE  OnePlace' /\ AllReported' /\ Accounted'
  <2>1. k \notin InFlight
    BY <1>1 DEF Taken, NewReport
  <2>2. OnePlace' /\ \A j : j \in InFlight' <=> j \in InFlight \/ j = k
    BY <1>1, <2>1, ArrivesFlight DEF Taken
  <2> QED
    BY <1>1, <2>1, <2>2, EndedKeys DEF Taken, NewReport, SameEnds
<1>2. ASSUME NEW k \in Item, Refused(k)
      PROVE  OnePlace' /\ AllReported' /\ Accounted'
  <2>1. OnePlace' /\ \A j : j \in InFlight' <=> j \in InFlight
    BY <1>2, StaysFlight DEF Refused
  <2> QED
    BY <1>2, <2>1, EndedKeys DEF Refused, NewReport, Lost
<1>3. ASSUME NEW k \in Item, NEW p \in Places, NEW q \in Places, Passed(k, p, q)
      PROVE  OnePlace' /\ AllReported' /\ Accounted'
  <2>1. OnePlace' /\ \A j : j \in InFlight' <=> j \in InFlight
    BY <1>3, MovesFlight DEF Passed
  <2> QED
    BY <1>0, <1>3, <2>1, EndedKeys DEF Passed, SameInput, SameEnds
<1>4. ASSUME NEW k \in Item, NEW p \in Places,
             Dropped(k, p) \/ Written(k, p) \/ Abandoned(k, p)
      PROVE  OnePlace' /\ AllReported' /\ Accounted'
  <2>1. /\ OnePlace' /\ k \in InFlight
        /\ \A j : j \in InFlight' <=> j \in InFlight /\ j # k
    BY <1>4, LeavesFlight DEF Dropped, Written, Abandoned
  <2>2. CASE Dropped(k, p)
    BY <1>0, <2>1, <2>2, EndedKeys DEF Dropped, SameInput, Lost
  <2>3. CASE Written(k, p)
    BY <1>0, <2>1, <2>3, EndedKeys DEF Written, SameInput, Stored
  <2>4. CASE Abandoned(k, p)
    BY <1>0, <2>1, <2>4, EndedKeys DEF Abandoned, SameInput, SameEnds
  <2> QED
    BY <1>4, <2>2, <2>3, <2>4
<1>5. CASE Ended \/ Nothing
  <2>1. OnePlace' /\ \A j : j \in InFlight' <=> j \in InFlight
    BY <1>5, StaysFlight DEF Ended, Nothing
  <2> QED
    BY <1>0, <1>5, <2>1, EndedKeys DEF Ended, Nothing, SameInput, SameEnds
<1> QED
  BY <1>1, <1>2, <1>3, <1>4, <1>5 DEF Effect

(* Every movement is a step of the lossy relay, or no step of it.          *)
LEMMA MovementRelays ==
  ASSUME AccountInv, Effect
  PROVE  [Relay!Next]_(Relay!vars)
<1> USE DEF AccountInv, AllReported
<1>0. UNCHANGED fed => Reports' = Reports
  BY DEF Reports
<1>1. ASSUME NEW k \in Item, NEW p \in Places, Taken(k, p)
      PROVE  Relay!Accept(k)
  <2>1. k \notin InFlight
    BY <1>1 DEF Taken, NewReport
  <2>2. InFlight' = InFlight \cup {k}
    BY <1>1, <2>1, ArrivesFlight DEF Taken
  <2> QED
    BY <1>1, <2>2 DEF Taken, NewReport, SameEnds, Relay!Accept
<1>2. ASSUME NEW k \in Item, Refused(k)
      PROVE  Relay!Refuse(k)
  <2>1. InFlight' = InFlight
    BY <1>2, StaysFlight DEF Refused
  <2> QED
    BY <1>2, <2>1 DEF Refused, NewReport, Lost, Relay!Refuse
<1>3. ASSUME NEW k \in Item, NEW p \in Places, NEW q \in Places, Passed(k, p, q)
      PROVE  UNCHANGED Relay!vars
  <2>1. InFlight' = InFlight
    BY <1>3, MovesFlight DEF Passed
  <2> QED
    BY <1>0, <1>3, <2>1 DEF Passed, SameInput, SameEnds, Relay!vars
<1>4. ASSUME NEW k \in Item, NEW p \in Places,
             Dropped(k, p) \/ Written(k, p) \/ Abandoned(k, p)
      PROVE  Relay!GiveUp(k) \/ Relay!Deliver(k)
  <2>1. k \in InFlight /\ InFlight' = InFlight \ {k}
    <3>1. /\ k \in InFlight
          /\ \A j : j \in InFlight' <=> j \in InFlight /\ j # k
      BY <1>4, LeavesFlight DEF Dropped, Written, Abandoned
    <3> QED
      BY <3>1
  <2>2. CASE Dropped(k, p) \/ Abandoned(k, p)
    BY <1>0, <2>1, <2>2
       DEF Dropped, Abandoned, SameInput, Lost, SameEnds, Relay!GiveUp
  <2>3. CASE Written(k, p)
    BY <1>0, <2>1, <2>3 DEF Written, SameInput, Stored, Relay!Deliver
  <2> QED
    BY <1>4, <2>2, <2>3
<1>5. CASE Ended \/ Nothing
  <2>1. InFlight' = InFlight
    BY <1>5, StaysFlight DEF Ended, Nothing
  <2> QED
    BY <1>0, <1>5, <2>1
       DEF Ended, Nothing, SameInput, SameEnds, Relay!Stop, Relay!Next, Relay!vars
<1>6. Item = Exchanges \X (1 .. MaxUpdates)
  BY DEF Item
<1> QED
  BY <1>1, <1>2, <1>3, <1>4, <1>5, <1>6 DEF Effect, Relay!Next

(* A new pipeline is empty.                                                *)
LEMMA NewIsEmpty ==
  ASSUME Init
  PROVE  /\ AccountInv
         /\ Relay!Init
<1>1. \A p \in Places : At(p) = {}
  BY HeldKeys DEF Init, Places, At, KeysIn, Keys, Range
<1>2. ChannelsDistinct
  BY DEF Init, ChannelsDistinct, NoRepeat
<1>3. InFlight = {}
  BY <1>1, InFlightPlaces
<1>4. Reports = {} /\ Keys(stored) = {} /\ Keys(lost) = {} /\ Keys(stored \cup lost) = {}
  BY DEF Init, Reports, Keys
<1> QED
  BY <1>1, <1>2, <1>3, <1>4
     DEF Init, AccountInv, OnePlace, AllReported, Accounted, Relay!Init

(* The account is inductive with the types.                                *)
LEMMA AccountStep ==
  ASSUME TypeOK, AccountInv, [Next]_vars
  PROVE  AccountInv'
BY StepEffect, MovementAccounted DEF AccountInv

(***************************************************************************)
(* Until the context is done every update an exchange reported is in       *)
(* flight, written to Redis or knowingly given up, and at no time is it    *)
(* two of these: none reaches the cache twice and none vanishes unseen     *)
(* (fanIn, distributor, worker, processMarketData).                        *)
(***************************************************************************)
THEOREM AccountKept == Spec => []Accounted
<1>1. Init => AccountInv
  BY NewIsEmpty
<1>2. TypeOK /\ AccountInv /\ [Next]_vars => AccountInv'
  BY AccountStep
<1>3. AccountInv => Accounted
  BY DEF AccountInv
<1> QED
  BY <1>1, <1>2, <1>3, TypeCorrect, PTL DEF Spec

(***************************************************************************)
(* The pipeline implements the lossy relay: its initial states are initial *)
(* states of LossyRelay and its steps are steps of it or leave it alone,   *)
(* through every stage from the adapters to the cache.  (That the relay's  *)
(* items settle in the end, FairSpec, is left to TLC.)                     *)
(***************************************************************************)
THEOREM ImplementsRelay == Spec => Relay!Spec
<1>1. Init => AccountInv /\ Relay!Init
  BY NewIsEmpty
<1>2. TypeOK /\ AccountInv /\ [Next]_vars => AccountInv'
  BY AccountStep
<1>3. TypeOK /\ AccountInv /\ [Next]_vars => [Relay!Next]_(Relay!vars)
  BY StepEffect, MovementRelays
<1> QED
  BY <1>1, <1>2, <1>3, TypeCorrect, PTL DEF Spec, Relay!Spec
=============================================================================
