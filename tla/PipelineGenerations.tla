------------------------- MODULE PipelineGenerations -------------------------
(***************************************************************************)
(* The data path of the exchange service across mode switches.  Each       *)
(* successful StartDataProcessing starts one more generation of fanIn,     *)
(* distributor and workers beside those of the generations before, which a *)
(* switch neither cancels nor waits for: it only stops their adapters.     *)
(* All generations share the fields of the service.  Whenever a goroutine  *)
(* enters a select it reads e.ctx and, in the distributor, e.workerPool    *)
(* anew, so it may wait for the context and send to the workers of a later *)
(* generation; while it waits it keeps what it read.                       *)
(*                                                                         *)
(* One run of the path, stage by stage, is in MarketPipeline, and the      *)
(* locks and callers that lead to a switch are in ExchangeService.  Here a *)
(* mode has one adapter.  StopDataProcessing, which nothing calls while    *)
(* the program runs, is left out.                                          *)
(***************************************************************************)
EXTENDS Integers, Sequences, Functions

CONSTANTS
  NumWorkers,     \* ExchangeService.numWorkers, 15 in the code
  Capacity,       \* of every channel, 100 or 1000 in the code
  MaxGenerations, \* bound: how often StartDataProcessing is entered
  MaxUpdates      \* bound: how many updates the adapters report together

ASSUME GenerationsAssumption ==
  /\ NumWorkers \in Nat \ {0}
  /\ Capacity \in Nat \ {0}
  /\ MaxGenerations \in Nat \ {0}
  /\ MaxUpdates \in Nat

VARIABLES
  generation, \* the latest one: e.ctx is its context
  phase,      \* where StartDataProcessing and the switch around it are
  pool,       \* pool[w]: the generation whose channel e.workerPool[w] is
  done,       \* the generations whose context is done
  fed,        \* fed[m]: how many updates the adapter of mode m sent on
  input,      \* input[m]: that adapter is new, open or closed
  channel,    \* what the channels hold
  routine,    \* the goroutines
  index,      \* index[g]: workerIndex of the distributor of g
  delivered,  \* history: the updates the application took
  lost        \* history: those dropped on a full channel

fieldVars == <<generation, phase, pool>>
inputVars == <<fed, input>>
vars == <<fieldVars, done, inputVars, channel, routine, index, delivered, lost>>
-----------------------------------------------------------------------------
Generations == 1 .. MaxGenerations
Workers == 0 .. NumWorkers - 1

(* The service starts in live mode, and every switch changes it.           *)
Modes == {"live", "test"}
Mode(g) == IF g % 2 = 1 THEN "live" ELSE "test"

Update == Modes \X (1 .. MaxUpdates)

(* The channels.  An adapter's dataChan is made once; aggregatedDataChan   *)
(* and resultChan are those of NewExchangeService; each start makes its    *)
(* workers' channels.                                                      *)
Data(m) == <<"data", m>>
Aggregated == <<"aggregated">>
Worker(g, w) == <<"worker", g, w>>
Result == <<"result">>
Channels == {Data(m) : m \in Modes} \cup {Aggregated, Result}
              \cup {Worker(g, w) : g \in Generations, w \in Workers}

(* The goroutines of a generation, and the channel each receives from.     *)
Roles == {<<"fanIn">>, <<"distributor">>} \cup {<<"worker", w>> : w \in Workers}
Routines == Generations \X Roles

Source(t) ==
  CASE t[2] = <<"fanIn">>       -> Data(Mode(t[1]))
    [] t[2] = <<"distributor">> -> Aggregated
    [] OTHER                    -> Worker(t[1], t[2][2])

(* The channel it finds when it is about to send.                          *)
Target(t) ==
  CASE t[2] = <<"fanIn">>       -> Aggregated
    [] t[2] = <<"distributor">> -> Worker(pool[index[t[1]]], index[t[1]])
    [] OTHER                    -> Result

Absent == [pc |-> "absent"]
Looping == [pc |-> "loop"]
Exited == [pc |-> "exited"]

Init ==
  /\ generation = 0
  /\ phase = "start"
  /\ pool = [w \in Workers |-> 0]
  /\ done = {}
  /\ fed = [m \in Modes |-> 0]
  /\ input = [m \in Modes |-> "new"]
  /\ channel = [c \in Channels |-> <<>>]
  /\ routine = [t \in Routines |-> Absent]
  /\ index = [g \in Generations |-> 0]
  /\ delivered = {}
  /\ lost = {}
-----------------------------------------------------------------------------
(* StartDataProcessing, under runMutex.  The start-up goroutine calls it   *)
(* first, every later call is a switch's.                                  *)

(* e.ctx becomes a child of the caller's context.                          *)
StartContext ==
  /\ phase = "start"
  /\ generation < MaxGenerations
  /\ generation' = generation + 1
  /\ phase' = "pool"
  /\ UNCHANGED <<pool, done, inputVars, channel, routine, index, delivered, lost>>

(* The channels of the workers, in the order of the loop.                  *)
\* mistake: aggregatedDataChan is made anew as well.
StartAllChannels(w) ==
  /\ phase = "pool"
  /\ pool[w] # generation
  /\ \A v \in Workers : v < w => pool[v] = generation
  /\ pool' = [pool EXCEPT ![w] = generation]
  /\ phase' = IF w = NumWorkers - 1 THEN "adapters" ELSE phase
  /\ channel' = [channel EXCEPT ![Aggregated] = <<>>]
  /\ UNCHANGED <<generation, done, inputVars, routine, index, delivered, lost>>

\* mistake: what the old worker has not taken is copied to the new one.
StartPoolCopying(w) ==
  /\ phase = "pool"
  /\ pool[w] # generation
  /\ \A v \in Workers : v < w => pool[v] = generation
  /\ pool' = [pool EXCEPT ![w] = generation]
  /\ phase' = IF w = NumWorkers - 1 THEN "adapters" ELSE phase
  /\ channel' = IF generation = 1 THEN channel
                ELSE [channel EXCEPT ![Worker(generation, w)] =
                        channel[Worker(pool[w], w)]]
  /\ UNCHANGED <<generation, done, inputVars, routine, index, delivered, lost>>

StartPool(w) ==
  /\ phase = "pool"
  /\ pool[w] # generation
  /\ \A v \in Workers : v < w => pool[v] = generation
  /\ pool' = [pool EXCEPT ![w] = generation]
  /\ phase' = IF w = NumWorkers - 1 THEN "adapters" ELSE phase
  /\ UNCHANGED <<generation, done, inputVars, channel, routine, index,
                 delivered, lost>>

(* adapter.Start: one that was stopped before hands out its closed         *)
(* channel.  When it fails there is no input, which is an error, and the   *)
(* service stays off: no later switch finds it running.                    *)
StartAdapter ==
  /\ phase = "adapters"
  /\ \/ /\ input' = [input EXCEPT ![Mode(generation)] =
                       IF @ = "new" THEN "open" ELSE @]
        /\ phase' = "spawn"
     \/ /\ phase' = "off"
        /\ UNCHANGED input
  /\ UNCHANGED <<generation, pool, done, fed, channel, routine, index,
                 delivered, lost>>

StartSpawn ==
  /\ phase = "spawn"
  /\ phase' = "running"
  /\ routine' = [t \in Routines |-> IF t[1] = generation THEN Looping ELSE routine[t]]
  /\ UNCHANGED <<generation, pool, done, inputVars, channel, index,
                 delivered, lost>>

(* A switch stops the adapter of the mode it leaves; the restart follows.  *)
SwitchStopAdapter ==
  /\ phase = "running"
  /\ generation < MaxGenerations
  /\ phase' = "start"
  /\ input' = [input EXCEPT ![Mode(generation)] = "closed"]
  /\ UNCHANGED <<generation, pool, done, fed, channel, routine, index,
                 delivered, lost>>

(* The context of a switch is done when its handler returned or its 30 s   *)
(* are over, before or after the next switch.  That of start-up is app.ctx *)
(* and never done.                                                         *)
\* mistake: the pipeline runs under a context that nobody ends.
Endless(g) == TRUE
OfStartup(g) == g = 1

RequestPending(g) == g <= generation /\ g \notin done /\ ~OfStartup(g)

EndRequest(g) ==
  /\ RequestPending(g)
  /\ done' = done \cup {g}
  /\ UNCHANGED <<fieldVars, inputVars, channel, routine, index, delivered, lost>>
-----------------------------------------------------------------------------
(* The adapter's reader.                                                   *)

Publish(m) ==
  /\ input[m] = "open"
  /\ fed["live"] + fed["test"] < MaxUpdates
  /\ fed' = [fed EXCEPT ![m] = @ + 1]
  /\ LET u == <<m, fed[m] + 1>>
     IN  IF Len(channel[Data(m)]) < Capacity
         THEN /\ channel' = [channel EXCEPT ![Data(m)] = Append(@, u)]
              /\ UNCHANGED lost
         ELSE /\ lost' = lost \cup {u}
              /\ UNCHANGED channel
  /\ UNCHANGED <<fieldVars, done, input, routine, index, delivered>>
-----------------------------------------------------------------------------
(* One round of a goroutine t: it enters the outer select, receives,       *)
(* enters the inner select and sends.                                      *)

EnterReceive(t) ==
  /\ routine[t] = Looping
  /\ routine' = [routine EXCEPT ![t] = [pc |-> "receive", ctx |-> generation]]
  /\ UNCHANGED <<fieldVars, done, inputVars, channel, index, delivered, lost>>

Receive(t) ==
  /\ routine[t].pc = "receive"
  /\ channel[Source(t)] # <<>>
  /\ routine' = [routine EXCEPT ![t] =
                   [pc |-> "received", item |-> Head(channel[Source(t)])]]
  /\ channel' = [channel EXCEPT ![Source(t)] = Tail(@)]
  /\ UNCHANGED <<fieldVars, done, inputVars, index, delivered, lost>>

EnterSend(t) ==
  /\ routine[t].pc = "received"
  /\ routine' = [routine EXCEPT ![t] =
                   [pc |-> "send", item |-> routine[t].item,
                    ctx |-> generation, to |-> Target(t)]]
  /\ UNCHANGED <<fieldVars, done, inputVars, channel, index, delivered, lost>>

(* The distributor turns to the next worker, dropped or not.               *)
\* mistake: the index is not wrapped.
MoveOnUnwrapped(t) ==
  index' = IF t[2] = <<"distributor">>
           THEN [index EXCEPT ![t[1]] = @ + 1] ELSE index

MoveOn(t) ==
  index' = IF t[2] = <<"distributor">>
           THEN [index EXCEPT ![t[1]] = (@ + 1) % NumWorkers] ELSE index

Send(t) ==
  /\ routine[t].pc = "send"
  /\ routine' = [routine EXCEPT ![t] = Looping]
  /\ MoveOn(t)
  /\ LET to == routine[t].to
     IN  IF Len(channel[to]) < Capacity
         THEN /\ channel' = [channel EXCEPT ![to] = Append(@, routine[t].item)]
              /\ UNCHANGED lost
         ELSE /\ lost' = lost \cup {routine[t].item}
              /\ UNCHANGED channel
  /\ UNCHANGED <<fieldVars, done, inputVars, delivered>>

(* It returns in either select when the context it waits for is done, and  *)
(* fanIn when its input is closed and drained.                             *)
MayExit(t) ==
  \/ routine[t].pc \in {"receive", "send"} /\ routine[t].ctx \in done
  \/ /\ routine[t].pc = "receive"
     /\ t[2] = <<"fanIn">>
     /\ input[Mode(t[1])] = "closed"
     /\ channel[Source(t)] = <<>>

Exit(t) ==
  /\ MayExit(t)
  /\ routine' = [routine EXCEPT ![t] = Exited]
  /\ UNCHANGED <<fieldVars, done, inputVars, channel, index, delivered, lost>>

(* The application's processMarketData, which took resultChan at start-up. *)
Store ==
  /\ channel[Result] # <<>>
  /\ channel' = [channel EXCEPT ![Result] = Tail(@)]
  /\ delivered' = delivered \cup {Head(channel[Result])}
  /\ UNCHANGED <<fieldVars, done, inputVars, routine, index, lost>>
-----------------------------------------------------------------------------
Control ==
  \/ StartContext
  \/ \E w \in Workers : StartPool(w)
  \/ StartAdapter
  \/ StartSpawn

Step(t) ==
  \/ EnterReceive(t)
  \/ Receive(t)
  \/ EnterSend(t)
  \/ Send(t)
  \/ Exit(t)

Next ==
  \/ Control
  \/ SwitchStopAdapter
  \/ \E g \in Generations : EndRequest(g)
  \/ \E m \in Modes : Publish(m)
  \/ \E t \in Routines : Step(t)
  \/ Store

Spec == Init /\ [][Next]_vars

-----------------------------------------------------------------------------
Routine ==
  {Absent, Looping, Exited}
    \cup [pc : {"receive"}, ctx : Generations]
    \cup [pc : {"received"}, item : Update]
    \cup [pc : {"send"}, item : Update, ctx : Generations, to : Channels]

(* Type invariant.                                                         *)
TypeOK ==
  /\ generation \in 0 .. MaxGenerations
  /\ phase \in {"start", "pool", "adapters", "spawn", "running", "off"}
  /\ pool \in [Workers -> 0 .. MaxGenerations]
  /\ done \in SUBSET Generations
  /\ fed \in [Modes -> 0 .. MaxUpdates]
  /\ input \in [Modes -> {"new", "open", "closed"}]
  /\ channel \in [Channels -> Seq(Update)]
  /\ routine \in [Routines -> Routine]
  /\ index \in [Generations -> Workers]
  /\ delivered \in SUBSET Update
  /\ lost \in SUBSET Update

(* Where an update is.                                                     *)
Holds(t) ==
  IF routine[t].pc \in {"received", "send"} THEN {routine[t].item} ELSE {}
InFlight ==
  (UNION {Range(channel[c]) : c \in Channels}) \cup (UNION {Holds(t) : t \in Routines})
Reports == UNION {{<<m, n>> : n \in 1 .. fed[m]} : m \in Modes}

(***************************************************************************)
(* A switch by itself loses nothing: the goroutines of two generations at  *)
(* work on the same channels account for every update, also those that an  *)
(* old distributor hands to new workers and those an old worker had before *)
(* the switch, until the first context is done (StartDataProcessing,       *)
(* service.go, which keeps aggregatedDataChan and resultChan).             *)
(***************************************************************************)
SwitchLosesNothing ==
  /\ InFlight \cap (delivered \cup lost) = {}
  /\ delivered \cap lost = {}
  /\ done = {} => Reports = InFlight \cup delivered \cup lost

(***************************************************************************)
(* What a switch starts does not pile up: whenever everything that can go  *)
(* on has gone on, every goroutine of a later generation has returned, and *)
(* those of the first that stay for ever, because they wait under app.ctx, *)
(* hold no update (service.go, the case <-e.ctx.Done() of every select).   *)
(***************************************************************************)
StartGoesOn ==
  \/ phase \in {"pool", "adapters", "spawn"}
  \/ phase = "start" /\ generation < MaxGenerations

GoesOn(t) ==
  \/ routine[t].pc \in {"loop", "received", "send"}
  \/ routine[t].pc = "receive" /\ channel[Source(t)] # <<>>
  \/ MayExit(t)

AtRest ==
  /\ ~StartGoesOn
  /\ \A g \in Generations : ~RequestPending(g)
  /\ \A t \in Routines : ~GoesOn(t)
  /\ channel[Result] = <<>>

OnlyStartupLingers ==
  AtRest => \A t \in Routines : /\ t[1] > 1 => routine[t] \in {Absent, Exited}
                                /\ Holds(t) = {}

(***************************************************************************)
(* Across switches the path stays the lossy relay it is in one run: the    *)
(* goroutines of two generations at work on the same channels deliver no   *)
(* update twice (LossyRelay; service.go, StartDataProcessing).             *)
(***************************************************************************)
Relay == INSTANCE LossyRelay WITH
           Item <- Update, offered <- Reports, inFlight <- InFlight,
           delivered <- delivered, stopped <- done # {}

RelaysAcrossSwitches == Relay!Spec
=============================================================================
