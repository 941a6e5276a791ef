--------------------------- MODULE ExchangeService ---------------------------
(***************************************************************************)
(* The control side of the exchange service: its two locks, the mode and   *)
(* the active adapters, StartDataProcessing and the mode switches, driven  *)
(* by their callers in the program: the start-up goroutine                 *)
(* (startMarketDataProcessor), the HTTP handlers of /mode/test and         *)
(* /mode/live, and those of /mode/current and /health, which only read.    *)
(*                                                                         *)
(* What flows while the service runs is in MarketPipeline, what an adapter *)
(* does between its own steps in ExchangeAdapter: here an adapter only     *)
(* runs or not, and its channels are open or closed for ever.              *)
(***************************************************************************)
EXTENDS Integers, Sequences, Functions

CONSTANTS
  Handlers,     \* the goroutines that may serve /mode/test and /mode/live
  Observers,    \* the goroutines that may serve /mode/current and /health
  Processor,    \* the goroutine of startMarketDataProcessor
  Free,         \* "no holder" of a mutex
  NumAdapters,  \* adapters per mode, 3 in the code
  MaxRequests   \* bound: how many switch requests arrive

Callers == Handlers \cup {Processor}

ASSUME ServiceAssumption ==
  /\ NumAdapters \in Nat \ {0}
  /\ MaxRequests \in Nat
  /\ Processor \notin Handlers
  /\ Free \notin Callers

VARIABLES
  currentMode,    \* "live" or "test"
  activeAdapters, \* the mode whose adapters the slice e.activeAdapters holds
  modeMutex,      \* who holds modeMutex for writing
  modeReaders,    \* the observers that hold it for reading
  runMutex,       \* who holds runMutex for writing
  isRunning,
  ctx,            \* e.ctx: whose context it is a child of, 0 for app.ctx and
                  \* Background, k for the context of the k-th request
  open,           \* the requests whose context is not done
  running,        \* running[a]: isRunning of adapter a
  stopped,        \* stopped[a]: a's stopChan and dataChan are closed
  pc, target,     \* per caller: its next step, the mode it switches to,
  req,            \* the number of its request, 0 for app.ctx,
  was,            \* wasRunning,
  todo,           \* the adapters its loop has not reached,
  inputs,         \* and inputChannels, as the adapters they came from
  requests,       \* how many requests arrived
  overlapped,     \* history: a request arrived before start-up was over
  stopPanicked    \* history: an adapter's Stop panicked

serviceVars == <<currentMode, activeAdapters, isRunning, ctx>>
lockVars    == <<modeMutex, modeReaders, runMutex>>
adapterVars == <<running, stopped>>
callVars    == <<pc, target, req, was, todo, inputs>>
worldVars   == <<open, requests, overlapped, stopPanicked>>

vars == <<serviceVars, lockVars, adapterVars, callVars, worldVars>>
-----------------------------------------------------------------------------
Modes == {"live", "test"}
Adapters == Modes \X (1 .. NumAdapters)

(* The slices liveAdapters and testAdapters.                               *)
\* mistake: one adapter too many.
AdaptersOffByOne(m) == [i \in 1 .. NumAdapters + 1 |-> <<m, i>>]
AdaptersOf(m) == [i \in 1 .. NumAdapters |-> <<m, i>>]

StartupOver == pc[Processor] \in {"done", "failed", "panicked"}

(* A context derived from that of request k is done once the handler       *)
(* returned or its 30 s are over; app.ctx is never done while the program  *)
(* runs.                                                                   *)
CtxDone(k) == k # 0 /\ k \notin open

Init ==
  /\ currentMode = "live"
  /\ activeAdapters = "live"
  /\ modeMutex = Free
  /\ modeReaders = {}
  /\ runMutex = Free
  /\ isRunning = FALSE
  /\ ctx = 0
  /\ open = {}
  /\ running = [a \in Adapters |-> FALSE]
  /\ stopped = [a \in Adapters |-> FALSE]
  /\ pc = [c \in Callers |-> IF c = Processor THEN "lock" ELSE "idle"]
  /\ target = [c \in Callers |-> "live"]
  /\ req = [c \in Callers |-> 0]
  /\ was = [c \in Callers |-> FALSE]
  /\ todo = [c \in Callers |-> <<>>]
  /\ inputs = [c \in Callers |-> {}]
  /\ requests = 0
  /\ overlapped = FALSE
  /\ stopPanicked = FALSE
-----------------------------------------------------------------------------
Goto(c, label) == pc' = [pc EXCEPT ![c] = label]

(* The call of c returns: r is "ok", "error" or "panic".  A handler goes   *)
(* on to its response; the processor goes on to next, gives up on an error *)
(* and takes the program down if it panics.                                *)
Return(c, r, next) ==
  Goto(c, IF c = Processor
          THEN [ok |-> next, error |-> "failed", panic |-> "panicked"][r]
          ELSE "respond")

(* Switch's return, with its deferred unlock.                              *)
\* mistake: an early return leaves modeMutex locked.
ReturnLocked(c, r) ==
  /\ modeMutex' = IF r = "ok" THEN Free ELSE modeMutex
  /\ Return(c, r, "startLock")

ReturnFromSwitch(c, r) ==
  /\ modeMutex' = Free
  /\ Return(c, r, "startLock")
-----------------------------------------------------------------------------
(* The handlers.                                                           *)

(* A request for mode m arrives: the handler derives its context.          *)
BeginRequest(h, m) ==
  /\ pc[h] = "idle"
  /\ requests < MaxRequests
  /\ requests' = requests + 1
  /\ open' = open \cup {requests + 1}
  /\ req' = [req EXCEPT ![h] = requests + 1]
  /\ target' = [target EXCEPT ![h] = m]
  /\ overlapped' = (overlapped \/ ~StartupOver)
  /\ Goto(h, "lock")
  /\ UNCHANGED <<serviceVars, lockVars, adapterVars, was, todo, inputs, stopPanicked>>

(* The 30 s of a request are over before its handler is.                   *)
RequestTimeout(h) ==
  /\ pc[h] # "idle"
  /\ req[h] \in open
  /\ open' = open \ {req[h]}
  /\ UNCHANGED <<serviceVars, lockVars, adapterVars, callVars, requests,
                 overlapped, stopPanicked>>

(* The handler writes its response and returns: the deferred cancel.  A    *)
(* panic ends there too, recovered by net/http.  Its locals are gone.      *)
Respond(h) ==
  /\ pc[h] = "respond"
  /\ open' = open \ {req[h]}
  /\ Goto(h, "idle")
  /\ target' = [target EXCEPT ![h] = "live"]
  /\ req' = [req EXCEPT ![h] = 0]
  /\ was' = [was EXCEPT ![h] = FALSE]
  /\ todo' = [todo EXCEPT ![h] = <<>>]
  /\ inputs' = [inputs EXCEPT ![h] = {}]
  /\ UNCHANGED <<serviceVars, lockVars, adapterVars, requests, overlapped,
                 stopPanicked>>
-----------------------------------------------------------------------------
(* SwitchToTestMode and SwitchToLiveMode.                                  *)

(* modeMutex.Lock, and the return when the mode is already there.          *)
SwitchLock(c) ==
  /\ pc[c] = "lock"
  /\ modeMutex = Free
  /\ modeReaders = {}
  /\ \/ /\ currentMode = target[c]
        /\ Return(c, "ok", "startLock")
        /\ UNCHANGED modeMutex
     \/ /\ currentMode # target[c]
        /\ modeMutex' = c
        /\ Goto(c, "readRunning")
  /\ UNCHANGED <<serviceVars, modeReaders, runMutex, adapterVars, target,
                 req, was, todo, inputs, worldVars>>

\* mistake: the loop starts at the second adapter.
SwitchSkipsFirst(c) ==
  /\ pc[c] = "readRunning"
  /\ runMutex = Free
  /\ was' = [was EXCEPT ![c] = isRunning]
  /\ todo' = [todo EXCEPT ![c] = Tail(AdaptersOf(activeAdapters))]
  /\ Goto(c, "stopAdapters")
  /\ UNCHANGED <<serviceVars, lockVars, adapterVars, target, req, inputs,
                 worldVars>>

SwitchReadRunning(c) ==
  /\ pc[c] = "readRunning"
  /\ runMutex = Free
  /\ was' = [was EXCEPT ![c] = isRunning]
  /\ todo' = [todo EXCEPT ![c] = AdaptersOf(activeAdapters)]
  /\ Goto(c, "stopAdapters")
  /\ UNCHANGED <<serviceVars, lockVars, adapterVars, target, req, inputs, worldVars>>

(* stopCurrentAdapters, one adapter: Stop returns at once if the adapter   *)
(* is not running.  Closing the channels of one that was stopped before    *)
(* panics after isRunning was cleared, and the deferred unlock runs.       *)
SwitchStopAdapter(c) ==
  /\ pc[c] = "stopAdapters"
  /\ todo[c] # <<>>
  /\ LET a == Head(todo[c])
     IN  /\ running' = [running EXCEPT ![a] = FALSE]
         /\ stopped' = [stopped EXCEPT ![a] = @ \/ running[a]]
         /\ \/ /\ running[a] => ~stopped[a]
               /\ UNCHANGED <<modeMutex, pc, stopPanicked>>
            \/ /\ running[a] /\ stopped[a]
               /\ ReturnFromSwitch(c, "panic")
               /\ stopPanicked' = TRUE
  /\ todo' = [todo EXCEPT ![c] = Tail(@)]
  /\ UNCHANGED <<serviceVars, modeReaders, runMutex, target, req, was,
                 inputs, open, requests, overlapped>>

SwitchClearRunning(c) ==
  /\ pc[c] = "stopAdapters"
  /\ todo[c] = <<>>
  /\ runMutex = Free
  /\ isRunning' = FALSE
  /\ Goto(c, "setAdapters")
  /\ UNCHANGED <<currentMode, activeAdapters, ctx, lockVars, adapterVars,
                 target, req, was, todo, inputs, worldVars>>

SwitchSetAdapters(c) ==
  /\ pc[c] = "setAdapters"
  /\ activeAdapters' = target[c]
  /\ Goto(c, "setMode")
  /\ UNCHANGED <<currentMode, isRunning, ctx, lockVars, adapterVars, target,
                 req, was, todo, inputs, worldVars>>

(* The mode, then the restart, under modeMutex, if it was running.         *)
\* mistake: wasRunning is not asked.
SwitchAlwaysRestart(c) ==
  /\ pc[c] = "setMode"
  /\ currentMode' = target[c]
  /\ Goto(c, "startLock")
  /\ UNCHANGED <<activeAdapters, isRunning, ctx, lockVars, adapterVars,
                 target, req, was, todo, inputs, worldVars>>

SwitchSetMode(c) ==
  /\ pc[c] = "setMode"
  /\ currentMode' = target[c]
  /\ \/ /\ was[c]
        /\ Goto(c, "startLock")
        /\ UNCHANGED <<modeMutex>>
     \/ /\ ~was[c]
        /\ ReturnFromSwitch(c, "ok")
  /\ UNCHANGED <<activeAdapters, isRunning, ctx, modeReaders, runMutex,
                 adapterVars, target, req, was, todo, inputs, worldVars>>
-----------------------------------------------------------------------------
(* StartDataProcessing, called by a switch or by the processor itself.     *)

(* Its return into whichever of the two called it.                         *)
ReturnFromStart(c, r) ==
  \/ /\ modeMutex = c
     /\ ReturnFromSwitch(c, r)
  \/ /\ modeMutex # c
     /\ Return(c, r, "stream")
     /\ UNCHANGED modeMutex

(* runMutex.Lock, the return when it is running, the new context, and the  *)
(* slice the loop will range over.                                         *)
StartLock(c) ==
  /\ pc[c] = "startLock"
  /\ runMutex = Free
  /\ \/ /\ isRunning
        /\ ReturnFromStart(c, "ok")
        /\ UNCHANGED <<runMutex, ctx, todo, inputs>>
     \/ /\ ~isRunning
        /\ runMutex' = c
        /\ ctx' = req[c]
        /\ todo' = [todo EXCEPT ![c] = AdaptersOf(activeAdapters)]
        /\ inputs' = [inputs EXCEPT ![c] = {}]
        /\ Goto(c, "startAdapters")
        /\ UNCHANGED <<modeMutex>>
  /\ UNCHANGED <<currentMode, activeAdapters, isRunning, modeReaders,
                 adapterVars, target, req, was, worldVars>>

(* One adapter's Start: it hands out its channel if it is running or the   *)
(* connection succeeds; a failed one is logged and left out.               *)
StartAdapter(c) ==
  /\ pc[c] = "startAdapters"
  /\ todo[c] # <<>>
  /\ LET a == Head(todo[c])
     IN  \/ /\ running' = [running EXCEPT ![a] = TRUE]
            /\ inputs' = [inputs EXCEPT ![c] = @ \cup {a}]
         \/ /\ ~running[a]
            /\ UNCHANGED <<running, inputs>>
  /\ todo' = [todo EXCEPT ![c] = Tail(@)]
  /\ UNCHANGED <<serviceVars, lockVars, stopped, pc, target, req, was, worldVars>>

(* No input is an error, otherwise the pipeline's goroutines are started.  *)
\* mistake: no input is no error.
StartWithoutInputs(c) ==
  /\ pc[c] = "startAdapters"
  /\ todo[c] = <<>>
  /\ runMutex' = Free
  /\ inputs' = [inputs EXCEPT ![c] = {}]
  /\ isRunning' = TRUE
  /\ ReturnFromStart(c, "ok")
  /\ UNCHANGED <<currentMode, activeAdapters, ctx, modeReaders, adapterVars,
                 target, req, was, todo, worldVars>>

\* mistake: an early return leaves runMutex locked.
StartFinishLocked(c) ==
  /\ pc[c] = "startAdapters"
  /\ todo[c] = <<>>
  /\ inputs' = [inputs EXCEPT ![c] = {}]
  /\ \/ /\ inputs[c] = {}
        /\ ReturnFromStart(c, "error")
        /\ UNCHANGED <<isRunning, runMutex>>
     \/ /\ inputs[c] # {}
        /\ isRunning' = TRUE
        /\ runMutex' = Free
        /\ ReturnFromStart(c, "ok")
  /\ UNCHANGED <<currentMode, activeAdapters, ctx, modeReaders, adapterVars,
                 target, req, was, todo, worldVars>>

StartFinish(c) ==
  /\ pc[c] = "startAdapters"
  /\ todo[c] = <<>>
  /\ runMutex' = Free
  /\ inputs' = [inputs EXCEPT ![c] = {}]
  /\ \/ /\ inputs[c] = {}
        /\ ReturnFromStart(c, "error")
        /\ UNCHANGED isRunning
     \/ /\ inputs[c] # {}
        /\ isRunning' = TRUE
        /\ ReturnFromStart(c, "ok")
  /\ UNCHANGED <<currentMode, activeAdapters, ctx, modeReaders, adapterVars,
                 target, req, was, todo, worldVars>>
-----------------------------------------------------------------------------
(* The processor takes the data stream and starts its consumer.            *)
GetDataStream ==
  /\ pc[Processor] = "stream"
  /\ Goto(Processor, "done")
  /\ UNCHANGED <<serviceVars, lockVars, adapterVars, target, req, was, todo,
                 inputs, worldVars>>
-----------------------------------------------------------------------------
(* The observers.                                                          *)

\* mistake: it does not take modeMutex.
GetStatsUnlocked(o) ==
  /\ o \notin modeReaders
  /\ runMutex = Free
  /\ modeReaders' = modeReaders \cup {o}
  /\ UNCHANGED <<serviceVars, modeMutex, runMutex, adapterVars, callVars,
                 worldVars>>

(* GetStats takes modeMutex for reading and then waits for runMutex.       *)
GetStatsLock(o) ==
  /\ o \notin modeReaders
  /\ modeMutex = Free
  /\ modeReaders' = modeReaders \cup {o}
  /\ UNCHANGED <<serviceVars, modeMutex, runMutex, adapterVars, callVars,
                 worldVars>>

CanReadStats(o) == o \in modeReaders /\ runMutex = Free

GetStatsRead(o) ==
  /\ CanReadStats(o)
  /\ modeReaders' = modeReaders \ {o}
  /\ UNCHANGED <<serviceVars, modeMutex, runMutex, adapterVars, callVars,
                 worldVars>>
-----------------------------------------------------------------------------
Step(c) ==
  \/ SwitchLock(c)
  \/ SwitchReadRunning(c)
  \/ SwitchStopAdapter(c)
  \/ SwitchClearRunning(c)
  \/ SwitchSetAdapters(c)
  \/ SwitchSetMode(c)
  \/ StartLock(c)
  \/ StartAdapter(c)
  \/ StartFinish(c)

Next ==
  \/ \E h \in Handlers : \/ \E m \in Modes : BeginRequest(h, m)
                         \/ RequestTimeout(h)
                         \/ Respond(h)
  \/ \E c \in Callers : Step(c)
  \/ GetDataStream
  \/ \E o \in Observers : \/ GetStatsLock(o)
                          \/ GetStatsRead(o)

Spec == Init /\ [][Next]_vars

(***************************************************************************)
(* Fairness: the Go scheduler runs every goroutine that can go on, a dial  *)
(* ends (10 s timeout), and Go's mutexes starve nobody: an RWMutex lets no *)
(* new reader in before a waiting writer, and a Mutex waiter is served     *)
(* first after 1 ms.  No request has to arrive, nor any timeout to fire.   *)
(***************************************************************************)
Fairness ==
  /\ \A c \in Callers : SF_vars(Step(c))
  /\ \A h \in Handlers : WF_vars(Respond(h))
  /\ WF_vars(GetDataStream)
  /\ \A o \in Observers : SF_vars(GetStatsRead(o))

FairSpec == Spec /\ Fairness
-----------------------------------------------------------------------------
Labels == {"idle", "lock", "readRunning", "stopAdapters", "setAdapters",
           "setMode", "startLock", "startAdapters", "respond", "stream",
           "done", "failed", "panicked"}

(* Type invariant.                                                         *)
TypeOK ==
  /\ currentMode \in Modes
  /\ activeAdapters \in Modes
  /\ modeMutex \in Callers \cup {Free}
  /\ modeReaders \in SUBSET Observers
  /\ runMutex \in Callers \cup {Free}
  /\ isRunning \in BOOLEAN
  /\ ctx \in Nat
  /\ open \in SUBSET Nat
  /\ running \in [Adapters -> BOOLEAN]
  /\ stopped \in [Adapters -> BOOLEAN]
  /\ pc \in [Callers -> Labels]
  /\ target \in [Callers -> Modes]
  /\ req \in [Callers -> Nat]
  /\ was \in [Callers -> BOOLEAN]
  /\ todo \in [Callers -> Seq(Adapters)]
  /\ inputs \in [Callers -> SUBSET Adapters]
  /\ requests \in Nat
  /\ overlapped \in BOOLEAN
  /\ stopPanicked \in BOOLEAN

(***************************************************************************)
(* Whenever GetStats reads, the adapters it lists are those of the mode it *)
(* reports, although a switch changes the two one after the other          *)
(* (service.go, GetStats and SwitchToTestMode).                            *)
(***************************************************************************)
StatsCoherent ==
  \A o \in Observers : CanReadStats(o) => activeAdapters = currentMode

(***************************************************************************)
(* The start-up goroutine, which nothing recovers, never runs into the     *)
(* second close of an adapter's channels, whatever requests overtake it:   *)
(* no adapter was ever started when it switches to live mode (server.go,   *)
(* startMarketDataProcessor).                                              *)
(***************************************************************************)
StartupNeverPanics == pc[Processor] # "panicked"

(***************************************************************************)
(* When no switch is in progress, only adapters of the current mode run -  *)
(* always, and as the code does it: if no request overtook start-up        *)
(* ("Stop current adapters", service.go).                                  *)
(***************************************************************************)
OnlyActiveAdaptersRun ==
  modeMutex = Free => \A a \in Adapters : running[a] => a[1] = currentMode

OnlyActiveAdaptersRunAfterStartup == ~overlapped => OnlyActiveAdaptersRun

(***************************************************************************)
(* A service that says it is running has an adapter that runs, unless a    *)
(* request overtook start-up or a Stop panicked (isRunning in service.go   *)
(* against isRunning of the adapters).                                     *)
(***************************************************************************)
RunningHasAdapter ==
  isRunning /\ modeMutex = Free /\ ~overlapped /\ ~stopPanicked =>
    \E a \in Adapters : running[a] /\ a[1] = currentMode

(***************************************************************************)
(* A restart that failed is final: once start-up is over and processing    *)
(* has stopped with no restart under way, no sequence of mode switches     *)
(* starts it again (wasRunning, service.go).                               *)
(***************************************************************************)
RestartUnderWay(c) ==
  \/ pc[c] \in {"startLock", "startAdapters"}
  \/ pc[c] \in {"stopAdapters", "setAdapters", "setMode"} /\ was[c]

Ended ==
  /\ StartupOver
  /\ ~isRunning
  /\ \A c \in Callers : ~RestartUnderWay(c)

FailedRestartIsFinal == [][Ended => Ended']_vars

(***************************************************************************)
(* However handlers, start-up and observers hold and wait for the two      *)
(* locks, and whatever failed or panicked before: while a call is inside   *)
(* the service somebody is not waiting for a lock (GetStats takes          *)
(* modeMutex, then runMutex; a switch holds modeMutex while it waits for   *)
(* runMutex or dials under both).                                          *)
(***************************************************************************)
InService(c) ==
  pc[c] \in {"lock", "readRunning", "stopAdapters", "setAdapters", "setMode",
            "startLock", "startAdapters"}

WaitsForMode(c) == pc[c] = "lock" /\ (modeMutex # Free \/ modeReaders # {})

WaitsForRun(c) ==
  /\ \/ pc[c] \in {"readRunning", "startLock"}
     \/ pc[c] = "stopAdapters" /\ todo[c] = <<>>
  /\ runMutex # Free

NoDeadlock ==
  modeReaders # {} \/ (\E c \in Callers : InService(c)) =>
    \/ \E c \in Callers : InService(c) /\ ~WaitsForMode(c) /\ ~WaitsForRun(c)
    \/ \E o \in Observers : CanReadStats(o)

(***************************************************************************)
(* Every request is answered and start-up comes to an end: no order of the *)
(* two locks blocks a caller for ever, not even after a panic under        *)
(* modeMutex.                                                              *)
(***************************************************************************)
EveryCallReturns ==
  /\ \A h \in Handlers : pc[h] = "lock" ~> pc[h] = "idle"
  /\ <>StartupOver

(***************************************************************************)
(* Processing that a switch restarted goes on after the request ("Restart  *)
(* data processing if it was running", service.go): between requests the   *)
(* context of a running service is not done.                               *)
(***************************************************************************)
Quiet == StartupOver /\ \A h \in Handlers : pc[h] = "idle"

SwitchKeepsProcessing == Quiet /\ isRunning => ~CtxDone(ctx)
=============================================================================
