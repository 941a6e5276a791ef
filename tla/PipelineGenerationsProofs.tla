---------------------- MODULE PipelineGenerationsProofs ----------------------
(***************************************************************************)
(* Proofs about PipelineGenerations, for any number of workers,            *)
(* generations and updates and any capacity of the channels: the types,    *)
(* with what a start keeps of the fields it writes; that no goroutine of a *)
(* switch stays behind; and that the generations together relay each       *)
(* update at most once.                                                    *)
(***************************************************************************)
EXTENDS PipelineGenerations, TLAPS

(***************************************************************************)
(* What a start keeps: the goroutines there are belong to generations that *)
(* were started, and those of the latest one are there only once its start *)
(* is through; the pool points to the latest workers, or while it is being *)
(* renewed to those before; and a goroutine waits for the context of its   *)
(* own generation or of a later one.                                       *)
(***************************************************************************)
Alive(t) == routine[t] # Absent

StartInv ==
  /\ \A t \in Routines : Alive(t) =>
       /\ t[1] <= generation
       /\ t[1] = generation => phase \in {"running", "start"}
  /\ phase # "start" => generation >= 1
  /\ \A w \in Workers :
       IF phase = "pool" THEN pool[w] \in {generation - 1, generation}
       ELSE pool[w] = generation

WaitsForOwn ==
  \A t \in Routines :
    routine[t].pc \in {"receive", "send"} => routine[t].ctx \in t[1] .. generation

(***************************************************************************)
(* The places an update can be at: in a channel, or in the hands of a      *)
(* goroutine.                                                              *)
(***************************************************************************)
Places == ({"in"} \X Channels) \cup ({"at"} \X Routines)

At(p) == IF p[1] = "in" THEN Range(channel[p[2]]) ELSE Holds(p[2])

(* A channel that holds no update twice.                                   *)
NoRepeat(s) == \A i, j \in DOMAIN s : s[i] = s[j] => i = j

ChannelsDistinct == \A c \in Channels : NoRepeat(channel[c])

OnePlace == \A p, q \in Places : p # q => At(p) \cap At(q) = {}

AllReported == InFlight \cup delivered \cup lost \subseteq Reports

AccountInv == ChannelsDistinct /\ OnePlace /\ AllReported /\ SwitchLosesNothing

(***************************************************************************)
(* What a step can do to update u: it moves from p to q, it leaves p, it   *)
(* arrives at p; or no update goes anywhere.                               *)
(***************************************************************************)
Moves(u, p, q) ==
  /\ u \in At(p)
  /\ \A r \in Places : At(r)' = IF r = p THEN At(p) \ {u}
                                ELSE IF r = q THEN At(q) \cup {u} ELSE At(r)

Leaves(u, p) ==
  /\ u \in At(p)
  /\ \A r \in Places : At(r)' = IF r = p THEN At(p) \ {u} ELSE At(r)

Arrives(u, p) ==
  \A r \in Places : At(r)' = IF r = p THEN At(p) \cup {u} ELSE At(r)

Stays == \A r \in Places : At(r)' = At(r)

SameEnds == UNCHANGED <<delivered, lost>>
Lost(u) == lost' = lost \cup {u} /\ UNCHANGED delivered

SameInput == UNCHANGED <<fed, done>>
NewReport(u) == u \notin Reports /\ Reports' = Reports \cup {u} /\ UNCHANGED done

(* What becomes of an update in a step.                                    *)
Taken(u, p)     == NewReport(u) /\ Arrives(u, p) /\ SameEnds
Refused(u)      == NewReport(u) /\ Stays /\ Lost(u)
Passed(u, p, q) == SameInput /\ p # q /\ Moves(u, p, q) /\ SameEnds
Dropped(u, p)   == SameInput /\ Leaves(u, p) /\ Lost(u)
Stored(u, p)    == /\ SameInput /\ Leaves(u, p)
                   /\ delivered' = delivered \cup {u} /\ UNCHANGED lost
Abandoned(u, p) == SameInput /\ done # {} /\ Leaves(u, p) /\ SameEnds
RequestEnded    == UNCHANGED fed /\ done' # {} /\ Stays /\ SameEnds
Nothing         == SameInput /\ Stays /\ SameEnds

(* Every step is one of these (StepEffect).                                *)
Effect ==
  \/ \E u \in Update : \E p, q \in Places :
       \/ Taken(u, p)
       \/ Refused(u)
       \/ Passed(u, p, q)
       \/ Dropped(u, p)
       \/ Stored(u, p)
       \/ Abandoned(u, p)
  \/ RequestEnded
  \/ Nothing
-----------------------------------------------------------------------------
LEMMA ConstantTypes ==
  /\ NumWorkers \in Nat \ {0}
  /\ Capacity \in Nat \ {0}
  /\ MaxGenerations \in Nat \ {0}
  /\ MaxUpdates \in Nat
BY GenerationsAssumption

(* The channels by name.                                                   *)
LEMMA ChannelNames ==
  /\ \A m \in Modes : Data(m) \in Channels
  /\ Aggregated \in Channels /\ Result \in Channels
  /\ \A g \in Generations, w \in Workers : Worker(g, w) \in Channels
BY DEF Channels

(* A generation is of one of the modes.                                    *)
LEMMA ModeOfGeneration == \A g \in Generations : Mode(g) \in Modes
BY DEF Mode, Modes

(* What a goroutine is: its generation and its role.                       *)
LEMMA RoutineParts ==
  ASSUME NEW t \in Routines
  PROVE  /\ t[1] \in Generations /\ t[1] \in Nat /\ t[1] >= 1
         /\ t[2] \in Roles
         /\ t = <<t[1], t[2]>>
         /\ t[2] # <<"fanIn">> /\ t[2] # <<"distributor">> =>
              \E w \in Workers : t[2] = <<"worker", w>>
<1>1. t[1] \in Generations /\ t[2] \in Roles /\ t = <<t[1], t[2]>>
  BY DEF Routines
<1> QED
  BY <1>1, ConstantTypes DEF Roles, Generations

(* Every goroutine receives from a channel.                                *)
LEMMA SourceIsChannel == \A t \in Routines : Source(t) \in Channels
<1> SUFFICES ASSUME NEW t \in Routines
             PROVE  Source(t) \in Channels
  OBVIOUS
<1>1. CASE t[2] = <<"fanIn">>
  BY <1>1, RoutineParts, ModeOfGeneration, ChannelNames DEF Source
<1>2. CASE t[2] = <<"distributor">>
  BY <1>2, ChannelNames DEF Source
<1>3. CASE t[2] # <<"fanIn">> /\ t[2] # <<"distributor">>
  <2>1. PICK w \in Workers : t[2] = <<"worker", w>>
    BY <1>3, RoutineParts
  <2>2. t[2][2] = w
    BY <2>1
  <2> QED
    BY <1>3, <2>2, RoutineParts, ChannelNames DEF Source
<1> QED
  BY <1>1, <1>2, <1>3

(* So does it send to one, once there is a goroutine: by then the pool has *)
(* been filled.                                                            *)
LEMMA TargetIsChannel ==
  ASSUME TypeOK, StartInv, NEW t \in Routines, Alive(t)
  PROVE  Target(t) \in Channels
<1>1. CASE t[2] = <<"distributor">>
  <2>1. PICK w \in Workers : w = index[t[1]]
    BY RoutineParts DEF TypeOK
  <2>2. pool[w] \in 0 .. MaxGenerations
    BY DEF TypeOK
  <2>3. t[1] <= generation /\ generation \in Nat
    BY ConstantTypes DEF StartInv, TypeOK
  <2>4. pool[w] >= 1
    <3>1. CASE phase = "pool"
      <4>1. t[1] # generation
        BY <3>1 DEF StartInv
      <4> QED
        BY <3>1, <4>1, <2>2, <2>3, RoutineParts DEF StartInv
    <3>2. CASE phase # "pool"
      BY <3>2, <2>2, <2>3, RoutineParts DEF StartInv
    <3> QED
      BY <3>1, <3>2
  <2>5. pool[w] \in Generations
    BY <2>2, <2>4, ConstantTypes DEF Generations
  <2> QED
    BY <1>1, <2>1, <2>5, ChannelNames DEF Target
<1>2. CASE t[2] # <<"distributor">>
  BY <1>2, ChannelNames DEF Target
<1> QED
  BY <1>1, <1>2

(* The states of a goroutine, by where it is.                              *)
LEMMA RoutineStates ==
  ASSUME NEW r \in Routine
  PROVE  /\ r.pc \in {"absent", "loop", "exited", "receive", "received", "send"}
         /\ r.pc = "absent" => r = Absent
         /\ r.pc = "loop" => r = Looping
         /\ r.pc = "exited" => r = Exited
         /\ r.pc = "receive" => r.ctx \in Generations
         /\ r.pc = "received" => r.item \in Update
         /\ r.pc = "send" =>
              r.item \in Update /\ r.ctx \in Generations /\ r.to \in Channels
BY DEF Routine, Absent, Looping, Exited

LEMMA RoutineMembers ==
  /\ Absent \in Routine /\ Looping \in Routine /\ Exited \in Routine
  /\ \A g \in Generations : [pc |-> "receive", ctx |-> g] \in Routine
  /\ \A u \in Update : [pc |-> "received", item |-> u] \in Routine
  /\ \A u \in Update, g \in Generations, c \in Channels :
       [pc |-> "send", item |-> u, ctx |-> g, to |-> c] \in Routine
BY DEF Routine

(* The index of the next worker is one.                                    *)
LEMMA NextIndex == \A i \in Workers : (i + 1) % NumWorkers \in Workers
BY ConstantTypes DEF Workers

(* What a send and a receive leave in the channels.                        *)
LEMMA SendTypes ==
  ASSUME TypeOK, NEW c \in Channels, NEW u \in Update
  PROVE  [channel EXCEPT ![c] = Append(@, u)] \in [Channels -> Seq(Update)]
BY DEF TypeOK

LEMMA ReceiveTypes ==
  ASSUME TypeOK, NEW c \in Channels, channel[c] # <<>>
  PROVE  /\ [channel EXCEPT ![c] = Tail(@)] \in [Channels -> Seq(Update)]
         /\ Head(channel[c]) \in Update
<1>1. channel[c] \in Seq(Update)
  BY DEF TypeOK
<1>2. Head(channel[c]) \in Update /\ Tail(channel[c]) \in Seq(Update)
  BY <1>1
<1> QED
  BY <1>2 DEF TypeOK

(* A goroutine that goes from one state to another does not disturb the    *)
(* start.                                                                  *)
LEMMA GoroutineKeepsStart ==
  ASSUME TypeOK, StartInv, NEW t \in Routines, Alive(t), NEW r \in Routine,
         routine' = [routine EXCEPT ![t] = r], UNCHANGED fieldVars
  PROVE  StartInv' /\ routine' \in [Routines -> Routine]
<1>1. /\ \A s \in Routines : routine'[s] = IF s = t THEN r ELSE routine[s]
      /\ routine' \in [Routines -> Routine]
  BY DEF TypeOK
<1>2. \A s \in Routines : Alive(s)' => Alive(s)
  BY <1>1 DEF Alive
<1> QED
  BY <1>1, <1>2 DEF StartInv, fieldVars

(***************************************************************************)
(* Step by step: the start, the switch and the adapters.                   *)
(***************************************************************************)
LEMMA StartTypes ==
  ASSUME TypeOK, StartInv, Control
  PROVE  TypeOK' /\ StartInv'
<1> USE ConstantTypes
<1>1. CASE StartContext
  <2>1. TypeOK'
    BY <1>1 DEF StartContext, TypeOK, inputVars
  <2>2. ASSUME NEW t \in Routines, Alive(t)'
        PROVE  t[1] <= generation' /\ t[1] # generation'
    BY <1>1, <2>2, RoutineParts DEF StartContext, StartInv, TypeOK, Alive
  <2>3. generation' >= 1 /\ \A w \in Workers : pool'[w] = generation' - 1
    BY <1>1 DEF StartContext, StartInv, TypeOK
  <2> QED
    BY <1>1, <2>1, <2>2, <2>3 DEF StartContext, StartInv
<1>2. ASSUME NEW w \in Workers, StartPool(w)
      PROVE  TypeOK' /\ StartInv'
  <2>1. TypeOK'
    BY <1>2 DEF StartPool, TypeOK, inputVars
  <2>2. \A v \in Workers : pool'[v] = IF v = w THEN generation ELSE pool[v]
    BY <1>2 DEF StartPool, TypeOK
  <2>3. ASSUME phase' # "pool", NEW v \in Workers
        PROVE  pool'[v] = generation
    BY <1>2, <2>2, <2>3 DEF StartPool, Workers
  <2>4. ASSUME NEW v \in Workers
        PROVE  pool'[v] \in {generation - 1, generation}
    BY <1>2, <2>2 DEF StartPool, StartInv
  <2>5. ASSUME NEW t \in Routines, Alive(t)'
        PROVE  t[1] <= generation /\ t[1] # generation
    BY <1>2, <2>5 DEF StartPool, StartInv, Alive
  <2>6. generation' = generation /\ generation >= 1
    BY <1>2 DEF StartPool, StartInv
  <2> QED
    BY <2>1, <2>3, <2>4, <2>5, <2>6 DEF StartInv
<1>3. CASE StartAdapter
  <2>1. Mode(generation) \in Modes
    BY DEF Mode, Modes
  <2>2. TypeOK'
    BY <1>3, <2>1 DEF StartAdapter, TypeOK
  <2> QED
    BY <1>3, <2>2 DEF StartAdapter, StartInv, Alive
<1>4. CASE StartSpawn
  <2>1. routine' \in [Routines -> Routine]
    BY <1>4, RoutineMembers DEF StartSpawn, TypeOK
  <2>2. TypeOK'
    BY <1>4, <2>1 DEF StartSpawn, TypeOK, inputVars
  <2>3. ASSUME NEW t \in Routines, Alive(t)'
        PROVE  t[1] <= generation
    <3>1. CASE t[1] = generation
      BY <3>1 DEF TypeOK
    <3>2. CASE t[1] # generation
      BY <1>4, <2>3, <3>2 DEF StartSpawn, StartInv, Alive
    <3> QED
      BY <3>1, <3>2
  <2> QED
    BY <1>4, <2>2, <2>3 DEF StartSpawn, StartInv
<1> QED
  BY <1>1, <1>2, <1>3, <1>4 DEF Control

LEMMA SwitchTypes ==
  ASSUME TypeOK, StartInv,
         \/ SwitchStopAdapter
         \/ \E g \in Generations : EndRequest(g)
         \/ \E m \in Modes : Publish(m)
         \/ Store
  PROVE  TypeOK' /\ StartInv'
<1> USE ConstantTypes
<1>1. CASE SwitchStopAdapter
  <2>1. Mode(generation) \in Modes
    BY DEF Mode, Modes
  <2> QED
    BY <1>1, <2>1 DEF SwitchStopAdapter, TypeOK, StartInv, Alive
<1>2. ASSUME NEW g \in Generations, EndRequest(g)
      PROVE  TypeOK' /\ StartInv'
  BY <1>2 DEF EndRequest, TypeOK, StartInv, Alive, fieldVars, inputVars
<1>3. ASSUME NEW m \in Modes, Publish(m)
      PROVE  TypeOK' /\ StartInv'
  <2>1. /\ fed[m] + 1 \in 1 .. MaxUpdates
        /\ fed' \in [Modes -> 0 .. MaxUpdates]
    <3>1. fed["live"] \in 0 .. MaxUpdates /\ fed["test"] \in 0 .. MaxUpdates
      BY DEF TypeOK, Modes
    <3>2. fed[m] \in 0 .. MaxUpdates /\ fed[m] + 1 <= MaxUpdates
      BY <1>3, <3>1 DEF Publish, Modes
    <3> QED
      BY <1>3, <3>2 DEF Publish, TypeOK
  <2>2. <<m, fed[m] + 1>> \in Update
    BY <2>1 DEF Update
  <2>3. channel' \in [Channels -> Seq(Update)] /\ lost' \in SUBSET Update
    <3>1. Data(m) \in Channels
      BY ChannelNames
    <3>2. /\ [channel EXCEPT ![Data(m)] = Append(@, <<m, fed[m] + 1>>)]
               \in [Channels -> Seq(Update)]
          /\ channel \in [Channels -> Seq(Update)]
          /\ lost \in SUBSET Update
      BY <2>2, <3>1, SendTypes DEF TypeOK
    <3> QED
      BY <1>3, <2>2, <3>2 DEF Publish
  <2> QED
    BY <1>3, <2>1, <2>3 DEF Publish, TypeOK, StartInv, Alive, fieldVars
<1>4. CASE Store
  <2>1. channel' \in [Channels -> Seq(Update)] /\ delivered' \in SUBSET Update
    BY <1>4, ReceiveTypes, ChannelNames DEF Store, TypeOK
  <2> QED
    BY <1>4, <2>1 DEF Store, TypeOK, StartInv, Alive, fieldVars, inputVars
<1> QED
  BY <1>1, <1>2, <1>3, <1>4

(* The goroutines.                                                         *)
LEMMA RoutineTypes ==
  ASSUME TypeOK, StartInv, NEW t \in Routines, Step(t)
  PROVE  TypeOK' /\ StartInv'
<1> USE ConstantTypes
<1>0. /\ routine[t] \in Routine
      /\ \A s \in Routines : Alive(s) => s[1] <= generation
  BY DEF TypeOK, StartInv
<1>1. Alive(t) /\ generation \in Generations
  <2>1. routine[t] # Absent
    BY <1>0, RoutineStates
       DEF Step, EnterReceive, Receive, EnterSend, Send, Exit, MayExit, Absent, Looping
  <2> QED
    BY <1>0, <2>1, RoutineParts DEF Alive, TypeOK, Generations
<1>2. CASE EnterReceive(t)
  <2>1. [pc |-> "receive", ctx |-> generation] \in Routine
    BY <1>1, RoutineMembers
  <2>2. StartInv' /\ routine' \in [Routines -> Routine]
    BY <1>1, <1>2, <2>1, GoroutineKeepsStart DEF EnterReceive
  <2> QED
    BY <1>2, <2>2 DEF EnterReceive, TypeOK, fieldVars, inputVars
<1>3. CASE Receive(t)
  <2>1. /\ channel' \in [Channels -> Seq(Update)]
        /\ Head(channel[Source(t)]) \in Update
    BY <1>3, SourceIsChannel, ReceiveTypes DEF Receive
  <2>2. StartInv' /\ routine' \in [Routines -> Routine]
    BY <1>1, <1>3, <2>1, RoutineMembers, GoroutineKeepsStart DEF Receive
  <2> QED
    BY <1>3, <2>1, <2>2 DEF Receive, TypeOK, fieldVars, inputVars
<1>4. CASE EnterSend(t)
  <2>1. routine[t].item \in Update /\ Target(t) \in Channels
    BY <1>0, <1>1, <1>4, RoutineStates, TargetIsChannel DEF EnterSend
  <2>2. StartInv' /\ routine' \in [Routines -> Routine]
    BY <1>1, <1>4, <2>1, RoutineMembers, GoroutineKeepsStart DEF EnterSend
  <2> QED
    BY <1>4, <2>2 DEF EnterSend, TypeOK, fieldVars, inputVars
<1>5. CASE Send(t)
  <2>1. routine[t].item \in Update /\ routine[t].to \in Channels
    BY <1>0, <1>5, RoutineStates DEF Send
  <2>2. channel' \in [Channels -> Seq(Update)] /\ lost' \in SUBSET Update
    <3>1. /\ [channel EXCEPT ![routine[t].to] = Append(@, routine[t].item)]
               \in [Channels -> Seq(Update)]
          /\ channel \in [Channels -> Seq(Update)]
          /\ lost \in SUBSET Update
      BY <2>1, SendTypes DEF TypeOK
    <3> QED
      BY <1>5, <2>1, <3>1 DEF Send
  <2>3. index' \in [Generations -> Workers]
    BY <1>5, NextIndex, RoutineParts DEF Send, MoveOn, TypeOK
  <2>4. StartInv' /\ routine' \in [Routines -> Routine]
    BY <1>1, <1>5, RoutineMembers, GoroutineKeepsStart DEF Send
  <2> QED
    BY <1>5, <2>2, <2>3, <2>4 DEF Send, TypeOK, fieldVars, inputVars
<1>6. CASE Exit(t)
  <2>1. StartInv' /\ routine' \in [Routines -> Routine]
    BY <1>1, <1>6, RoutineMembers, GoroutineKeepsStart DEF Exit
  <2> QED
    BY <1>6, <2>1 DEF Exit, TypeOK, fieldVars, inputVars
<1> QED
  BY <1>2, <1>3, <1>4, <1>5, <1>6 DEF Step

(* A new service has neither goroutines nor a pool.                        *)
LEMMA InitTypes ==
  ASSUME Init
  PROVE  TypeOK /\ StartInv
<1>1. TypeOK
  BY ConstantTypes, RoutineMembers DEF Init, TypeOK, Workers
<1> QED
  BY <1>1 DEF Init, StartInv, Alive

LEMMA TypeStep ==
  ASSUME TypeOK, StartInv, [Next]_vars
  PROVE  TypeOK' /\ StartInv'
<1>1. CASE UNCHANGED vars
  BY <1>1 DEF vars, fieldVars, inputVars, TypeOK, StartInv, Alive
<1>2. CASE Next
  BY <1>2, StartTypes, SwitchTypes, RoutineTypes DEF Next
<1> QED
  BY <1>1, <1>2

LEMMA StartsKept == Spec => [](TypeOK /\ StartInv)
<1>1. Init => TypeOK /\ StartInv
  BY InitTypes
<1>2. TypeOK /\ StartInv /\ [Next]_vars => (TypeOK /\ StartInv)'
  BY TypeStep
<1> QED
  BY <1>1, <1>2, PTL DEF Spec

(***************************************************************************)
(* Whatever generations share the fields of the service, every goroutine   *)
(* is in a state of the program: it holds an update or none, the channel   *)
(* it sends to exists, and the index of every distributor is one of the    *)
(* pool, which is not nil under a goroutine that reads it                  *)
(* (StartDataProcessing and the loops of service.go).                      *)
(***************************************************************************)
THEOREM TypeCorrect == Spec => []TypeOK
BY StartsKept, PTL
-----------------------------------------------------------------------------
(* A goroutine takes up a wait only for the context of the moment; contexts*)
(* come in the order of the generations.                                   *)
LEMMA NewWaits ==
  ASSUME TypeOK, StartInv, [Next]_vars, NEW t \in Routines,
         routine'[t].pc \in {"receive", "send"}
  PROVE  \/ routine'[t] = routine[t]
         \/ t[1] <= generation /\ routine'[t].ctx = generation
<1>1. CASE UNCHANGED routine
  BY <1>1
<1>2. CASE StartSpawn
  BY <1>2 DEF StartSpawn, Looping
<1>3. ASSUME NEW s \in Routines, Step(s)
      PROVE  \/ routine'[t] = routine[t]
             \/ t[1] <= generation /\ routine'[t].ctx = generation
  <2>1. t \in DOMAIN routine /\ s \in DOMAIN routine
    BY DEF TypeOK
  <2>2. CASE Receive(s) \/ Send(s) \/ Exit(s)
    <3>1. t = s => routine'[t].pc \in {"received", "loop", "exited"}
      <4>1. CASE Receive(s)
        BY <2>1, <4>1 DEF Receive
      <4>2. CASE Send(s) \/ Exit(s)
        BY <2>1, <4>2 DEF Send, Exit, Looping, Exited
      <4> QED
        BY <2>2, <4>1, <4>2
    <3>2. t # s => routine'[t] = routine[t]
      BY <2>1, <2>2 DEF Receive, Send, Exit
    <3> QED
      BY <3>1, <3>2
  <2>3. CASE EnterReceive(s) \/ EnterSend(s)
    <3>1. Alive(s)
      BY <2>3 DEF EnterReceive, EnterSend, Alive, Looping, Absent
    <3>2. s[1] <= generation
      BY <3>1 DEF StartInv
    <3>3. t # s => routine'[t] = routine[t]
      BY <2>1, <2>3 DEF EnterReceive, EnterSend
    <3>4. t = s => routine'[t].ctx = generation
      BY <2>1, <2>3 DEF EnterReceive, EnterSend
    <3> QED
      BY <3>2, <3>3, <3>4
  <2> QED
    BY <1>3, <2>2, <2>3 DEF Step
<1> QED
  BY <1>1, <1>2, <1>3
     DEF Next, Control, StartContext, StartPool, StartAdapter, SwitchStopAdapter,
         EndRequest, Publish, Store, vars

LEMMA GenerationGrows ==
  ASSUME TypeOK, [Next]_vars
  PROVE  generation' \in Nat /\ generation' >= generation
<1>1. generation' \in {generation, generation + 1}
  BY DEF Next, Control, StartContext, StartPool, StartAdapter, StartSpawn,
         SwitchStopAdapter, EndRequest, Publish, Step, EnterReceive, Receive,
         EnterSend, Send, Exit, Store, vars, fieldVars
<1> QED
  BY <1>1, ConstantTypes DEF TypeOK

LEMMA WaitsForOwnStep ==
  ASSUME TypeOK, StartInv, WaitsForOwn, [Next]_vars
  PROVE  WaitsForOwn'
<1> SUFFICES ASSUME NEW t \in Routines, routine'[t].pc \in {"receive", "send"}
             PROVE  routine'[t].ctx \in t[1] .. generation'
  BY DEF WaitsForOwn
<1>1. generation \in Nat /\ t[1] \in Nat
  BY ConstantTypes, RoutineParts DEF TypeOK
<1>2. CASE routine'[t] = routine[t]
  BY <1>1, <1>2, GenerationGrows DEF WaitsForOwn
<1>3. CASE t[1] <= generation /\ routine'[t].ctx = generation
  BY <1>1, <1>3, GenerationGrows
<1> QED
  BY <1>2, <1>3, NewWaits

LEMMA WaitsKept == Spec => []WaitsForOwn
<1>1. Init => WaitsForOwn
  BY DEF Init, WaitsForOwn, Absent
<1>2. TypeOK /\ StartInv /\ WaitsForOwn /\ [Next]_vars => WaitsForOwn'
  BY WaitsForOwnStep
<1> QED
  BY <1>1, <1>2, StartsKept, PTL DEF Spec

(***************************************************************************)
(* Once every request is over and everything has gone on, no goroutine of  *)
(* a switch is left, however many switches there were: each waits for the  *)
(* context of a later generation than the first, and all of those are done *)
(* (the case <-e.ctx.Done() of every select of service.go).                *)
(***************************************************************************)
THEOREM SwitchesLeaveNothing == Spec => []OnlyStartupLingers
<1>1. ASSUME TypeOK, WaitsForOwn, AtRest, NEW t \in Routines
      PROVE  /\ t[1] > 1 => routine[t] \in {Absent, Exited}
             /\ Holds(t) = {}
  <2>1. /\ routine[t] \in Routine
        /\ routine[t].pc \notin {"loop", "received", "send"}
        /\ ~MayExit(t)
    BY <1>1 DEF TypeOK, AtRest, GoesOn
  <2>2. ASSUME t[1] > 1, routine[t].pc = "receive"
        PROVE  FALSE
    <3>1. PICK g \in Generations : g = routine[t].ctx
      BY <2>1, <2>2, RoutineStates
    <3>2. g > 1 /\ g <= generation
      BY <1>1, <2>2, <3>1, RoutineParts, ConstantTypes
         DEF WaitsForOwn, TypeOK, Generations
    <3>3. g \in done
      BY <1>1, <3>2, ConstantTypes DEF AtRest, RequestPending, OfStartup, Generations
    <3> QED
      BY <2>1, <2>2, <3>1, <3>3 DEF MayExit
  <2> QED
    BY <2>1, <2>2, RoutineStates DEF Holds
<1>2. TypeOK /\ WaitsForOwn => OnlyStartupLingers
  BY <1>1 DEF OnlyStartupLingers
<1> QED
  BY <1>2, StartsKept, WaitsKept, PTL
-----------------------------------------------------------------------------
(* What Tail and Append do to the members of a channel without repetition. *)
LEMMA TailMembers ==
  ASSUME NEW s \in Seq(Update), s # <<>>, NoRepeat(s)
  PROVE  /\ NoRepeat(Tail(s))
         /\ Head(s) \in Update
         /\ Head(s) \in Range(s)
         /\ Range(Tail(s)) = Range(s) \ {Head(s)}
<1>1. /\ DOMAIN s = 1 .. Len(s) /\ Len(s) \in Nat
      /\ Len(s) >= 1 /\ Head(s) = s[1] /\ Head(s) \in Update
      /\ DOMAIN Tail(s) = 1 .. Len(s) - 1
      /\ \A i \in 1 .. Len(s) - 1 : Tail(s)[i] = s[i + 1]
  OBVIOUS
<1>2. \A i \in 1 .. Len(s) - 1 : i + 1 \in DOMAIN s /\ i + 1 # 1
  BY <1>1
<1>3. NoRepeat(Tail(s))
  <2> SUFFICES ASSUME NEW i \in 1 .. Len(s) - 1, NEW j \in 1 .. Len(s) - 1,
                      Tail(s)[i] = Tail(s)[j]
               PROVE  i = j
    BY <1>1 DEF NoRepeat
  <2>1. s[i + 1] = s[j + 1]
    BY <1>1
  <2>2. i + 1 = j + 1
    BY <1>2, <2>1 DEF NoRepeat
  <2> QED
    BY <2>2
<1>4. Head(s) \in Range(s)
  BY <1>1 DEF Range
<1>5. ASSUME NEW u \in Range(Tail(s))
      PROVE  u \in Range(s) /\ u # Head(s)
  <2>1. PICK i \in 1 .. Len(s) - 1 : u = s[i + 1]
    BY <1>1, <1>5 DEF Range
  <2>2. i + 1 \in DOMAIN s /\ i + 1 # 1 /\ 1 \in DOMAIN s
    BY <1>1, <1>2
  <2>3. s[i + 1] # s[1]
    BY <2>2 DEF NoRepeat
  <2> QED
    BY <1>1, <2>1, <2>2, <2>3 DEF Range
<1>6. ASSUME NEW u \in Range(s), u # Head(s)
      PROVE  u \in Range(Tail(s))
  <2>1. PICK i \in 1 .. Len(s) : u = s[i]
    BY <1>1 DEF Range
  <2>2. i - 1 \in 1 .. Len(s) - 1 /\ (i - 1) + 1 = i
    BY <1>1, <1>6, <2>1
  <2>3. Tail(s)[i - 1] = u
    BY <1>1, <2>1, <2>2
  <2> QED
    BY <1>1, <2>2, <2>3 DEF Range
<1> QED
  BY <1>1, <1>3, <1>4, <1>5, <1>6

LEMMA AppendMembers ==
  ASSUME NEW s \in Seq(Update), NEW u \in Update
  PROVE  /\ Range(Append(s, u)) = Range(s) \cup {u}
         /\ NoRepeat(s) /\ u \notin Range(s) => NoRepeat(Append(s, u))
<1>1. /\ DOMAIN s = 1 .. Len(s) /\ Len(s) \in Nat
      /\ DOMAIN Append(s, u) = 1 .. Len(s) + 1
      /\ \A i \in 1 .. Len(s) : Append(s, u)[i] = s[i]
      /\ Append(s, u)[Len(s) + 1] = u
  OBVIOUS
<1>2. Range(Append(s, u)) = Range(s) \cup {u}
  <2>1. \A v : v \in Range(Append(s, u)) <=> \E i \in 1 .. Len(s) + 1 : v = Append(s, u)[i]
    BY <1>1 DEF Range
  <2>2. \A v : v \in Range(s) <=> \E i \in 1 .. Len(s) : v = s[i]
    BY <1>1 DEF Range
  <2>3. ASSUME NEW v \in Range(Append(s, u))
        PROVE  v \in Range(s) \cup {u}
    <3>1. PICK i \in 1 .. Len(s) + 1 : v = Append(s, u)[i]
      BY <2>1
    <3>2. i \in 1 .. Len(s) \/ i = Len(s) + 1
      BY <1>1
    <3> QED
      BY <1>1, <2>2, <3>1, <3>2
  <2>4. ASSUME NEW v \in Range(s) \cup {u}
        PROVE  v \in Range(Append(s, u))
    <3>1. \A i \in 1 .. Len(s) : i \in 1 .. Len(s) + 1
      BY <1>1
    <3>2. Len(s) + 1 \in 1 .. Len(s) + 1
      BY <1>1
    <3> QED
      BY <1>1, <2>1, <2>2, <3>1, <3>2
  <2> QED
    BY <2>3, <2>4
<1>3. ASSUME NoRepeat(s), u \notin Range(s)
      PROVE  NoRepeat(Append(s, u))
  <2> SUFFICES ASSUME NEW i \in 1 .. Len(s) + 1, NEW j \in 1 .. Len(s) + 1,
                      Append(s, u)[i] = Append(s, u)[j]
               PROVE  i = j
    BY <1>1 DEF NoRepeat
  <2>1. \A m \in 1 .. Len(s) : s[m] \in Range(s)
    BY <1>1 DEF Range
  <2>2. CASE i \in 1 .. Len(s) /\ j \in 1 .. Len(s)
    BY <1>1, <1>3, <2>2 DEF NoRepeat
  <2>3. CASE i = Len(s) + 1 \/ j = Len(s) + 1
    BY <1>1, <1>3, <2>1, <2>3
  <2> QED
    BY <1>1, <2>2, <2>3
<1> QED
  BY <1>2, <1>3

(* The same in terms of the channels.                                      *)
LEMMA TakeFrom ==
  ASSUME TypeOK, ChannelsDistinct, NEW c \in Channels, channel[c] # <<>>,
         channel' = [channel EXCEPT ![c] = Tail(@)]
  PROVE  /\ ChannelsDistinct'
         /\ Head(channel[c]) \in Update
         /\ Head(channel[c]) \in Range(channel[c])
         /\ Range(channel'[c]) = Range(channel[c]) \ {Head(channel[c])}
         /\ \A d \in Channels : d # c => Range(channel'[d]) = Range(channel[d])
<1>1. channel[c] \in Seq(Update) /\ NoRepeat(channel[c])
  BY DEF TypeOK, ChannelsDistinct
<1>2. /\ NoRepeat(Tail(channel[c]))
      /\ Head(channel[c]) \in Update
      /\ Head(channel[c]) \in Range(channel[c])
      /\ Range(Tail(channel[c])) = Range(channel[c]) \ {Head(channel[c])}
  BY <1>1, TailMembers
<1>3. channel'[c] = Tail(channel[c]) /\ \A d \in Channels : d # c => channel'[d] = channel[d]
  BY DEF TypeOK
<1>4. ChannelsDistinct'
  <2> SUFFICES ASSUME NEW d \in Channels
               PROVE  NoRepeat(channel'[d])
    BY DEF ChannelsDistinct, NoRepeat
  <2>1. CASE d = c
    BY <1>2, <1>3, <2>1
  <2>2. CASE d # c
    BY <1>3, <2>2 DEF ChannelsDistinct
  <2> QED
    BY <2>1, <2>2
<1> QED
  BY <1>2, <1>3, <1>4

LEMMA PutInto ==
  ASSUME TypeOK, ChannelsDistinct, NEW c \in Channels, NEW u \in Update,
         u \notin Range(channel[c]),
         channel' = [channel EXCEPT ![c] = Append(@, u)]
  PROVE  /\ ChannelsDistinct'
         /\ Range(channel'[c]) = Range(channel[c]) \cup {u}
         /\ \A d \in Channels : d # c => Range(channel'[d]) = Range(channel[d])
<1>1. channel[c] \in Seq(Update) /\ NoRepeat(channel[c])
  BY DEF TypeOK, ChannelsDistinct
<1>2. /\ NoRepeat(Append(channel[c], u))
      /\ Range(Append(channel[c], u)) = Range(channel[c]) \cup {u}
  BY <1>1, AppendMembers
<1>3. channel'[c] = Append(channel[c], u) /\ \A d \in Channels : d # c => channel'[d] = channel[d]
  BY DEF TypeOK
<1>4. ChannelsDistinct'
  <2> SUFFICES ASSUME NEW d \in Channels
               PROVE  NoRepeat(channel'[d])
    BY DEF ChannelsDistinct, NoRepeat
  <2>1. CASE d = c
    BY <1>2, <1>3, <2>1
  <2>2. CASE d # c
    BY <1>3, <2>2 DEF ChannelsDistinct
  <2> QED
    BY <2>1, <2>2
<1> QED
  BY <1>2, <1>3, <1>4

LEMMA SameChannels ==
  ASSUME ChannelsDistinct, UNCHANGED channel
  PROVE  ChannelsDistinct' /\ \A d \in Channels : Range(channel'[d]) = Range(channel[d])
BY DEF ChannelsDistinct

(* What goroutine t holds when it gets to r; the others hold what they did.*)
LEMMA HoldsAfter ==
  ASSUME TypeOK, NEW t \in Routines, NEW r,
         routine' = [routine EXCEPT ![t] = r]
  PROVE  /\ r.pc \in {"received", "send"} => Holds(t)' = {r.item}
         /\ r.pc \notin {"received", "send"} => Holds(t)' = {}
         /\ \A s \in Routines : s # t => Holds(s)' = Holds(s)
<1>1. \A s \in Routines : routine'[s] = IF s = t THEN r ELSE routine[s]
  BY DEF TypeOK
<1> QED
  BY <1>1 DEF Holds

(* The places, with what is there before and after a step.                 *)
LEMMA PlacesAre ==
  /\ \A c \in Channels : /\ <<"in", c>> \in Places
                         /\ At(<<"in", c>>) = Range(channel[c])
                         /\ At(<<"in", c>>)' = Range(channel'[c])
  /\ \A t \in Routines : /\ <<"at", t>> \in Places
                         /\ At(<<"at", t>>) = Holds(t)
                         /\ At(<<"at", t>>)' = Holds(t)'
  /\ \A r \in Places : \/ \E c \in Channels : r = <<"in", c>>
                       \/ \E t \in Routines : r = <<"at", t>>
BY DEF Places, At

(* Nothing moves when channels and hands stay as they are, seen as sets.   *)
LEMMA NothingMoves ==
  ASSUME \A c \in Channels : Range(channel'[c]) = Range(channel[c]),
         \A t \in Routines : Holds(t)' = Holds(t)
  PROVE  Stays
BY PlacesAre DEF Stays

(* An update is in flight when it is at some place.                        *)
LEMMA InFlightPlaces ==
  /\ \A u : u \in InFlight <=> \E p \in Places : u \in At(p)
  /\ \A u : u \in InFlight' <=> \E p \in Places : u \in At(p)'
<1>1. \A u : u \in InFlight <=> \/ \E c \in Channels : u \in Range(channel[c])
                                \/ \E t \in Routines : u \in Holds(t)
  BY DEF InFlight
<1>2. \A u : u \in InFlight' <=> \/ \E c \in Channels : u \in Range(channel'[c])
                                 \/ \E t \in Routines : u \in Holds(t)'
  BY DEF InFlight
<1>3. \A u : (\E p \in Places : u \in At(p))
               <=> \/ \E c \in Channels : u \in Range(channel[c])
                   \/ \E t \in Routines : u \in Holds(t)
  BY PlacesAre
<1>4. \A u : (\E p \in Places : u \in At(p)')
               <=> \/ \E c \in Channels : u \in Range(channel'[c])
                   \/ \E t \in Routines : u \in Holds(t)'
  BY PlacesAre
<1> QED
  BY <1>1, <1>2, <1>3, <1>4

(* The next update of a mode joins the reports.                            *)
LEMMA NextReport ==
  ASSUME TypeOK, NEW m \in Modes, Publish(m)
  PROVE  /\ <<m, fed[m] + 1>> \in Update
         /\ NewReport(<<m, fed[m] + 1>>)
<1>1. /\ fed[m] \in Nat
      /\ \A k \in Modes : fed[k] \in Nat
      /\ fed'[m] = fed[m] + 1
      /\ \A k \in Modes : k # m => fed'[k] = fed[k]
  BY ConstantTypes DEF Publish, TypeOK
<1>2. <<m, fed[m] + 1>> \in Update
  <2>1. fed["live"] \in Nat /\ fed["test"] \in Nat
    BY <1>1 DEF Modes
  <2>2. fed[m] + 1 <= MaxUpdates
    BY <2>1, ConstantTypes DEF Publish, Modes
  <2> QED
    BY <1>1, <2>2, ConstantTypes DEF Update
<1>3. \A u : u \in Reports <=> \E k \in Modes : \E n \in 1 .. fed[k] : u = <<k, n>>
  BY DEF Reports
<1>4. \A u : u \in Reports' <=> \E k \in Modes : \E n \in 1 .. fed'[k] : u = <<k, n>>
  BY DEF Reports
<1>5. <<m, fed[m] + 1>> \notin Reports
  BY <1>1, <1>3
<1>6. ASSUME NEW u \in Reports'
      PROVE  u \in Reports \cup {<<m, fed[m] + 1>>}
  <2>1. PICK k \in Modes : \E n \in 1 .. fed'[k] : u = <<k, n>>
    BY <1>4
  <2>2. PICK n \in 1 .. fed'[k] : u = <<k, n>>
    BY <2>1
  <2>3. n \in 1 .. fed[k] \/ (k = m /\ n = fed[m] + 1)
    BY <1>1, <2>2
  <2> QED
    BY <1>3, <2>2, <2>3
<1>7. ASSUME NEW u \in Reports \cup {<<m, fed[m] + 1>>}
      PROVE  u \in Reports'
  <2>1. CASE u = <<m, fed[m] + 1>>
    <3>1. fed[m] + 1 \in 1 .. fed'[m]
      BY <1>1
    <3> QED
      BY <1>4, <2>1, <3>1
  <2>2. CASE u \in Reports
    <3>1. PICK k \in Modes : \E n \in 1 .. fed[k] : u = <<k, n>>
      BY <1>3, <2>2
    <3>2. PICK n \in 1 .. fed[k] : u = <<k, n>>
      BY <3>1
    <3>3. n \in 1 .. fed'[k]
      BY <1>1, <3>2
    <3> QED
      BY <1>4, <3>2, <3>3
  <2> QED
    BY <1>7, <2>1, <2>2
<1>8. Reports' = Reports \cup {<<m, fed[m] + 1>>}
  BY <1>6, <1>7
<1> QED
  BY <1>2, <1>5, <1>8 DEF NewReport, Publish

(***************************************************************************)
(* What each step is, seen as a movement, and that no channel comes to     *)
(* hold an update twice: the update that a channel gets was elsewhere.     *)
(***************************************************************************)
LEMMA PublishEffect ==
  ASSUME TypeOK, AccountInv, NEW m \in Modes, Publish(m)
  PROVE  Effect /\ ChannelsDistinct'
<1>1. PICK u \in Update : u = <<m, fed[m] + 1>>
  BY NextReport
<1>2. NewReport(u)
  BY <1>1, NextReport
<1>3. Data(m) \in Channels
  BY ChannelNames
<1>4. u \notin Range(channel[Data(m)])
  BY <1>2, <1>3, InFlightPlaces, PlacesAre DEF AccountInv, AllReported, NewReport
<1>5. \A t \in Routines : Holds(t)' = Holds(t)
  BY DEF Publish, Holds
<1>6. CASE Len(channel[Data(m)]) < Capacity
  <2>1. channel' = [channel EXCEPT ![Data(m)] = Append(@, u)] /\ SameEnds
    BY <1>1, <1>6 DEF Publish, SameEnds
  <2>2. /\ ChannelsDistinct'
        /\ Range(channel'[Data(m)]) = Range(channel[Data(m)]) \cup {u}
        /\ \A d \in Channels : d # Data(m) => Range(channel'[d]) = Range(channel[d])
    BY <1>3, <1>4, <2>1, PutInto DEF AccountInv
  <2>3. Arrives(u, <<"in", Data(m)>>)
    BY <1>3, <1>5, <2>2, PlacesAre DEF Arrives
  <2> QED
    BY <1>2, <1>3, <2>1, <2>2, <2>3, PlacesAre DEF Effect, Taken
<1>7. CASE ~(Len(channel[Data(m)]) < Capacity)
  <2>1. UNCHANGED channel /\ Lost(u)
    BY <1>1, <1>7 DEF Publish, Lost
  <2>2. ChannelsDistinct' /\ Stays
    BY <1>5, <2>1, SameChannels, NothingMoves DEF AccountInv
  <2>3. Refused(u)
    BY <1>2, <2>1, <2>2 DEF Refused
  <2> QED
    BY <1>3, <2>2, <2>3, PlacesAre DEF Effect
<1> QED
  BY <1>6, <1>7

LEMMA ReceiveEffect ==
  ASSUME TypeOK, AccountInv, NEW t \in Routines, Receive(t)
  PROVE  Effect /\ ChannelsDistinct'
<1>1. PICK c \in Channels : c = Source(t)
  BY SourceIsChannel
<1>2. /\ channel[c] # <<>>
      /\ channel' = [channel EXCEPT ![c] = Tail(@)]
      /\ routine' = [routine EXCEPT ![t] = [pc |-> "received", item |-> Head(channel[c])]]
      /\ SameInput /\ SameEnds
  BY <1>1 DEF Receive, SameInput, SameEnds, inputVars
<1>3. PICK u \in Update : u = Head(channel[c])
  BY <1>2, TakeFrom DEF AccountInv
<1>4. /\ ChannelsDistinct'
      /\ u \in Range(channel[c])
      /\ Range(channel'[c]) = Range(channel[c]) \ {u}
      /\ \A d \in Channels : d # c => Range(channel'[d]) = Range(channel[d])
  BY <1>2, <1>3, TakeFrom DEF AccountInv
<1>5. Holds(t) = {}
  BY DEF Receive, Holds
<1>6. Holds(t)' = {u} /\ \A s \in Routines : s # t => Holds(s)' = Holds(s)
  BY <1>2, <1>3, HoldsAfter
<1>7. <<"in", c>> # <<"at", t>> /\ Moves(u, <<"in", c>>, <<"at", t>>)
  BY <1>4, <1>5, <1>6, PlacesAre DEF Moves
<1> QED
  BY <1>2, <1>4, <1>7, PlacesAre DEF Effect, Passed

LEMMA SendEffect ==
  ASSUME TypeOK, AccountInv, NEW t \in Routines, Send(t)
  PROVE  Effect /\ ChannelsDistinct'
<1>1. PICK u \in Update : u = routine[t].item
  BY RoutineStates DEF Send, TypeOK
<1>2. PICK c \in Channels : c = routine[t].to
  BY RoutineStates DEF Send, TypeOK
<1>3. SameInput /\ UNCHANGED delivered
  BY DEF Send, SameInput, inputVars
<1>4. Holds(t) = {u}
  BY <1>1 DEF Send, Holds
<1>5. Holds(t)' = {} /\ \A s \in Routines : s # t => Holds(s)' = Holds(s)
  <2>1. PICK r : r = Looping
    OBVIOUS
  <2>2. routine' = [routine EXCEPT ![t] = r] /\ r.pc = "loop"
    BY <2>1 DEF Send, Looping
  <2> QED
    BY <2>2, HoldsAfter
<1>6. <<"in", c>> \in Places /\ <<"at", t>> \in Places /\ <<"at", t>> # <<"in", c>>
  BY PlacesAre
<1>7. CASE Len(channel[c]) < Capacity
  <2>1. channel' = [channel EXCEPT ![c] = Append(@, u)] /\ SameEnds
    BY <1>1, <1>2, <1>3, <1>7 DEF Send, SameEnds
  <2>2. u \notin Range(channel[c])
    BY <1>4, <1>6, PlacesAre DEF AccountInv, OnePlace
  <2>3. /\ ChannelsDistinct'
        /\ Range(channel'[c]) = Range(channel[c]) \cup {u}
        /\ \A d \in Channels : d # c => Range(channel'[d]) = Range(channel[d])
    BY <2>1, <2>2, PutInto DEF AccountInv
  <2>4. Moves(u, <<"at", t>>, <<"in", c>>)
    BY <1>4, <1>5, <1>6, <2>3, PlacesAre DEF Moves
  <2> QED
    BY <1>3, <1>6, <2>1, <2>3, <2>4 DEF Effect, Passed
<1>8. CASE ~(Len(channel[c]) < Capacity)
  <2>1. UNCHANGED channel /\ Lost(u)
    BY <1>1, <1>2, <1>3, <1>8 DEF Send, Lost
  <2>2. /\ ChannelsDistinct'
        /\ \A d \in Channels : Range(channel'[d]) = Range(channel[d])
    BY <2>1, SameChannels DEF AccountInv
  <2>3. Leaves(u, <<"at", t>>)
    BY <1>4, <1>5, <1>6, <2>2, PlacesAre DEF Leaves
  <2>4. Dropped(u, <<"at", t>>)
    BY <1>3, <2>1, <2>3 DEF Dropped
  <2> QED
    BY <1>6, <2>2, <2>4 DEF Effect
<1> QED
  BY <1>7, <1>8

LEMMA ExitEffect ==
  ASSUME TypeOK, AccountInv, NEW t \in Routines, Exit(t)
  PROVE  Effect /\ ChannelsDistinct'
<1>1. SameInput /\ SameEnds
  BY DEF Exit, SameInput, SameEnds, inputVars
<1>2. /\ ChannelsDistinct'
      /\ \A d \in Channels : Range(channel'[d]) = Range(channel[d])
  BY SameChannels DEF Exit, AccountInv
<1>3. Holds(t)' = {} /\ \A s \in Routines : s # t => Holds(s)' = Holds(s)
  <2>1. PICK r : r = Exited
    OBVIOUS
  <2>2. routine' = [routine EXCEPT ![t] = r] /\ r.pc = "exited"
    BY <2>1 DEF Exit, Exited
  <2> QED
    BY <2>2, HoldsAfter
<1>4. CASE routine[t].pc = "send"
  <2>1. PICK u \in Update : u = routine[t].item
    BY <1>4, RoutineStates DEF TypeOK
  <2>2. Holds(t) = {u} /\ done # {}
    BY <1>4, <2>1 DEF Exit, MayExit, Holds
  <2>3. <<"at", t>> \in Places /\ Leaves(u, <<"at", t>>)
    BY <1>2, <1>3, <2>2, PlacesAre DEF Leaves
  <2> QED
    BY <1>1, <1>2, <2>2, <2>3 DEF Effect, Abandoned
<1>5. CASE routine[t].pc # "send"
  <2>1. Holds(t) = {}
    BY <1>5 DEF Exit, MayExit, Holds
  <2>2. Stays
    BY <1>2, <1>3, <2>1, NothingMoves
  <2> QED
    BY <1>1, <1>2, <2>2 DEF Effect, Nothing
<1> QED
  BY <1>4, <1>5

LEMMA StoreEffect ==
  ASSUME TypeOK, AccountInv, Store
  PROVE  Effect /\ ChannelsDistinct'
<1>1. Result \in Channels
  BY ChannelNames
<1>2. PICK u \in Update : u = Head(channel[Result])
  BY <1>1, TakeFrom DEF Store, AccountInv
<1>3. /\ ChannelsDistinct'
      /\ u \in Range(channel[Result])
      /\ Range(channel'[Result]) = Range(channel[Result]) \ {u}
      /\ \A d \in Channels : d # Result => Range(channel'[d]) = Range(channel[d])
  BY <1>1, <1>2, TakeFrom DEF Store, AccountInv
<1>4. \A t \in Routines : Holds(t)' = Holds(t)
  BY DEF Store, Holds
<1>5. <<"in", Result>> \in Places /\ Leaves(u, <<"in", Result>>)
  BY <1>1, <1>3, <1>4, PlacesAre DEF Leaves
<1>6. Stored(u, <<"in", Result>>)
  BY <1>2, <1>5 DEF Store, Stored, SameInput, inputVars
<1> QED
  BY <1>3, <1>5, <1>6 DEF Effect

(* The steps that move no update.                                          *)
LEMMA StillEffect ==
  ASSUME TypeOK, StartInv, AccountInv,
         \/ Control
         \/ SwitchStopAdapter
         \/ \E t \in Routines : EnterReceive(t) \/ EnterSend(t)
         \/ UNCHANGED vars
  PROVE  Effect /\ ChannelsDistinct'
<1>1. SameInput /\ SameEnds /\ UNCHANGED channel
  BY DEF SameInput, SameEnds, Control, StartContext, StartPool, StartAdapter,
         StartSpawn, SwitchStopAdapter, EnterReceive, EnterSend, vars, inputVars
<1>2. \A t \in Routines : Holds(t)' = Holds(t)
  <2>1. CASE UNCHANGED routine
    BY <2>1 DEF Holds
  <2>2. CASE StartSpawn
    <3> SUFFICES ASSUME NEW t \in Routines
                 PROVE  Holds(t)' = Holds(t)
      OBVIOUS
    <3>1. CASE t[1] = generation
      <4>1. routine[t] = Absent
        BY <2>2, <3>1 DEF StartSpawn, StartInv, Alive
      <4>2. routine'[t] = Looping
        BY <2>2, <3>1 DEF StartSpawn
      <4> QED
        BY <4>1, <4>2 DEF Holds, Absent, Looping
    <3>2. CASE t[1] # generation
      BY <2>2, <3>2 DEF StartSpawn, Holds
    <3> QED
      BY <3>1, <3>2
  <2>3. ASSUME NEW t \in Routines, EnterReceive(t) \/ EnterSend(t)
        PROVE  \A s \in Routines : Holds(s)' = Holds(s)
    <3>1. \A s \in Routines : s # t => Holds(s)' = Holds(s)
      BY <2>3, HoldsAfter DEF EnterReceive, EnterSend
    <3>2. Holds(t)' = Holds(t)
      <4>1. CASE EnterReceive(t)
        <5>1. PICK r : r = [pc |-> "receive", ctx |-> generation]
          OBVIOUS
        <5>2. routine' = [routine EXCEPT ![t] = r] /\ r.pc = "receive"
          BY <4>1, <5>1 DEF EnterReceive
        <5>3. Holds(t)' = {}
          BY <5>2, HoldsAfter
        <5> QED
          BY <4>1, <5>3 DEF EnterReceive, Holds, Looping
      <4>2. CASE EnterSend(t)
        <5>1. PICK r : r = [pc |-> "send", item |-> routine[t].item,
                            ctx |-> generation, to |-> Target(t)]
          OBVIOUS
        <5>2. /\ routine' = [routine EXCEPT ![t] = r]
              /\ r.pc = "send" /\ r.item = routine[t].item
          BY <4>2, <5>1 DEF EnterSend
        <5>3. Holds(t)' = {routine[t].item}
          BY <5>2, HoldsAfter
        <5> QED
          BY <4>2, <5>3 DEF EnterSend, Holds
      <4> QED
        BY <2>3, <4>1, <4>2
    <3> QED
      BY <3>1, <3>2
  <2> QED
    BY <2>1, <2>2, <2>3
       DEF Control, StartContext, StartPool, StartAdapter, SwitchStopAdapter, vars
<1>3. ChannelsDistinct' /\ Stays
  BY <1>1, <1>2, SameChannels, NothingMoves DEF AccountInv
<1> QED
  BY <1>1, <1>3 DEF Effect, Nothing

LEMMA EndRequestEffect ==
  ASSUME TypeOK, AccountInv, NEW g \in Generations, EndRequest(g)
  PROVE  Effect /\ ChannelsDistinct'
<1>1. UNCHANGED <<fed, channel, routine>> /\ SameEnds /\ done' # {}
  BY DEF EndRequest, SameEnds, inputVars
<1>2. \A t \in Routines : Holds(t)' = Holds(t)
  BY <1>1 DEF Holds
<1>3. ChannelsDistinct' /\ Stays
  BY <1>1, <1>2, SameChannels, NothingMoves DEF AccountInv
<1> QED
  BY <1>1, <1>3 DEF Effect, RequestEnded

LEMMA StepEffect ==
  ASSUME TypeOK, StartInv, AccountInv, [Next]_vars
  PROVE  Effect /\ ChannelsDistinct'
BY PublishEffect, ReceiveEffect, SendEffect, ExitEffect, StoreEffect, StillEffect,
   EndRequestEffect DEF Next, Step
-----------------------------------------------------------------------------
(***************************************************************************)
(* From here on only movements count.  An update in flight is at one place *)
(* only: when it leaves that, it is in flight no more.                     *)
(***************************************************************************)
LEMMA LeavesFlight ==
  ASSUME OnePlace, NEW u, NEW p \in Places, Leaves(u, p)
  PROVE  OnePlace' /\ u \in InFlight /\ InFlight' = InFlight \ {u}
<1>1. OnePlace' /\ u \in InFlight
  BY InFlightPlaces DEF OnePlace, Leaves
<1>2. ASSUME NEW v \in InFlight'
      PROVE  v \in InFlight \ {u}
  BY InFlightPlaces DEF Leaves, OnePlace
<1>3. ASSUME NEW v \in InFlight \ {u}
      PROVE  v \in InFlight'
  <2>1. PICK q \in Places : v \in At(q)
    BY InFlightPlaces
  <2>2. v \in At(q)'
    BY <1>3, <2>1 DEF Leaves
  <2> QED
    BY <2>2, InFlightPlaces
<1> QED
  BY <1>1, <1>2, <1>3

(* One that moves stays in flight, at one place.                           *)
LEMMA MovesFlight ==
  ASSUME OnePlace, NEW u, NEW p \in Places, NEW q \in Places, p # q, Moves(u, p, q)
  PROVE  OnePlace' /\ InFlight' = InFlight
<1>1. OnePlace'
  <2> SUFFICES ASSUME NEW r \in Places, NEW s \in Places, r # s,
                      NEW v, v \in At(r)', v \in At(s)'
               PROVE  FALSE
    BY DEF OnePlace
  <2> QED
    BY DEF OnePlace, Moves
<1>2. ASSUME NEW v \in InFlight'
      PROVE  v \in InFlight
  BY InFlightPlaces DEF Moves
<1>3. ASSUME NEW v \in InFlight
      PROVE  v \in InFlight'
  <2>1. PICK r \in Places : v \in At(r)
    BY InFlightPlaces
  <2>2. v \in At(r)' \/ v \in At(q)'
    BY <2>1 DEF Moves
  <2> QED
    BY <2>2, InFlightPlaces
<1> QED
  BY <1>1, <1>2, <1>3

(* One that arrives was nowhere, and is at one place.                      *)
LEMMA ArrivesFlight ==
  ASSUME OnePlace, NEW u, NEW p \in Places, u \notin InFlight, Arrives(u, p)
  PROVE  OnePlace' /\ InFlight' = InFlight \cup {u}
<1>1. \A r \in Places : u \notin At(r)
  BY InFlightPlaces
<1>2. OnePlace'
  <2> SUFFICES ASSUME NEW r \in Places, NEW s \in Places, r # s,
                      NEW v, v \in At(r)', v \in At(s)'
               PROVE  FALSE
    BY DEF OnePlace
  <2> QED
    BY <1>1 DEF OnePlace, Arrives
<1>3. ASSUME NEW v \in InFlight'
      PROVE  v \in InFlight \cup {u}
  BY InFlightPlaces DEF Arrives
<1>4. ASSUME NEW v \in InFlight \cup {u}
      PROVE  v \in InFlight'
  BY InFlightPlaces DEF Arrives
<1> QED
  BY <1>2, <1>3, <1>4

(* Without a movement nothing changes.                                     *)
LEMMA StaysFlight ==
  ASSUME OnePlace, Stays
  PROVE  OnePlace' /\ InFlight' = InFlight
<1>1. \A v : v \in InFlight' <=> v \in InFlight
  BY InFlightPlaces DEF Stays
<1> QED
  BY <1>1 DEF OnePlace, Stays

(***************************************************************************)
(* Every movement keeps the account, and is a step of the lossy relay or   *)
(* none of it.                                                             *)
(***************************************************************************)
LEMMA MovementRelays ==
  ASSUME AccountInv, Effect
  PROVE  /\ OnePlace' /\ AllReported' /\ SwitchLosesNothing'
         /\ [Relay!Next]_(Relay!vars)
<1> DEFINE Kept == OnePlace' /\ AllReported' /\ SwitchLosesNothing'
<1>0. UNCHANGED fed => Reports' = Reports
  BY DEF Reports
<1>1. ASSUME NEW u \in Update, NEW p \in Places, Taken(u, p)
      PROVE  Kept /\ Relay!Accept(u)
  <2>1. u \notin InFlight
    BY <1>1 DEF Taken, NewReport, AccountInv, AllReported
  <2>2. OnePlace' /\ InFlight' = InFlight \cup {u}
    BY <1>1, <2>1, ArrivesFlight DEF Taken, AccountInv
  <2>3. Kept
    BY <1>1, <2>2
       DEF Taken, NewReport, SameEnds, AccountInv, AllReported, SwitchLosesNothing
  <2> QED
    BY <1>1, <2>2, <2>3 DEF Taken, NewReport, SameEnds, Relay!Accept
<1>2. ASSUME NEW u \in Update, Refused(u)
      PROVE  Kept /\ Relay!Refuse(u)
  <2>1. OnePlace' /\ InFlight' = InFlight
    BY <1>2, StaysFlight DEF Refused, AccountInv
  <2>2. Kept
    BY <1>2, <2>1
       DEF Refused, NewReport, Lost, AccountInv, AllReported, SwitchLosesNothing
  <2> QED
    BY <1>2, <2>1, <2>2 DEF Refused, NewReport, Lost, Relay!Refuse
<1>3. ASSUME NEW u \in Update, NEW p \in Places, NEW q \in Places, Passed(u, p, q)
      PROVE  Kept /\ UNCHANGED Relay!vars
  <2>1. OnePlace' /\ InFlight' = InFlight
    BY <1>3, MovesFlight DEF Passed, AccountInv
  <2>2. Reports' = Reports /\ SameEnds /\ UNCHANGED done
    BY <1>0, <1>3 DEF Passed, SameInput
  <2>3. Kept
    BY <2>1, <2>2 DEF SameEnds, AccountInv, AllReported, SwitchLosesNothing
  <2> QED
    BY <2>1, <2>2, <2>3 DEF SameEnds, Relay!vars
<1>4. ASSUME NEW u \in Update, NEW p \in Places,
             Dropped(u, p) \/ Stored(u, p) \/ Abandoned(u, p)
      PROVE  Kept /\ (Relay!GiveUp(u) \/ Relay!Deliver(u))
  <2>1. OnePlace' /\ u \in InFlight /\ InFlight' = InFlight \ {u}
    BY <1>4, LeavesFlight DEF Dropped, Stored, Abandoned, AccountInv
  <2>2. Reports' = Reports /\ UNCHANGED done
    BY <1>0, <1>4 DEF Dropped, Stored, Abandoned, SameInput
  <2>3. CASE Dropped(u, p)
    <3>1. Kept
      BY <2>1, <2>2, <2>3 DEF Dropped, Lost, AccountInv, AllReported, SwitchLosesNothing
    <3> QED
      BY <2>1, <2>2, <2>3, <3>1 DEF Dropped, Lost, Relay!GiveUp
  <2>4. CASE Stored(u, p)
    <3>1. Kept
      BY <2>1, <2>2, <2>4 DEF Stored, AccountInv, AllReported, SwitchLosesNothing
    <3> QED
      BY <2>1, <2>2, <2>4, <3>1 DEF Stored, Relay!Deliver
  <2>5. CASE Abandoned(u, p)
    <3>1. Kept
      BY <2>1, <2>2, <2>5
         DEF Abandoned, SameEnds, AccountInv, AllReported, SwitchLosesNothing
    <3> QED
      BY <2>1, <2>2, <2>5, <3>1 DEF Abandoned, SameEnds, Relay!GiveUp
  <2> QED
    BY <1>4, <2>3, <2>4, <2>5
<1>5. ASSUME RequestEnded \/ Nothing
      PROVE  Kept /\ (Relay!Stop \/ UNCHANGED Relay!vars)
  <2>1. OnePlace' /\ InFlight' = InFlight
    BY <1>5, StaysFlight DEF RequestEnded, Nothing, AccountInv
  <2>2. /\ Reports' = Reports /\ SameEnds
        /\ UNCHANGED done \/ done' # {}
    BY <1>0, <1>5 DEF RequestEnded, Nothing, SameInput
  <2>3. Kept
    BY <2>1, <2>2 DEF SameEnds, AccountInv, AllReported, SwitchLosesNothing
  <2> QED
    BY <1>5, <2>1, <2>2, <2>3
       DEF RequestEnded, Nothing, SameInput, SameEnds, Relay!Stop, Relay!vars
<1> QED
  BY <1>1, <1>2, <1>3, <1>4, <1>5 DEF Effect, Relay!Next

(* The account is inductive with the types and the start.                  *)
LEMMA AccountStep ==
  ASSUME TypeOK, StartInv, AccountInv, [Next]_vars
  PROVE  AccountInv' /\ [Relay!Next]_(Relay!vars)
BY StepEffect, MovementRelays DEF AccountInv

(* At first nothing has been reported.                                     *)
LEMMA NothingAtFirst ==
  ASSUME Init
  PROVE  AccountInv /\ Relay!Init
<1>1. /\ \A c \in Channels : Range(channel[c]) = {}
      /\ \A t \in Routines : Holds(t) = {}
  BY DEF Init, Holds, Absent, Range
<1>2. \A p \in Places : At(p) = {}
  BY <1>1, PlacesAre
<1>3. InFlight = {}
  BY <1>2, InFlightPlaces
<1>4. ChannelsDistinct
  BY DEF Init, ChannelsDistinct, NoRepeat
<1>5. Reports = {} /\ delivered = {} /\ lost = {} /\ done = {}
  BY DEF Init, Reports
<1> QED
  BY <1>2, <1>3, <1>4, <1>5
     DEF AccountInv, OnePlace, AllReported, SwitchLosesNothing, Relay!Init

LEMMA AccountKept == Spec => []AccountInv
<1>1. Init => AccountInv
  BY NothingAtFirst
<1>2. TypeOK /\ StartInv /\ AccountInv /\ [Next]_vars => AccountInv'
  BY AccountStep
<1> QED
  BY <1>1, <1>2, StartsKept, PTL DEF Spec

(***************************************************************************)
(* However many generations are at work on the same channels, an update is *)
(* in one place, and as long as no context is done none has vanished: a    *)
(* switch that hands an old distributor the new workers, or leaves the old *)
(* workers to finish, loses nothing by itself (StartDataProcessing).       *)
(***************************************************************************)
THEOREM SwitchesLoseNothing == Spec => []SwitchLosesNothing
<1>1. AccountInv => SwitchLosesNothing
  BY DEF AccountInv
<1> QED
  BY <1>1, AccountKept, PTL

(***************************************************************************)
(* The generations together implement the lossy relay: each step of theirs *)
(* takes in, delivers or gives up one update, or is none of the relay's,   *)
(* so no update is delivered twice however the switches fall.              *)
(***************************************************************************)
THEOREM SwitchesRelay == Spec => RelaysAcrossSwitches
<1>1. Init => Relay!Init
  BY NothingAtFirst
<1>2. TypeOK /\ StartInv /\ AccountInv /\ [Next]_vars => [Relay!Next]_(Relay!vars)
  BY AccountStep
<1> QED
  BY <1>1, <1>2, StartsKept, AccountKept, PTL DEF Spec, Relay!Spec, RelaysAcrossSwitches
=============================================================================
