------------------------ MODULE ExchangeServiceProofs ------------------------
(***************************************************************************)
(* The safety of the exchange service's two locks, modes and adapters, for *)
(* any number of handlers, observers, adapters and requests.               *)
(***************************************************************************)
EXTENDS ExchangeService, TLAPS

(* The adapters of a mode, in order.                                       *)
LEMMA AdaptersOfType ==
  ASSUME NEW m \in Modes
  PROVE  AdaptersOf(m) \in Seq(Adapters)
BY ServiceAssumption DEF AdaptersOf, Adapters, Modes

(* A return leads to a step there is.                                      *)
LEMMA ReturnType ==
  ASSUME TypeOK, NEW c \in Callers, NEW r \in {"ok", "error", "panic"},
         NEW next \in Labels, Return(c, r, next)
  PROVE  pc' \in [Callers -> Labels]
BY DEF Return, Goto, TypeOK, Labels

(* The same for the two functions that return.                             *)
LEMMA SwitchReturnType ==
  ASSUME TypeOK, NEW c \in Callers, NEW r \in {"ok", "error", "panic"},
         ReturnFromSwitch(c, r) \/ ReturnFromStart(c, r)
  PROVE  pc' \in [Callers -> Labels] /\ modeMutex' \in Callers \cup {Free}
<1>1. \/ Return(c, r, "startLock")
      \/ Return(c, r, "stream")
  BY DEF ReturnFromSwitch, ReturnFromStart
<1>2. pc' \in [Callers -> Labels]
  BY <1>1, ReturnType DEF Labels
<1> QED
  BY <1>2 DEF ReturnFromSwitch, ReturnFromStart, TypeOK

(* No step breaks a type.                                                  *)
LEMMA TypeStep == TypeOK /\ [Next]_vars => TypeOK'
<1> SUFFICES ASSUME TypeOK, [Next]_vars PROVE TypeOK'
  OBVIOUS
<1> USE DEF serviceVars, lockVars, adapterVars, callVars, worldVars
<1>1. ASSUME NEW h \in Handlers, NEW m \in Modes, BeginRequest(h, m) PROVE TypeOK'
  BY <1>1 DEF BeginRequest, TypeOK, Goto, Labels, Callers
<1>2. ASSUME NEW h \in Handlers, RequestTimeout(h) PROVE TypeOK'
  BY <1>2 DEF RequestTimeout, TypeOK
<1>3. ASSUME NEW h \in Handlers, Respond(h) PROVE TypeOK'
  <2>1. h \in Callers /\ "live" \in Modes /\ <<>> \in Seq(Adapters)
    BY DEF Callers, Modes
  <2>2. /\ pc' \in [Callers -> Labels]
        /\ target' \in [Callers -> Modes]
        /\ req' \in [Callers -> Nat]
        /\ was' \in [Callers -> BOOLEAN]
    BY <1>3, <2>1 DEF Respond, TypeOK, Goto, Labels
  <2>3. /\ todo' \in [Callers -> Seq(Adapters)]
        /\ inputs' \in [Callers -> SUBSET Adapters]
    BY <1>3, <2>1 DEF Respond, TypeOK
  <2> QED
    BY <1>3, <2>2, <2>3 DEF Respond, TypeOK
<1>4. ASSUME NEW c \in Callers, SwitchLock(c) PROVE TypeOK'
  <2>1. Goto(c, "readRunning") => pc' \in [Callers -> Labels]
    BY DEF Goto, TypeOK, Labels
  <2>2. pc' \in [Callers -> Labels]
    BY <1>4, <2>1, ReturnType DEF SwitchLock, Labels
  <2> QED
    BY <1>4, <2>2 DEF SwitchLock, TypeOK
<1>5. ASSUME NEW c \in Callers, SwitchReadRunning(c) PROVE TypeOK'
  BY <1>5, AdaptersOfType DEF SwitchReadRunning, TypeOK, Goto, Labels
<1>6. ASSUME NEW c \in Callers, SwitchStopAdapter(c) PROVE TypeOK'
  <2> DEFINE a == Head(todo[c])
  <2>1. a \in Adapters /\ Tail(todo[c]) \in Seq(Adapters)
    BY <1>6 DEF SwitchStopAdapter, TypeOK
  <2>2. /\ running' = [running EXCEPT ![a] = FALSE]
        /\ stopped' = [stopped EXCEPT ![a] = @ \/ running[a]]
        /\ todo' = [todo EXCEPT ![c] = Tail(@)]
        /\ \/ UNCHANGED <<modeMutex, pc, stopPanicked>>
           \/ ReturnFromSwitch(c, "panic") /\ stopPanicked' = TRUE
    BY <1>6 DEF SwitchStopAdapter
  <2> HIDE DEF a
  <2>3. /\ running' \in [Adapters -> BOOLEAN]
        /\ stopped' \in [Adapters -> BOOLEAN]
        /\ todo' \in [Callers -> Seq(Adapters)]
    BY <2>1, <2>2 DEF TypeOK
  <2>4. /\ pc' \in [Callers -> Labels]
        /\ modeMutex' \in Callers \cup {Free}
        /\ stopPanicked' \in BOOLEAN
    BY <2>2, SwitchReturnType DEF TypeOK
  <2> QED
    BY <1>6, <2>3, <2>4 DEF SwitchStopAdapter, TypeOK
<1>7. ASSUME NEW c \in Callers, SwitchClearRunning(c) PROVE TypeOK'
  BY <1>7 DEF SwitchClearRunning, TypeOK, Goto, Labels
<1>8. ASSUME NEW c \in Callers, SwitchSetAdapters(c) PROVE TypeOK'
  BY <1>8 DEF SwitchSetAdapters, TypeOK, Goto, Labels
<1>9. ASSUME NEW c \in Callers, SwitchSetMode(c) PROVE TypeOK'
  <2>1. Goto(c, "startLock") => pc' \in [Callers -> Labels]
    BY DEF Goto, TypeOK, Labels
  <2>2. pc' \in [Callers -> Labels] /\ modeMutex' \in Callers \cup {Free}
    BY <1>9, <2>1, SwitchReturnType DEF SwitchSetMode, TypeOK
  <2> QED
    BY <1>9, <2>2 DEF SwitchSetMode, TypeOK
<1>10. ASSUME NEW c \in Callers, StartLock(c) PROVE TypeOK'
  <2>1. CASE /\ isRunning
             /\ ReturnFromStart(c, "ok")
             /\ UNCHANGED <<runMutex, ctx, todo, inputs>>
    <3>1. pc' \in [Callers -> Labels] /\ modeMutex' \in Callers \cup {Free}
      BY <2>1, SwitchReturnType
    <3> QED
      BY <1>10, <2>1, <3>1 DEF StartLock, TypeOK
  <2>2. CASE /\ ~isRunning
             /\ runMutex' = c
             /\ ctx' = req[c]
             /\ todo' = [todo EXCEPT ![c] = AdaptersOf(activeAdapters)]
             /\ inputs' = [inputs EXCEPT ![c] = {}]
             /\ Goto(c, "startAdapters")
             /\ UNCHANGED <<modeMutex>>
    BY <1>10, <2>2, AdaptersOfType DEF StartLock, TypeOK, Goto, Labels
  <2> QED
    BY <1>10, <2>1, <2>2 DEF StartLock
<1>11. ASSUME NEW c \in Callers, StartAdapter(c) PROVE TypeOK'
  <2> DEFINE a == Head(todo[c])
  <2>1. a \in Adapters /\ Tail(todo[c]) \in Seq(Adapters)
    BY <1>11 DEF StartAdapter, TypeOK
  <2> HIDE DEF a
  <2>2. /\ \/ /\ running' = [running EXCEPT ![a] = TRUE]
              /\ inputs' = [inputs EXCEPT ![c] = @ \cup {a}]
           \/ UNCHANGED <<running, inputs>>
        /\ todo' = [todo EXCEPT ![c] = Tail(@)]
    BY <1>11 DEF StartAdapter, a
  <2>3. running' \in [Adapters -> BOOLEAN]
    BY <2>1, <2>2 DEF TypeOK
  <2>4. inputs' \in [Callers -> SUBSET Adapters]
    <3>1. inputs[c] \cup {a} \in SUBSET Adapters
      BY <2>1 DEF TypeOK
    <3> DEFINE more == inputs[c] \cup {a}
    <3>2. inputs' = [inputs EXCEPT ![c] = more] \/ inputs' = inputs
      BY <2>2
    <3> HIDE DEF more
    <3> QED
      BY <3>1, <3>2 DEF TypeOK, more
  <2>5. todo' \in [Callers -> Seq(Adapters)]
    BY <2>1, <2>2 DEF TypeOK
  <2> QED
    BY <1>11, <2>3, <2>4, <2>5 DEF StartAdapter, TypeOK
<1>12. ASSUME NEW c \in Callers, StartFinish(c) PROVE TypeOK'
  <2>1. ReturnFromStart(c, "error") \/ ReturnFromStart(c, "ok")
    BY <1>12 DEF StartFinish
  <2>2. pc' \in [Callers -> Labels] /\ modeMutex' \in Callers \cup {Free}
    BY <2>1, SwitchReturnType
  <2> QED
    BY <1>12, <2>2 DEF StartFinish, TypeOK
<1>13. CASE GetDataStream
  BY <1>13 DEF GetDataStream, TypeOK, Goto, Labels, Callers
<1>14. ASSUME NEW o \in Observers, GetStatsLock(o) PROVE TypeOK'
  BY <1>14 DEF GetStatsLock, TypeOK
<1>15. ASSUME NEW o \in Observers, GetStatsRead(o) PROVE TypeOK'
  BY <1>15 DEF GetStatsRead, TypeOK
<1>16. CASE UNCHANGED vars
  BY <1>16 DEF vars, TypeOK
<1> QED
  BY <1>1, <1>2, <1>3, <1>4, <1>5, <1>6, <1>7, <1>8, <1>9, <1>10, <1>11,
     <1>12, <1>13, <1>14, <1>15, <1>16 DEF Next, Step

(* Nothing was called at the start.                                        *)
LEMMA TypeInit == Init => TypeOK
<1> SUFFICES ASSUME Init PROVE TypeOK
  OBVIOUS
<1>1. "live" \in Modes /\ <<>> \in Seq(Adapters) /\ {} \in SUBSET Adapters
  BY DEF Modes
<1>2. pc \in [Callers -> Labels] /\ target \in [Callers -> Modes]
  BY <1>1 DEF Init, Labels
<1>3. todo \in [Callers -> Seq(Adapters)]
  BY <1>1 DEF Init
<1>4. inputs \in [Callers -> SUBSET Adapters]
  BY <1>1 DEF Init
<1>5. req \in [Callers -> Nat] /\ was \in [Callers -> BOOLEAN]
  BY DEF Init
<1>6. running \in [Adapters -> BOOLEAN] /\ stopped \in [Adapters -> BOOLEAN]
  BY DEF Init
<1> QED
  BY <1>1, <1>2, <1>3, <1>4, <1>5, <1>6 DEF Init, TypeOK
-----------------------------------------------------------------------------
(***************************************************************************)
(* The locks.  A switch holds modeMutex, so no observer holds it too, and  *)
(* the mode lags behind the adapters only just before it is set.           *)
(***************************************************************************)
Switching == {"readRunning", "stopAdapters", "setAdapters", "setMode"}

LocksKept ==
  /\ modeMutex # Free => modeReaders = {}
  /\ \A c \in Callers : pc[c] \in Switching => modeMutex = c
  /\ \A c \in Callers : pc[c] = "setMode" => activeAdapters = target[c]
  /\ (\A c \in Callers : pc[c] # "setMode") => activeAdapters = currentMode

LockInv == TypeOK /\ LocksKept

(* Where a caller is after a return, and what becomes of modeMutex.        *)
LEMMA ReturnGoes ==
  ASSUME TypeOK, NEW c \in Callers, NEW r \in {"ok", "error", "panic"},
         NEW next \in {"startLock", "stream"}, Return(c, r, next)
  PROVE  /\ \A d \in Callers : d # c => pc'[d] = pc[d]
         /\ c # Processor => pc'[c] = "respond"
         /\ c = Processor /\ r = "ok" => pc'[c] = next
         /\ c = Processor /\ r = "error" => pc'[c] = "failed"
         /\ c = Processor /\ r = "panic" => pc'[c] = "panicked"
<1> DEFINE to == IF c = Processor
                 THEN [ok |-> next, error |-> "failed", panic |-> "panicked"][r]
                 ELSE "respond"
<1>1. pc' = [pc EXCEPT ![c] = to]
  BY DEF Return, Goto
<1>2. /\ c # Processor => to = "respond"
      /\ c = Processor /\ r = "ok" => to = next
      /\ c = Processor /\ r = "error" => to = "failed"
      /\ c = Processor /\ r = "panic" => to = "panicked"
  OBVIOUS
<1> HIDE DEF to
<1> QED
  BY <1>1, <1>2 DEF TypeOK

(* The same for the two functions that return.                             *)
LEMMA SwitchReturnGoes ==
  ASSUME TypeOK, NEW c \in Callers, NEW r \in {"ok", "error", "panic"},
         ReturnFromSwitch(c, r) \/ ReturnFromStart(c, r)
  PROVE  /\ \A d \in Callers : d # c => pc'[d] = pc[d]
         /\ pc'[c] \in {"respond", "startLock", "stream", "failed", "panicked"}
         /\ modeMutex' = IF ReturnFromStart(c, r) /\ modeMutex # c THEN modeMutex ELSE Free
<1>1. Return(c, r, "startLock") \/ Return(c, r, "stream")
  BY DEF ReturnFromSwitch, ReturnFromStart
<1>2. \A d \in Callers : d # c => pc'[d] = pc[d]
  BY <1>1, ReturnGoes
<1>3. pc'[c] \in {"respond", "startLock", "stream", "failed", "panicked"}
  BY <1>1, ReturnGoes
<1> QED
  BY <1>2, <1>3 DEF ReturnFromSwitch, ReturnFromStart

(* Each action keeps the locks as they are meant.                          *)
LEMMA LockStep == LockInv /\ [Next]_vars => LockInv'
<1> SUFFICES ASSUME LockInv, [Next]_vars PROVE LocksKept'
  BY TypeStep DEF LockInv
<1> TypeOK
  BY DEF LockInv
<1> USE DEF serviceVars, lockVars, adapterVars, callVars, worldVars
(* A caller that leaves the switch, with its lock or without.              *)
<1>a. ASSUME NEW c \in Callers,
             \A d \in Callers : d # c => pc'[d] = pc[d] /\ target'[d] = target[d],
             pc'[c] \notin Switching,
             pc[c] # "setMode",
             modeMutex' = modeMutex \/ (modeMutex' = Free /\ modeMutex = c),
             UNCHANGED <<currentMode, activeAdapters, modeReaders>>
      PROVE  LocksKept'
  BY <1>a, ServiceAssumption DEF LockInv, LocksKept, Switching, Callers
<1>1. ASSUME NEW h \in Handlers, NEW m \in Modes, BeginRequest(h, m) PROVE LocksKept'
  BY <1>1, <1>a DEF BeginRequest, Goto, TypeOK, Callers, Switching
<1>2. ASSUME UNCHANGED <<currentMode, activeAdapters, modeMutex, modeReaders, pc, target>>
      PROVE  LocksKept'
  BY <1>2 DEF LockInv, LocksKept
<1>3. ASSUME NEW h \in Handlers, Respond(h) PROVE LocksKept'
  BY <1>3, <1>a DEF Respond, Goto, TypeOK, Callers, Switching
<1>4. ASSUME NEW c \in Callers, SwitchLock(c) PROVE LocksKept'
  <2>1. CASE Return(c, "ok", "startLock") /\ UNCHANGED modeMutex
    <3>1. /\ \A d \in Callers : d # c => pc'[d] = pc[d]
          /\ pc'[c] \in {"respond", "startLock"}
      BY <2>1, ReturnGoes
    <3> QED
      BY <1>4, <1>a, <2>1, <3>1 DEF SwitchLock, Switching
  <2>2. CASE modeMutex' = c /\ Goto(c, "readRunning")
    BY <1>4, <2>2, ServiceAssumption
       DEF SwitchLock, Goto, TypeOK, LockInv, LocksKept, Switching
  <2> QED
    BY <1>4, <2>1, <2>2 DEF SwitchLock
<1>5. ASSUME NEW c \in Callers, SwitchReadRunning(c) PROVE LocksKept'
  BY <1>5 DEF SwitchReadRunning, Goto, TypeOK, LockInv, LocksKept, Switching
<1>6. ASSUME NEW c \in Callers, SwitchStopAdapter(c) PROVE LocksKept'
  <2>1. CASE UNCHANGED <<modeMutex, pc>>
    BY <1>2, <1>6, <2>1 DEF SwitchStopAdapter
  <2>2. CASE ReturnFromSwitch(c, "panic")
    <3>1. /\ \A d \in Callers : d # c => pc'[d] = pc[d]
          /\ pc'[c] \notin Switching
          /\ modeMutex' = Free
      BY <2>2, SwitchReturnGoes DEF ReturnFromSwitch, Switching
    <3>2. modeMutex = c
      BY <1>6 DEF SwitchStopAdapter, LockInv, LocksKept, Switching
    <3> QED
      BY <1>6, <1>a, <3>1, <3>2 DEF SwitchStopAdapter
  <2> QED
    BY <1>6, <2>1, <2>2 DEF SwitchStopAdapter
<1>7. ASSUME NEW c \in Callers, SwitchClearRunning(c) PROVE LocksKept'
  BY <1>7 DEF SwitchClearRunning, Goto, TypeOK, LockInv, LocksKept, Switching
<1>8. ASSUME NEW c \in Callers, SwitchSetAdapters(c) PROVE LocksKept'
  BY <1>8 DEF SwitchSetAdapters, Goto, TypeOK, LockInv, LocksKept, Switching
<1>9. ASSUME NEW c \in Callers, SwitchSetMode(c) PROVE LocksKept'
  <2>1. /\ modeMutex = c
        /\ \A d \in Callers : d # c => pc[d] \notin Switching
        /\ currentMode' = activeAdapters
        /\ UNCHANGED <<activeAdapters, modeReaders, target>>
    BY <1>9 DEF SwitchSetMode, LockInv, LocksKept, Switching
  <2>2. /\ \A d \in Callers : d # c => pc'[d] = pc[d]
        /\ pc'[c] \notin Switching
        /\ modeMutex' = modeMutex \/ modeMutex' = Free
    <3>1. CASE Goto(c, "startLock") /\ UNCHANGED modeMutex
      BY <3>1 DEF Goto, TypeOK, Switching
    <3>2. CASE ReturnFromSwitch(c, "ok")
      BY <3>2, SwitchReturnGoes DEF ReturnFromSwitch, Switching
    <3> QED
      BY <1>9, <3>1, <3>2 DEF SwitchSetMode
  <2> QED
    BY <2>1, <2>2 DEF LockInv, LocksKept, Switching
<1>10. ASSUME NEW c \in Callers, ReturnFromStart(c, "ok") \/ ReturnFromStart(c, "error"),
              pc[c] # "setMode",
              UNCHANGED <<currentMode, activeAdapters, modeReaders, target>>
       PROVE  LocksKept'
  <2>1. /\ \A d \in Callers : d # c => pc'[d] = pc[d]
        /\ pc'[c] \notin Switching
    BY <1>10, SwitchReturnGoes DEF Switching
  <2>2. modeMutex' = modeMutex \/ (modeMutex' = Free /\ modeMutex = c)
    BY <1>10 DEF ReturnFromStart, ReturnFromSwitch
  <2> QED
    BY <1>10, <1>a, <2>1, <2>2
<1>11. ASSUME NEW c \in Callers, StartLock(c) PROVE LocksKept'
  <2>1. CASE ReturnFromStart(c, "ok")
    BY <1>10, <1>11, <2>1 DEF StartLock
  <2>2. CASE Goto(c, "startAdapters") /\ UNCHANGED modeMutex
    BY <1>11, <1>a, <2>2 DEF StartLock, Goto, TypeOK, Switching
  <2> QED
    BY <1>11, <2>1, <2>2 DEF StartLock
<1>12. ASSUME NEW c \in Callers, StartFinish(c) PROVE LocksKept'
  BY <1>10, <1>12 DEF StartFinish
<1>13. CASE GetDataStream
  BY <1>13, <1>a DEF GetDataStream, Goto, TypeOK, Callers, Switching
<1>14. ASSUME NEW o \in Observers, GetStatsLock(o) \/ GetStatsRead(o) PROVE LocksKept'
  BY <1>14 DEF GetStatsLock, GetStatsRead, LockInv, LocksKept
<1> QED
  BY <1>1, <1>2, <1>3, <1>4, <1>5, <1>6, <1>7, <1>8, <1>9, <1>11, <1>12, <1>13, <1>14
     DEF Next, Step, RequestTimeout, StartAdapter, vars

(***************************************************************************)
(* Type correctness.                                                       *)
(***************************************************************************)
THEOREM TypeCorrect == Spec => []TypeOK
BY TypeInit, TypeStep, PTL DEF Spec

(***************************************************************************)
(* GetStats never reads the adapters of one mode and the name of another.  *)
(***************************************************************************)
THEOREM StatsAreCoherent == Spec => []StatsCoherent
<1>1. Init => LockInv
  BY TypeInit, ServiceAssumption DEF Init, LockInv, LocksKept, Switching
<1>2. LockInv => StatsCoherent
  BY ServiceAssumption DEF LockInv, LocksKept, Switching, StatsCoherent, CanReadStats
<1> QED
  BY <1>1, <1>2, LockStep, PTL DEF Spec
-----------------------------------------------------------------------------
(***************************************************************************)
(* Whoever holds runMutex is starting adapters and waits for no lock, and  *)
(* whoever holds modeMutex is past the wait for it.                        *)
(***************************************************************************)
HoldersGoOn ==
  /\ runMutex # Free => pc[runMutex] = "startAdapters"
  /\ modeMutex # Free =>
       pc[modeMutex] \in Switching \cup {"startLock", "startAdapters"}

(* What each action does to the holders: the one that takes a step keeps   *)
(* its lock and goes on inside the service, or gives it up; nobody else's  *)
(* program counter changes.                                                *)
LEMMA HoldersStep == TypeOK /\ HoldersGoOn /\ [Next]_vars => HoldersGoOn'
<1> SUFFICES ASSUME TypeOK, HoldersGoOn, [Next]_vars PROVE HoldersGoOn'
  OBVIOUS
<1> USE DEF serviceVars, lockVars, adapterVars, callVars, worldVars
(* A step outside the locks.                                               *)
<1>a. ASSUME NEW c \in Callers, NEW l \in Labels, Goto(c, l),
             pc[c] \notin Switching \cup {"startLock", "startAdapters"},
             UNCHANGED <<runMutex, modeMutex>>
      PROVE  HoldersGoOn'
  BY <1>a, ServiceAssumption DEF HoldersGoOn, Goto, TypeOK, Switching
(* A step on the way through a switch.                                     *)
<1>b. ASSUME NEW c \in Callers, NEW l \in Switching \cup {"startLock"}, Goto(c, l),
             pc[c] \in Switching, UNCHANGED <<runMutex, modeMutex>>
      PROVE  HoldersGoOn'
  BY <1>b, ServiceAssumption DEF HoldersGoOn, Goto, TypeOK, Switching
(* A return, with what its caller held given up.                           *)
<1>c. ASSUME NEW c \in Callers,
             \A d \in Callers : d # c => pc'[d] = pc[d],
             modeMutex' = Free \/ (modeMutex' = modeMutex /\ modeMutex # c),
             runMutex' = Free \/ (runMutex' = runMutex /\ runMutex # c)
      PROVE  HoldersGoOn'
  BY <1>c DEF HoldersGoOn, TypeOK
<1>1. ASSUME UNCHANGED <<runMutex, modeMutex, pc>>
      PROVE  HoldersGoOn'
  BY <1>1 DEF HoldersGoOn
<1>2. ASSUME NEW h \in Handlers, NEW m \in Modes, BeginRequest(h, m)
      PROVE  HoldersGoOn'
  BY <1>2, <1>a DEF BeginRequest, Callers, Labels, Switching
<1>3. ASSUME NEW h \in Handlers, Respond(h)
      PROVE  HoldersGoOn'
  BY <1>3, <1>a DEF Respond, Callers, Labels, Switching
<1>4. ASSUME NEW c \in Callers, SwitchLock(c)
      PROVE  HoldersGoOn'
  <2>1. runMutex # c /\ modeMutex = Free
    BY <1>4, ServiceAssumption DEF SwitchLock, HoldersGoOn
  <2>2. CASE Return(c, "ok", "startLock") /\ UNCHANGED modeMutex
    <3>1. \A d \in Callers : d # c => pc'[d] = pc[d]
      BY <2>2, ReturnGoes
    <3> QED
      BY <1>4, <1>c, <2>1, <2>2, <3>1 DEF SwitchLock
  <2>3. CASE modeMutex' = c /\ Goto(c, "readRunning")
    <3>1. pc'[c] = "readRunning" /\ \A d \in Callers : d # c => pc'[d] = pc[d]
      BY <2>3 DEF Goto, TypeOK
    <3> QED
      BY <1>4, <2>1, <2>3, <3>1 DEF SwitchLock, HoldersGoOn, TypeOK, Switching
  <2> QED
    BY <1>4, <2>2, <2>3 DEF SwitchLock
<1>5. ASSUME NEW c \in Callers,
             SwitchReadRunning(c) \/ SwitchClearRunning(c) \/ SwitchSetAdapters(c)
      PROVE  HoldersGoOn'
  BY <1>5, <1>b
     DEF SwitchReadRunning, SwitchClearRunning, SwitchSetAdapters, Switching
<1>6. ASSUME NEW c \in Callers, ReturnFromSwitch(c, "ok") \/ ReturnFromSwitch(c, "panic"),
             pc[c] # "startAdapters", UNCHANGED runMutex
      PROVE  HoldersGoOn'
  <2>1. runMutex # c
    BY <1>6, ServiceAssumption DEF HoldersGoOn
  <2>2. modeMutex' = Free /\ \A d \in Callers : d # c => pc'[d] = pc[d]
    BY <1>6, SwitchReturnGoes DEF ReturnFromSwitch
  <2> QED
    BY <1>6, <1>c, <2>1, <2>2
<1>7. ASSUME NEW c \in Callers, SwitchStopAdapter(c)
      PROVE  HoldersGoOn'
  BY <1>1, <1>6, <1>7 DEF SwitchStopAdapter
<1>8. ASSUME NEW c \in Callers, SwitchSetMode(c)
      PROVE  HoldersGoOn'
  BY <1>6, <1>8, <1>b DEF SwitchSetMode, Switching
<1>9. ASSUME NEW c \in Callers, ReturnFromStart(c, "ok") \/ ReturnFromStart(c, "error"),
             runMutex' = Free
      PROVE  HoldersGoOn'
  <2>1. \A d \in Callers : d # c => pc'[d] = pc[d]
    BY <1>9, SwitchReturnGoes
  <2>2. modeMutex' = Free \/ (modeMutex' = modeMutex /\ modeMutex # c)
    BY <1>9 DEF ReturnFromStart, ReturnFromSwitch
  <2> QED
    BY <1>9, <1>c, <2>1, <2>2
<1>10. ASSUME NEW c \in Callers, StartLock(c)
       PROVE  HoldersGoOn'
  <2>1. CASE ReturnFromStart(c, "ok") /\ UNCHANGED runMutex
    BY <1>9, <1>10, <2>1 DEF StartLock
  <2>2. CASE runMutex' = c /\ Goto(c, "startAdapters") /\ UNCHANGED modeMutex
    <3>1. pc'[c] = "startAdapters" /\ \A d \in Callers : d # c => pc'[d] = pc[d]
      BY <2>2 DEF Goto, TypeOK
    <3> QED
      BY <2>2, <3>1 DEF HoldersGoOn, TypeOK
  <2> QED
    BY <1>10, <2>1, <2>2 DEF StartLock
<1>11. ASSUME NEW c \in Callers, StartFinish(c)
       PROVE  HoldersGoOn'
  BY <1>9, <1>11 DEF StartFinish
<1>12. CASE GetDataStream
  BY <1>12, <1>a DEF GetDataStream, Callers, Labels, Switching
<1>13. ASSUME NEW c \in Callers, StartAdapter(c)
       PROVE  HoldersGoOn'
  BY <1>1, <1>13 DEF StartAdapter
<1> QED
  BY <1>1, <1>2, <1>3, <1>4, <1>5, <1>7, <1>8, <1>10, <1>11, <1>12, <1>13
     DEF Next, Step, RequestTimeout, GetStatsLock, GetStatsRead, vars

(***************************************************************************)
(* No order of handlers, start-up and observers at the two locks ends in   *)
(* everyone waiting: the holder of runMutex goes on, else that of          *)
(* modeMutex, else an observer, else whoever wants modeMutex.  This is the *)
(* safety at the bottom of EveryCallReturns.                               *)
(***************************************************************************)
THEOREM NobodyDeadlocks == Spec => []NoDeadlock
<1>1. Init => HoldersGoOn
  BY DEF Init, HoldersGoOn
<1>2. ASSUME TypeOK, HoldersGoOn
      PROVE  NoDeadlock
  <2> SUFFICES ASSUME modeReaders # {} \/ \E c \in Callers : InService(c),
                      ~(\E o \in Observers : CanReadStats(o))
               PROVE  \E c \in Callers :
                        InService(c) /\ ~WaitsForMode(c) /\ ~WaitsForRun(c)
    BY DEF NoDeadlock
  <2>1. CASE runMutex # Free
    BY <1>2, <2>1 DEF HoldersGoOn, TypeOK, InService, WaitsForMode, WaitsForRun
  <2>2. CASE runMutex = Free /\ modeMutex # Free
    BY <1>2, <2>2 DEF HoldersGoOn, TypeOK, Switching, InService, WaitsForMode, WaitsForRun
  <2>3. CASE runMutex = Free /\ modeMutex = Free
    <3>1. modeReaders = {}
      BY <1>2, <2>3 DEF TypeOK, CanReadStats
    <3> QED
      BY <2>3, <3>1 DEF WaitsForMode, WaitsForRun
  <2> QED
    BY <2>1, <2>2, <2>3
<1> QED
  BY <1>1, <1>2, HoldersStep, TypeCorrect, PTL DEF Spec
-----------------------------------------------------------------------------
(***************************************************************************)
(* Start-up.  Until the processor has left SwitchToLiveMode nobody has     *)
(* started an adapter, so it has none to stop.                             *)
(***************************************************************************)
Starting == {"startLock", "startAdapters"}

NothingStarted ==
  /\ ~isRunning
  /\ \A a \in Adapters : ~running[a]
  /\ \A c \in Callers : ~was[c] /\ pc[c] \notin Starting

FreshStart ==
  /\ pc[Processor] \in Switching \cup {"lock"} => NothingStarted
  /\ pc[Processor] # "panicked"

FreshInv == TypeOK /\ FreshStart

(* Each action of start-up leaves the adapters alone until it starts them. *)
LEMMA FreshStep == FreshInv /\ [Next]_vars => FreshInv'
<1> SUFFICES ASSUME FreshInv, [Next]_vars PROVE FreshStart'
  BY TypeStep DEF FreshInv
<1> TypeOK /\ TypeOK'
  BY TypeStep DEF FreshInv
<1> USE DEF serviceVars, lockVars, adapterVars, callVars, worldVars
<1>0. Processor \in Callers /\ \A h \in Handlers : h # Processor /\ h \in Callers
  BY ServiceAssumption DEF Callers
(* A caller goes on, and starts or remembers nothing.                      *)
<1>a. ASSUME NEW c \in Callers,
             \A d \in Callers : d # c => pc'[d] = pc[d] /\ was'[d] = was[d],
             c = Processor => pc'[c] # "panicked" /\ (pc'[c] \in Switching \cup {"lock"} =>
                                                       pc[c] \in Switching \cup {"lock"}),
             was'[c] => was[c] \/ isRunning,
             pc'[c] \in Starting => c = Processor,
             isRunning' => isRunning,
             \A a \in Adapters : running'[a] => running[a]
      PROVE  FreshStart'
  BY <1>a, <1>0 DEF FreshInv, FreshStart, NothingStarted, Starting, Switching
<1>b. ASSUME NEW c \in Callers, pc[c] \in Starting,
             \A d \in Callers : d # c => pc'[d] = pc[d] /\ was'[d] = was[d],
             c = Processor => pc'[c] \notin Switching \cup {"lock", "panicked"}
      PROVE  FreshStart'
  BY <1>b, <1>0 DEF FreshInv, FreshStart, NothingStarted, Starting, Switching
<1>1. ASSUME NEW h \in Handlers, NEW m \in Modes, BeginRequest(h, m) PROVE FreshStart'
  BY <1>0, <1>1, <1>a DEF BeginRequest, Goto, TypeOK, Starting
<1>2. ASSUME UNCHANGED <<pc, was, isRunning, running>> PROVE FreshStart'
  BY <1>2 DEF FreshInv, FreshStart, NothingStarted
<1>3. ASSUME NEW h \in Handlers, Respond(h) PROVE FreshStart'
  BY <1>0, <1>3, <1>a DEF Respond, Goto, TypeOK, Starting
<1>4. ASSUME NEW c \in Callers, SwitchLock(c) PROVE FreshStart'
  <2>1. CASE Return(c, "ok", "startLock")
    <3>1. /\ \A d \in Callers : d # c => pc'[d] = pc[d]
          /\ pc'[c] = IF c = Processor THEN "startLock" ELSE "respond"
      BY <2>1, ReturnGoes
    <3> QED
      BY <1>4, <1>a, <3>1 DEF SwitchLock, Switching, Starting
  <2>2. CASE Goto(c, "readRunning")
    BY <1>4, <1>a, <2>2 DEF SwitchLock, Goto, TypeOK, Switching, Starting
  <2> QED
    BY <1>4, <2>1, <2>2 DEF SwitchLock
<1>5. ASSUME NEW c \in Callers, SwitchReadRunning(c) PROVE FreshStart'
  BY <1>5, <1>a DEF SwitchReadRunning, Goto, TypeOK, Switching, Starting
<1>6. ASSUME NEW c \in Callers, SwitchStopAdapter(c) PROVE FreshStart'
  <2> DEFINE a == Head(todo[c])
  <2>0. a \in Adapters
    BY <1>6 DEF SwitchStopAdapter, TypeOK
  <2>1. /\ pc[c] = "stopAdapters"
        /\ running' = [running EXCEPT ![a] = FALSE]
        /\ UNCHANGED <<isRunning, was>>
        /\ \/ UNCHANGED pc
           \/ running[a] /\ ReturnFromSwitch(c, "panic")
    BY <1>6 DEF SwitchStopAdapter
  <2> HIDE DEF a
  <2>2. \A b \in Adapters : running'[b] => running[b]
    BY <2>0, <2>1 DEF TypeOK
  <2>3. CASE UNCHANGED pc
    BY <2>1, <2>2, <2>3 DEF FreshInv, FreshStart, NothingStarted
  <2>4. CASE running[a] /\ ReturnFromSwitch(c, "panic")
    <3>1. c # Processor
      BY <2>0, <2>1, <2>4 DEF FreshInv, FreshStart, NothingStarted, Switching
    <3>2. /\ \A d \in Callers : d # c => pc'[d] = pc[d]
          /\ pc'[c] = "respond"
      BY <2>4, <3>1, ReturnGoes DEF ReturnFromSwitch
    <3> QED
      BY <1>a, <2>1, <2>2, <3>1, <3>2 DEF Starting
  <2> QED
    BY <2>1, <2>3, <2>4
<1>7. ASSUME NEW c \in Callers, SwitchClearRunning(c) \/ SwitchSetAdapters(c) PROVE FreshStart'
  BY <1>7, <1>a DEF SwitchClearRunning, SwitchSetAdapters, Goto, TypeOK, Switching, Starting
<1>8. ASSUME NEW c \in Callers, SwitchSetMode(c) PROVE FreshStart'
  <2>1. /\ pc[c] = "setMode"
        /\ UNCHANGED <<isRunning, running, was>>
        /\ \/ was[c] /\ Goto(c, "startLock")
           \/ Return(c, "ok", "startLock")
    BY <1>8 DEF SwitchSetMode, ReturnFromSwitch
  <2>2. CASE was[c] /\ Goto(c, "startLock")
    BY <1>0, <2>1, <2>2
       DEF Goto, TypeOK, FreshInv, FreshStart, NothingStarted, Switching, Starting
  <2>3. CASE Return(c, "ok", "startLock")
    <3>1. /\ \A d \in Callers : d # c => pc'[d] = pc[d]
          /\ pc'[c] = IF c = Processor THEN "startLock" ELSE "respond"
      BY <2>3, ReturnGoes
    <3> QED
      BY <1>a, <2>1, <3>1 DEF Switching, Starting
  <2> QED
    BY <2>1, <2>2, <2>3
<1>9. ASSUME NEW c \in Callers, ReturnFromStart(c, "ok") \/ ReturnFromStart(c, "error"),
             pc[c] \in Starting, UNCHANGED was
      PROVE  FreshStart'
  <2>1. PICK r \in {"ok", "error"}, next \in {"startLock", "stream"} : Return(c, r, next)
    BY <1>9 DEF ReturnFromStart, ReturnFromSwitch
  <2>2. /\ \A d \in Callers : d # c => pc'[d] = pc[d]
        /\ c = Processor => pc'[c] \in {"startLock", "stream", "failed"}
    BY <2>1, ReturnGoes
  <2> QED
    BY <1>9, <1>b, <2>2 DEF Switching
<1>10. ASSUME NEW c \in Callers, StartLock(c) PROVE FreshStart'
  <2>1. CASE ReturnFromStart(c, "ok")
    BY <1>9, <1>10, <2>1 DEF StartLock, Starting
  <2>2. CASE Goto(c, "startAdapters")
    BY <1>10, <1>b, <2>2 DEF StartLock, Goto, TypeOK, Starting, Switching
  <2> QED
    BY <1>10, <2>1, <2>2 DEF StartLock
<1>11. ASSUME NEW c \in Callers, StartAdapter(c) PROVE FreshStart'
  BY <1>11, <1>b DEF StartAdapter, Starting, Switching
<1>12. ASSUME NEW c \in Callers, StartFinish(c) PROVE FreshStart'
  BY <1>9, <1>12 DEF StartFinish, Starting
<1>13. CASE GetDataStream
  BY <1>0, <1>13, <1>a DEF GetDataStream, Goto, TypeOK, Switching, Starting
<1> QED
  BY <1>1, <1>2, <1>3, <1>4, <1>5, <1>6, <1>7, <1>8, <1>10, <1>11, <1>12, <1>13
     DEF Next, Step, RequestTimeout, GetStatsLock, GetStatsRead, vars

(***************************************************************************)
(* The start-up goroutine never runs into an adapter stopped before.       *)
(***************************************************************************)
THEOREM StartupSafe == Spec => []StartupNeverPanics
<1>1. Init => FreshInv
  BY TypeInit, ServiceAssumption
     DEF Init, FreshInv, FreshStart, NothingStarted, Starting, Switching, Callers
<1>2. FreshInv => StartupNeverPanics
  BY DEF FreshInv, FreshStart, StartupNeverPanics
<1> QED
  BY <1>1, <1>2, FreshStep, PTL DEF Spec
-----------------------------------------------------------------------------
(***************************************************************************)
(* If no request overtakes start-up, one caller at a time is between the   *)
(* first and the last step of a switch or a start: a handler that starts   *)
(* holds modeMutex, and none calls before the processor is through.        *)
(***************************************************************************)
Busy(c) == pc[c] \in Switching \cup Starting

Serial ==
  ~overlapped => \A h \in Handlers :
    /\ pc[h] # "idle" => StartupOver
    /\ pc[h] \in Starting => modeMutex = h

SerialInv == LockInv /\ Serial

(* Without an overlap with start-up at most one caller is switching or     *)
(* starting: it holds modeMutex, or is the processor before any other.     *)
LEMMA OneBusy ==
  ASSUME SerialInv, ~overlapped, NEW c \in Callers, NEW d \in Callers, Busy(c), Busy(d)
  PROVE  c = d
<1>1. CASE c \in Handlers /\ d \in Handlers
  BY <1>1 DEF SerialInv, Serial, LockInv, LocksKept, Busy
<1>2. CASE c = Processor \/ d = Processor
  BY <1>2, ServiceAssumption
     DEF SerialInv, Serial, StartupOver, Busy, Switching, Starting, Callers
<1> QED
  BY <1>1, <1>2 DEF Callers

(* A caller that returns from StartDataProcessing or a switch.             *)
LEMMA ReturnSerial ==
  ASSUME SerialInv, NEW c \in Callers, Busy(c), NEW r \in {"ok", "error", "panic"},
         ReturnFromSwitch(c, r) \/ ReturnFromStart(c, r),
         modeMutex' = Free => modeMutex \in {c, Free}, UNCHANGED overlapped
  PROVE  Serial'
<1>1. /\ \A d \in Callers : d # c => pc'[d] = pc[d]
      /\ pc'[c] \in {"respond", "startLock", "stream", "failed", "panicked"}
      /\ modeMutex' \in {modeMutex, Free}
  BY SwitchReturnGoes DEF SerialInv, LockInv
<1>2. c \in Handlers => pc'[c] = "respond"
  BY ServiceAssumption, ReturnGoes
     DEF SerialInv, LockInv, ReturnFromSwitch, ReturnFromStart
<1>3. Processor \in Callers /\ \A h \in Handlers : h # Processor /\ h \in Callers
  BY ServiceAssumption DEF Callers
<1>4. c = Processor => ~StartupOver
  BY DEF Busy, StartupOver, Switching, Starting
<1> QED
  BY <1>1, <1>2, <1>3, <1>4, ServiceAssumption
     DEF SerialInv, Serial, Busy, StartupOver, Starting, Switching, Callers

(* Each action keeps the callers one at a time.                            *)
LEMMA SerialStep == SerialInv /\ [Next]_vars => SerialInv'
<1> SUFFICES ASSUME SerialInv, [Next]_vars PROVE Serial'
  BY LockStep DEF SerialInv
<1> TypeOK
  BY DEF SerialInv, LockInv
<1> USE DEF serviceVars, lockVars, adapterVars, callVars, worldVars
<1>0. Processor \in Callers /\ \A h \in Handlers : h # Processor /\ h \in Callers
  BY ServiceAssumption DEF Callers
(* A caller that goes on under the locks it has.                           *)
<1>a. ASSUME NEW c \in Callers, pc[c] # "idle",
             \A d \in Callers : d # c => pc'[d] = pc[d],
             c = Processor => ~StartupOver,
             c \in Handlers /\ pc'[c] \in Starting =>
               pc[c] \in Starting \/ modeMutex = c,
             UNCHANGED <<modeMutex, overlapped>>
      PROVE  Serial'
  BY <1>a, <1>0 DEF SerialInv, Serial, StartupOver, Starting
<1>1. ASSUME NEW h \in Handlers, NEW m \in Modes, BeginRequest(h, m) PROVE Serial'
  BY <1>0, <1>1 DEF BeginRequest, Goto, TypeOK, SerialInv, Serial, StartupOver, Starting
<1>2. ASSUME UNCHANGED <<pc, modeMutex, overlapped>> PROVE Serial'
  BY <1>2 DEF SerialInv, Serial, StartupOver
<1>3. ASSUME NEW h \in Handlers, Respond(h) PROVE Serial'
  BY <1>0, <1>3 DEF Respond, Goto, TypeOK, SerialInv, Serial, StartupOver, Starting
<1>4. ASSUME NEW c \in Callers, SwitchLock(c) PROVE Serial'
  <2>1. pc[c] = "lock" /\ modeMutex = Free /\ overlapped' = overlapped
    BY <1>4 DEF SwitchLock
  <2>2. CASE Return(c, "ok", "startLock") /\ UNCHANGED modeMutex
    <3>1. /\ \A d \in Callers : d # c => pc'[d] = pc[d]
          /\ c # Processor => pc'[c] = "respond"
      BY <2>2, ReturnGoes
    <3> QED
      BY <1>0, <1>a, <2>1, <2>2, <3>1 DEF Starting, StartupOver
  <2>3. CASE Goto(c, "readRunning") /\ modeMutex' = c
    BY <1>0, <2>1, <2>3, ServiceAssumption
       DEF Goto, TypeOK, SerialInv, Serial, StartupOver, Starting, Callers
  <2> QED
    BY <1>4, <2>2, <2>3 DEF SwitchLock
<1>5. ASSUME NEW c \in Callers,
             SwitchReadRunning(c) \/ SwitchClearRunning(c) \/ SwitchSetAdapters(c)
      PROVE  Serial'
  BY <1>5, <1>0, <1>a
     DEF SwitchReadRunning, SwitchClearRunning, SwitchSetAdapters, Goto, TypeOK, Starting,
         StartupOver
<1>6. ASSUME NEW c \in Callers, SwitchStopAdapter(c) PROVE Serial'
  <2>1. CASE UNCHANGED <<modeMutex, pc>>
    BY <1>2, <1>6, <2>1 DEF SwitchStopAdapter
  <2>2. CASE ReturnFromSwitch(c, "panic")
    BY <1>6, <2>2, ReturnSerial
       DEF SwitchStopAdapter, Busy, SerialInv, LockInv, LocksKept, Switching
  <2> QED
    BY <1>6, <2>1, <2>2 DEF SwitchStopAdapter
<1>7. ASSUME NEW c \in Callers, SwitchSetMode(c) PROVE Serial'
  <2>1. pc[c] = "setMode" /\ modeMutex = c /\ overlapped' = overlapped
    BY <1>7 DEF SwitchSetMode, SerialInv, LockInv, LocksKept, Switching
  <2>2. CASE Goto(c, "startLock") /\ UNCHANGED modeMutex
    BY <1>a, <2>1, <2>2 DEF Goto, TypeOK, StartupOver
  <2>3. CASE ReturnFromSwitch(c, "ok")
    BY <2>1, <2>3, ReturnSerial DEF Busy, Switching
  <2> QED
    BY <1>7, <2>2, <2>3 DEF SwitchSetMode
<1>8. ASSUME NEW c \in Callers, ReturnFromStart(c, "ok") \/ ReturnFromStart(c, "error"),
             pc[c] \in Starting, UNCHANGED overlapped
      PROVE  Serial'
  <2>1. modeMutex' = Free => modeMutex \in {c, Free}
    BY <1>8 DEF ReturnFromStart, ReturnFromSwitch
  <2> QED
    BY <1>8, <2>1, ReturnSerial DEF Busy
<1>9. ASSUME NEW c \in Callers, StartLock(c) PROVE Serial'
  <2>1. CASE ReturnFromStart(c, "ok")
    BY <1>8, <1>9, <2>1 DEF StartLock, Starting
  <2>2. CASE Goto(c, "startAdapters") /\ UNCHANGED modeMutex
    BY <1>a, <1>9, <2>2 DEF StartLock, Goto, TypeOK, Starting, StartupOver
  <2> QED
    BY <1>9, <2>1, <2>2 DEF StartLock
<1>10. ASSUME NEW c \in Callers, StartFinish(c) PROVE Serial'
  BY <1>8, <1>10 DEF StartFinish, Starting
<1>11. CASE GetDataStream
  BY <1>0, <1>11, <1>a DEF GetDataStream, Goto, TypeOK, StartupOver
<1> QED
  BY <1>1, <1>2, <1>3, <1>4, <1>5, <1>6, <1>7, <1>9, <1>10, <1>11
     DEF Next, Step, RequestTimeout, StartAdapter, GetStatsLock, GetStatsRead, vars
-----------------------------------------------------------------------------
(***************************************************************************)
(* Adapters.  Those that run are active ones; a switch has still to stop   *)
(* them or has stopped them all; a start runs through active ones only,    *)
(* and its inputs come from adapters that run.                             *)
(***************************************************************************)
Left(c) == {todo[c][i] : i \in 1 .. Len(todo[c])}

ActiveRun ==
  ~overlapped =>
    /\ \A a \in Adapters : running[a] => a[1] = activeAdapters
    /\ \A c \in Callers :
         /\ pc[c] \in {"setAdapters", "setMode"} => \A a \in Adapters : ~running[a]
         /\ pc[c] = "stopAdapters" => \A a \in Adapters : running[a] => a \in Left(c)
         /\ pc[c] = "startAdapters" =>
              /\ \A a \in Left(c) : a[1] = activeAdapters
              /\ \A a \in inputs[c] : running[a]

SomeRun ==
  /\ ~overlapped /\ ~stopPanicked /\ isRunning
  /\ \A c \in Callers : pc[c] # "stopAdapters"
  => \E a \in Adapters : running[a]

ActiveInv == SerialInv /\ ActiveRun /\ SomeRun

(* What is left after the head is taken.                                   *)
LEMMA LeftTail ==
  ASSUME NEW s \in Seq(Adapters), s # <<>>
  PROVE  /\ Head(s) \in Adapters
         /\ {s[i] : i \in 1 .. Len(s)} =
              {Head(s)} \cup {Tail(s)[i] : i \in 1 .. Len(Tail(s))}
<1>1. /\ Head(s) = s[1] /\ Len(s) \in Nat \ {0} /\ s[1] \in Adapters
      /\ Len(Tail(s)) = Len(s) - 1
      /\ \A i \in 1 .. Len(Tail(s)) : Tail(s)[i] = s[i + 1]
  OBVIOUS
<1>2. ASSUME NEW i \in 1 .. Len(s) PROVE i = 1 \/ i - 1 \in 1 .. Len(Tail(s))
  BY <1>1
<1>3. \A i \in 1 .. Len(Tail(s)) : i + 1 \in 1 .. Len(s)
  BY <1>1
<1>4. \A i \in 1 .. Len(s) : i # 1 => Tail(s)[i - 1] = s[i]
  BY <1>1, <1>2
<1>5. 1 \in 1 .. Len(s)
  BY <1>1
<1> DEFINE A == {s[i] : i \in 1 .. Len(s)}
           B == {Tail(s)[i] : i \in 1 .. Len(Tail(s))}
<1>6. ASSUME NEW x \in A PROVE x = s[1] \/ x \in B
  <2>1. PICK i \in 1 .. Len(s) : x = s[i]
    OBVIOUS
  <2>2. CASE i # 1
    <3>1. i - 1 \in 1 .. Len(Tail(s)) /\ x = Tail(s)[i - 1]
      BY <1>2, <1>4, <2>1, <2>2
    <3> QED
      BY <3>1
  <2> QED
    BY <2>1, <2>2
<1>7. ASSUME NEW x \in B PROVE x \in A
  <2>1. PICK i \in 1 .. Len(Tail(s)) : x = Tail(s)[i]
    OBVIOUS
  <2>2. x = s[i + 1] /\ i + 1 \in 1 .. Len(s)
    BY <1>1, <1>3, <2>1
  <2> QED
    BY <2>2
<1>8. s[1] \in A
  BY <1>5
<1> HIDE DEF A, B
<1>9. A = {Head(s)} \cup B
  BY <1>1, <1>6, <1>7, <1>8
<1> QED
  BY <1>1, <1>9 DEF A, B

(* The loops run over all adapters of the active mode and no others.       *)
LEMMA LeftAll ==
  ASSUME TypeOK, NEW a \in Adapters
  PROVE  a[1] = activeAdapters <=>
           a \in {AdaptersOf(activeAdapters)[i] : i \in 1 .. Len(AdaptersOf(activeAdapters))}
<1>1. /\ Len(AdaptersOf(activeAdapters)) = NumAdapters
      /\ \A i \in 1 .. NumAdapters : AdaptersOf(activeAdapters)[i] = <<activeAdapters, i>>
  BY ServiceAssumption DEF AdaptersOf
<1>2. PICK m \in Modes, j \in 1 .. NumAdapters : a = <<m, j>>
  BY DEF Adapters
<1> QED
  BY <1>1, <1>2

(* Every one of them is an adapter of that mode.                           *)
LEMMA AllOfMode ==
  ASSUME TypeOK
  PROVE  \A a \in {AdaptersOf(activeAdapters)[i] : i \in 1 .. Len(AdaptersOf(activeAdapters))} :
           a[1] = activeAdapters
BY ServiceAssumption DEF AdaptersOf

(* Each action keeps the adapters that run active ones.                    *)
LEMMA ActiveStep == ActiveInv /\ [Next]_vars => ActiveInv'
<1> SUFFICES ASSUME ActiveInv, [Next]_vars PROVE ActiveRun' /\ SomeRun'
  BY SerialStep DEF ActiveInv
<1> TypeOK /\ SerialInv /\ TypeOK'
  BY TypeStep DEF ActiveInv, SerialInv, LockInv
<1> USE DEF serviceVars, lockVars, adapterVars, callVars, worldVars
<1>0. Processor \in Callers /\ \A h \in Handlers : h # Processor /\ h \in Callers
  BY ServiceAssumption DEF Callers
(* A caller goes where none of the four clauses asks anything of it.       *)
<1>a. ASSUME NEW c \in Callers,
             \A d \in Callers : d # c =>
               pc'[d] = pc[d] /\ todo'[d] = todo[d] /\ inputs'[d] = inputs[d],
             pc'[c] \notin Switching \cup {"startAdapters"} \/ pc'[c] = "readRunning",
             pc[c] # "stopAdapters",
             UNCHANGED <<running, isRunning, activeAdapters, stopPanicked>>,
             overlapped => overlapped'
      PROVE  ActiveRun' /\ SomeRun'
  <2>1. ActiveRun'
    BY <1>a DEF ActiveInv, ActiveRun, Left, Switching
  <2>2. SomeRun'
    BY <1>a DEF ActiveInv, SomeRun, Switching
  <2> QED
    BY <2>1, <2>2
<1>1. ASSUME NEW h \in Handlers, NEW m \in Modes, BeginRequest(h, m)
      PROVE ActiveRun' /\ SomeRun'
  BY <1>0, <1>1, <1>a DEF BeginRequest, Goto, TypeOK, Switching
<1>2. ASSUME UNCHANGED <<pc, todo, inputs, running, isRunning, activeAdapters, stopPanicked,
                         overlapped>>
      PROVE  ActiveRun' /\ SomeRun'
  BY <1>2 DEF ActiveInv, ActiveRun, SomeRun, Left
<1>3. ASSUME NEW h \in Handlers, Respond(h) PROVE ActiveRun' /\ SomeRun'
  BY <1>0, <1>3, <1>a DEF Respond, Goto, TypeOK, Switching
<1>4. ASSUME NEW c \in Callers, SwitchLock(c) PROVE ActiveRun' /\ SomeRun'
  <2>1. CASE Return(c, "ok", "startLock")
    <3>1. /\ \A d \in Callers : d # c => pc'[d] = pc[d]
          /\ pc'[c] \in {"respond", "startLock"}
      BY <2>1, ReturnGoes
    <3> QED
      BY <1>4, <1>a, <3>1 DEF SwitchLock, Switching
  <2>2. CASE Goto(c, "readRunning")
    BY <1>4, <1>a, <2>2 DEF SwitchLock, Goto, TypeOK
  <2> QED
    BY <1>4, <2>1, <2>2 DEF SwitchLock
<1>5. ASSUME NEW c \in Callers, SwitchReadRunning(c) PROVE ActiveRun' /\ SomeRun'
  <2>1. /\ \A d \in Callers : d # c =>
             pc'[d] = pc[d] /\ todo'[d] = todo[d] /\ inputs'[d] = inputs[d]
        /\ pc'[c] = "stopAdapters" /\ todo'[c] = AdaptersOf(activeAdapters)
        /\ UNCHANGED <<running, isRunning, activeAdapters, stopPanicked, overlapped>>
    BY <1>5 DEF SwitchReadRunning, Goto, TypeOK
  <2>2. ~overlapped => \A a \in Adapters : running[a] => a \in Left(c)'
    BY <2>1, LeftAll DEF ActiveInv, ActiveRun, Left
  <2>3. \A d \in Callers : d # c => Left(d)' = Left(d)
    BY <2>1 DEF Left
  <2>4. ActiveRun'
    BY <2>1, <2>2, <2>3 DEF ActiveInv, ActiveRun
  <2> QED
    BY <2>1, <2>4 DEF SomeRun
<1>6. ASSUME NEW c \in Callers, SwitchStopAdapter(c) PROVE ActiveRun' /\ SomeRun'
  <2> DEFINE a == Head(todo[c])
  <2>1. /\ a \in Adapters
        /\ Left(c) = {a} \cup {Tail(todo[c])[i] : i \in 1 .. Len(Tail(todo[c]))}
        /\ pc[c] = "stopAdapters"
    BY <1>6, LeftTail DEF SwitchStopAdapter, TypeOK, Left
  <2>2. /\ running' = [running EXCEPT ![a] = FALSE]
        /\ todo' = [todo EXCEPT ![c] = Tail(@)]
        /\ UNCHANGED <<inputs, isRunning, activeAdapters, overlapped>>
        /\ \/ UNCHANGED <<pc, stopPanicked>>
           \/ ReturnFromSwitch(c, "panic") /\ stopPanicked' = TRUE
    BY <1>6 DEF SwitchStopAdapter
  <2> HIDE DEF a
  <2>3. /\ \A d \in Callers : d # c => Left(d)' = Left(d) /\ pc'[d] = pc[d]
        /\ Left(c)' = {Tail(todo[c])[i] : i \in 1 .. Len(Tail(todo[c]))}
        /\ pc'[c] = "stopAdapters" \/ pc'[c] \notin Switching \cup {"startAdapters"}
    <3>1. \A d \in Callers : d # c => todo'[d] = todo[d]
      BY <2>2 DEF TypeOK
    <3>2. todo'[c] = Tail(todo[c])
      BY <2>2 DEF TypeOK
    <3>3. /\ \A d \in Callers : d # c => pc'[d] = pc[d]
          /\ pc'[c] = "stopAdapters" \/ pc'[c] \notin Switching \cup {"startAdapters"}
      BY <2>1, <2>2, SwitchReturnGoes DEF Switching
    <3> QED
      BY <3>1, <3>2, <3>3 DEF Left
  <2>4. \A b \in Adapters : running'[b] <=> running[b] /\ b # a
    BY <2>1, <2>2 DEF TypeOK
  <2>5. ~overlapped => \A d \in Callers : d # c => pc'[d] \notin
          {"setAdapters", "setMode", "stopAdapters", "startAdapters"}
    BY <2>1, <2>3, OneBusy DEF Busy, Switching, Starting
  <2>6. ActiveRun'
    <3> SUFFICES ASSUME ~overlapped PROVE ActiveRun'
      BY <2>2 DEF ActiveRun
    <3>1. \A b \in Adapters : running'[b] => b[1] = activeAdapters'
      BY <2>2, <2>4 DEF ActiveInv, ActiveRun
    <3>2. \A b \in Adapters : running[b] => b \in Left(c)
      BY <2>1 DEF ActiveInv, ActiveRun
    <3>3. \A b \in Adapters : running'[b] => b \in Left(c)'
      BY <2>1, <2>3, <2>4, <3>2
    <3> QED
      BY <2>3, <2>5, <3>1, <3>3 DEF ActiveRun, Switching
  <2>7. SomeRun'
    BY <2>1, <2>2 DEF SomeRun
  <2> QED
    BY <2>6, <2>7
<1>7. ASSUME NEW c \in Callers, SwitchClearRunning(c) PROVE ActiveRun' /\ SomeRun'
  <2>1. /\ \A d \in Callers : d # c => pc'[d] = pc[d]
        /\ pc[c] = "stopAdapters" /\ pc'[c] = "setAdapters" /\ Left(c) = {}
        /\ UNCHANGED <<todo, inputs, running, activeAdapters, stopPanicked, overlapped>>
        /\ ~isRunning'
    BY <1>7 DEF SwitchClearRunning, Goto, TypeOK, Left
  <2>2. /\ \A d \in Callers : Left(d)' = Left(d)
        /\ ~overlapped => \A a \in Adapters : ~running[a]
    BY <2>1 DEF ActiveInv, ActiveRun, Left
  <2>3. ActiveRun'
    BY <2>1, <2>2 DEF ActiveInv, ActiveRun
  <2> QED
    BY <2>1, <2>3 DEF SomeRun
<1>8. ASSUME NEW c \in Callers, SwitchSetAdapters(c) PROVE ActiveRun' /\ SomeRun'
  <2>1. /\ \A d \in Callers : d # c => pc'[d] = pc[d]
        /\ pc[c] = "setAdapters" /\ pc'[c] = "setMode"
        /\ UNCHANGED <<todo, inputs, running, isRunning, stopPanicked, overlapped>>
    BY <1>8 DEF SwitchSetAdapters, Goto, TypeOK
  <2>2. ~overlapped => \A d \in Callers : d # c => pc[d] # "startAdapters"
    BY <2>1, OneBusy DEF Busy, Switching, Starting
  <2>3. ActiveRun'
    <3> SUFFICES ASSUME ~overlapped PROVE ActiveRun'
      BY <2>1 DEF ActiveRun
    <3>1. \A a \in Adapters : ~running'[a]
      BY <2>1 DEF ActiveInv, ActiveRun
    <3>2. \A d \in Callers : pc'[d] # "startAdapters"
      BY <2>1, <2>2
    <3> QED
      BY <3>1, <3>2 DEF ActiveRun
  <2>4. SomeRun'
    BY <2>1 DEF ActiveInv, SomeRun
  <2> QED
    BY <2>3, <2>4
<1>9. ASSUME NEW c \in Callers, SwitchSetMode(c) PROVE ActiveRun' /\ SomeRun'
  <2>1. pc[c] = "setMode" /\ UNCHANGED <<todo, inputs, running, isRunning, activeAdapters,
                                         stopPanicked, overlapped>>
    BY <1>9 DEF SwitchSetMode
  <2>2. CASE Goto(c, "startLock")
    BY <1>a, <2>1, <2>2 DEF Goto, TypeOK, Switching
  <2>3. CASE ReturnFromSwitch(c, "ok")
    BY <1>a, <2>1, <2>3, SwitchReturnGoes DEF Switching
  <2> QED
    BY <1>9, <2>2, <2>3 DEF SwitchSetMode
<1>10. ASSUME NEW c \in Callers, StartLock(c) PROVE ActiveRun' /\ SomeRun'
  <2>1. pc[c] = "startLock" /\ UNCHANGED <<running, isRunning, activeAdapters, stopPanicked,
                                           overlapped>>
    BY <1>10 DEF StartLock
  <2>2. CASE ReturnFromStart(c, "ok") /\ UNCHANGED <<todo, inputs>>
    BY <1>a, <2>1, <2>2, SwitchReturnGoes DEF Switching
  <2>3. CASE /\ todo' = [todo EXCEPT ![c] = AdaptersOf(activeAdapters)]
             /\ inputs' = [inputs EXCEPT ![c] = {}]
             /\ Goto(c, "startAdapters")
    <3>1. /\ \A d \in Callers : d # c =>
               pc'[d] = pc[d] /\ todo'[d] = todo[d] /\ inputs'[d] = inputs[d]
          /\ pc'[c] = "startAdapters" /\ inputs'[c] = {}
          /\ todo'[c] = AdaptersOf(activeAdapters)
      BY <2>3 DEF Goto, TypeOK
    <3>2. /\ \A d \in Callers : d # c => Left(d)' = Left(d)
          /\ \A a \in Left(c)' : a[1] = activeAdapters
      BY <3>1, AllOfMode DEF Left
    <3>3. ActiveRun'
      BY <2>1, <3>1, <3>2 DEF ActiveInv, ActiveRun
    <3>4. SomeRun'
      BY <2>1, <3>1 DEF ActiveInv, SomeRun
    <3> QED
      BY <3>3, <3>4
  <2> QED
    BY <1>10, <2>2, <2>3 DEF StartLock
<1>11. ASSUME NEW c \in Callers, StartAdapter(c) PROVE ActiveRun' /\ SomeRun'
  <2> DEFINE a == Head(todo[c])
  <2>1. /\ a \in Adapters
        /\ Left(c) = {a} \cup {Tail(todo[c])[i] : i \in 1 .. Len(Tail(todo[c]))}
        /\ pc[c] = "startAdapters"
    BY <1>11, LeftTail DEF StartAdapter, TypeOK, Left
  <2>2. /\ \/ /\ running' = [running EXCEPT ![a] = TRUE]
              /\ inputs' = [inputs EXCEPT ![c] = @ \cup {a}]
           \/ UNCHANGED <<running, inputs>>
        /\ todo' = [todo EXCEPT ![c] = Tail(@)]
        /\ UNCHANGED <<pc, isRunning, activeAdapters, stopPanicked, overlapped>>
    BY <1>11 DEF StartAdapter
  <2> HIDE DEF a
  <2>3. /\ \A d \in Callers : d # c => Left(d)' = Left(d)
        /\ Left(c)' \subseteq Left(c)
    <3>1. /\ \A d \in Callers : d # c => todo'[d] = todo[d]
          /\ todo'[c] = Tail(todo[c])
      BY <2>2 DEF TypeOK
    <3> QED
      BY <2>1, <3>1 DEF Left
  <2>4. /\ \A b \in Adapters : running'[b] => running[b] \/ b = a
        /\ \A b \in Adapters : running[b] => running'[b]
    BY <2>1, <2>2 DEF TypeOK
  <2>5. /\ \A d \in Callers : d # c => inputs'[d] = inputs[d]
        /\ \A b \in inputs'[c] : b \in inputs[c] \/ (b = a /\ running'[a])
        /\ \A d \in Callers : inputs[d] \subseteq Adapters
    BY <2>1, <2>2 DEF TypeOK
  <2>6. ~overlapped => \A d \in Callers : d # c => pc[d] \notin
          {"setAdapters", "setMode", "stopAdapters", "startAdapters"}
    BY <2>1, OneBusy DEF Busy, Switching, Starting
  <2>7. ActiveRun'
    <3> SUFFICES ASSUME ~overlapped PROVE ActiveRun'
      BY <2>2 DEF ActiveRun
    <3>1. a[1] = activeAdapters
      BY <2>1 DEF ActiveInv, ActiveRun
    <3>2. \A b \in Adapters : running'[b] => b[1] = activeAdapters'
      BY <2>2, <2>4, <3>1 DEF ActiveInv, ActiveRun
    <3>3. /\ \A b \in Left(c)' : b[1] = activeAdapters'
          /\ \A b \in inputs'[c] : running'[b]
      BY <2>1, <2>2, <2>3, <2>4, <2>5 DEF ActiveInv, ActiveRun
    <3> QED
      BY <2>1, <2>2, <2>6, <3>2, <3>3 DEF ActiveRun
  <2>8. SomeRun'
    BY <2>2, <2>4 DEF ActiveInv, SomeRun
  <2> QED
    BY <2>7, <2>8
<1>12. ASSUME NEW c \in Callers, StartFinish(c) PROVE ActiveRun' /\ SomeRun'
  <2>1. /\ pc[c] = "startAdapters"
        /\ UNCHANGED <<todo, running, activeAdapters, stopPanicked, overlapped>>
        /\ \A d \in Callers : d # c => inputs'[d] = inputs[d]
        /\ isRunning' => isRunning \/ inputs[c] # {}
        /\ ReturnFromStart(c, "ok") \/ ReturnFromStart(c, "error")
    BY <1>12 DEF StartFinish, TypeOK
  <2>2. /\ \A d \in Callers : d # c => pc'[d] = pc[d]
        /\ pc'[c] \notin Switching \cup {"startAdapters"}
    BY <2>1, SwitchReturnGoes DEF Switching
  <2>3. ActiveRun'
    BY <2>1, <2>2 DEF ActiveInv, ActiveRun, Left, Switching
  <2>4. ~overlapped /\ inputs[c] # {} => \E a \in Adapters : running[a]
    BY <2>1 DEF ActiveInv, ActiveRun, TypeOK
  <2>5. SomeRun'
    BY <2>1, <2>2, <2>4 DEF ActiveInv, SomeRun
  <2> QED
    BY <2>3, <2>5
<1>13. CASE GetDataStream
  BY <1>0, <1>13, <1>a DEF GetDataStream, Goto, TypeOK, Switching
<1> QED
  BY <1>1, <1>2, <1>3, <1>4, <1>5, <1>6, <1>7, <1>8, <1>9, <1>10, <1>11, <1>12, <1>13
     DEF Next, Step, RequestTimeout, GetStatsLock, GetStatsRead, vars

(* At the start nothing runs and nobody is under way.                      *)
LEMMA ActiveInit == Init => ActiveInv
<1> SUFFICES ASSUME Init PROVE ActiveInv
  OBVIOUS
<1>1. \A c \in Callers : pc[c] \in {"idle", "lock"} /\ (c # Processor => pc[c] = "idle")
  BY DEF Init
<1>2. LockInv
  BY <1>1, TypeInit DEF Init, LockInv, LocksKept, Switching
<1>3. Serial
  BY <1>1, ServiceAssumption DEF Serial, Callers, Starting
<1>4. ActiveRun /\ SomeRun
  BY <1>1 DEF Init, ActiveRun, SomeRun
<1> QED
  BY <1>2, <1>3, <1>4 DEF ActiveInv, SerialInv

(***************************************************************************)
(* If no request overtakes start-up, only adapters of the current mode run *)
(* between switches.                                                       *)
(***************************************************************************)
THEOREM OnlyActiveRun == Spec => []OnlyActiveAdaptersRunAfterStartup
<1>1. ActiveInv => OnlyActiveAdaptersRunAfterStartup
  <2> SUFFICES ASSUME ActiveInv, ~overlapped, modeMutex = Free,
                      NEW a \in Adapters, running[a]
               PROVE  a[1] = currentMode
    BY DEF OnlyActiveAdaptersRunAfterStartup, OnlyActiveAdaptersRun
  <2>1. activeAdapters = currentMode
    BY ServiceAssumption DEF ActiveInv, SerialInv, LockInv, LocksKept, Switching
  <2> QED
    BY <2>1 DEF ActiveInv, ActiveRun
<1> QED
  BY <1>1, ActiveInit, ActiveStep, PTL DEF Spec

(***************************************************************************)
(* And a running service has one that runs, unless a Stop panicked.        *)
(***************************************************************************)
THEOREM RunningHasOne == Spec => []RunningHasAdapter
<1>1. ActiveInv => RunningHasAdapter
  <2> SUFFICES ASSUME ActiveInv, isRunning, modeMutex = Free, ~overlapped, ~stopPanicked
               PROVE  \E a \in Adapters : running[a] /\ a[1] = currentMode
    BY DEF RunningHasAdapter
  <2>1. activeAdapters = currentMode /\ \A c \in Callers : pc[c] # "stopAdapters"
    BY ServiceAssumption DEF ActiveInv, SerialInv, LockInv, LocksKept, Switching
  <2> QED
    BY <2>1 DEF ActiveInv, ActiveRun, SomeRun
<1> QED
  BY <1>1, ActiveInit, ActiveStep, PTL DEF Spec

(***************************************************************************)
(* Nothing but a restart under way ever starts a stopped service again.    *)
(***************************************************************************)
THEOREM FailureIsFinal == Spec => FailedRestartIsFinal
<1>1. TypeOK /\ [Next]_vars => [Ended => Ended']_vars
  <2> SUFFICES ASSUME TypeOK, [Next]_vars, Ended PROVE Ended'
    OBVIOUS
  <2> USE DEF serviceVars, lockVars, adapterVars, callVars, worldVars
  <2>0. Processor \in Callers /\ \A h \in Handlers : h # Processor /\ h \in Callers
    BY ServiceAssumption DEF Callers
  (* A handler goes on without a restart.                                  *)
  <2>a. ASSUME NEW c \in Callers, c # Processor,
               \A d \in Callers : d # c => pc'[d] = pc[d] /\ was'[d] = was[d],
               pc'[c] \notin Starting, ~isRunning',
               pc'[c] \in {"stopAdapters", "setAdapters", "setMode"} => ~was'[c]
        PROVE  Ended'
    BY <2>0, <2>a DEF Ended, RestartUnderWay, StartupOver, Starting
  <2>b. \A c \in Callers :
          /\ pc[c] \notin Starting
          /\ pc[c] \in {"stopAdapters", "setAdapters", "setMode"} => ~was[c]
    BY DEF Ended, RestartUnderWay, Starting
  <2>c. ~isRunning /\ StartupOver
    BY DEF Ended
  <2>1. ASSUME NEW h \in Handlers, NEW m \in Modes, BeginRequest(h, m) PROVE Ended'
    BY <2>0, <2>1, <2>a, <2>c DEF BeginRequest, Goto, TypeOK, Starting
  <2>2. ASSUME UNCHANGED <<pc, was, isRunning>> PROVE Ended'
    BY <2>2 DEF Ended, RestartUnderWay, StartupOver
  <2>3. ASSUME NEW h \in Handlers, Respond(h) PROVE Ended'
    BY <2>0, <2>3, <2>a, <2>c DEF Respond, Goto, TypeOK, Starting
  <2>4. ASSUME NEW c \in Callers, Step(c) PROVE Ended'
    <3>1. c # Processor
      BY <2>4, <2>c DEF Step, SwitchLock, SwitchReadRunning, SwitchStopAdapter,
        SwitchClearRunning, SwitchSetAdapters, SwitchSetMode, StartLock, StartAdapter,
        StartFinish, StartupOver
    <3>2. CASE SwitchLock(c)
      <4>1. CASE Return(c, "ok", "startLock")
        <5>1. /\ \A d \in Callers : d # c => pc'[d] = pc[d]
              /\ pc'[c] = "respond"
          BY <3>1, <4>1, ReturnGoes
        <5> QED
          BY <2>a, <2>c, <3>1, <3>2, <5>1 DEF SwitchLock, Starting
      <4>2. CASE Goto(c, "readRunning")
        BY <2>a, <2>c, <3>1, <3>2, <4>2 DEF SwitchLock, Goto, TypeOK, Starting
      <4> QED
        BY <3>2, <4>1, <4>2 DEF SwitchLock
    <3>3. CASE SwitchReadRunning(c)
      BY <2>a, <2>c, <3>1, <3>3 DEF SwitchReadRunning, Goto, TypeOK, Starting
    <3>4. CASE SwitchStopAdapter(c)
      <4>1. CASE UNCHANGED pc
        BY <2>2, <3>4, <4>1 DEF SwitchStopAdapter
      <4>2. CASE ReturnFromSwitch(c, "panic")
        <5>1. /\ \A d \in Callers : d # c => pc'[d] = pc[d]
              /\ pc'[c] = "respond"
          BY <3>1, <4>2, ReturnGoes DEF ReturnFromSwitch
        <5> QED
          BY <2>a, <2>c, <3>1, <3>4, <5>1 DEF SwitchStopAdapter, Starting
      <4> QED
        BY <3>4, <4>1, <4>2 DEF SwitchStopAdapter
    <3>5. CASE SwitchClearRunning(c) \/ SwitchSetAdapters(c)
      <4>1. /\ \A d \in Callers : d # c => pc'[d] = pc[d]
            /\ pc'[c] \in {"setAdapters", "setMode"}
            /\ pc[c] \in {"stopAdapters", "setAdapters"}
            /\ was' = was /\ ~isRunning'
        BY <2>c, <3>5 DEF SwitchClearRunning, SwitchSetAdapters, Goto, TypeOK
      <4> QED
        BY <2>a, <2>b, <3>1, <4>1 DEF Starting
    <3>6. CASE SwitchSetMode(c)
      <4>1. ReturnFromSwitch(c, "ok")
        BY <2>b, <3>6 DEF SwitchSetMode
      <4>2. /\ \A d \in Callers : d # c => pc'[d] = pc[d]
            /\ pc'[c] = "respond"
        BY <3>1, <4>1, ReturnGoes DEF ReturnFromSwitch
      <4> QED
        BY <2>a, <2>c, <3>1, <3>6, <4>2 DEF SwitchSetMode, Starting
    <3>7. ~StartLock(c) /\ ~StartAdapter(c) /\ ~StartFinish(c)
      BY <2>b DEF StartLock, StartAdapter, StartFinish, Starting
    <3> QED
      BY <2>4, <3>2, <3>3, <3>4, <3>5, <3>6, <3>7 DEF Step
  <2>5. ~GetDataStream
    BY <2>c DEF GetDataStream, StartupOver
  <2> QED
    BY <2>1, <2>2, <2>3, <2>4, <2>5
       DEF Next, RequestTimeout, GetStatsLock, GetStatsRead, vars
<1> QED
  BY <1>1, TypeInit, TypeStep, PTL DEF Spec, FailedRestartIsFinal
=============================================================================
