------------------------ MODULE ExchangeAdapterProofs ------------------------
(***************************************************************************)
(* Proofs about one exchange adapter, for any number of Starts, Stops and  *)
(* connections.                                                            *)
(***************************************************************************)
EXTENDS ExchangeAdapter, TLAPS

(* What spawning a reader does: one that had not run is new.               *)
LEMMA SpawnFacts ==
  ASSUME NEW s, Spawn(s)
  PROVE  \E k \in Dials :
           /\ reader[k] = NoReader
           /\ reader' = [reader EXCEPT ![k] = NewReader(s)]
BY DEF Spawn

(* A reader that is new, that goes on, and that looks at a connection.     *)
LEMMA ReaderTypes ==
  ASSUME TypeOK
  PROVE  /\ \A s \in 0 .. MaxStarts : NewReader(s) \in ReaderState
         /\ \A k \in Dials :
              /\ [reader[k] EXCEPT !.pc = "check", !.conn = conn] \in ReaderState
              /\ \A label \in {"check", "scan", "send", "failed", "exited"} :
                   [reader[k] EXCEPT !.pc = label] \in ReaderState
<1>1. \A s \in 0 .. MaxStarts : NewReader(s) \in ReaderState
  BY AdapterAssumption DEF NewReader, ReaderState
<1>2. conn \in 0 .. MaxDials
  BY AdapterAssumption DEF TypeOK
<1>3. \A k \in Dials : reader[k] \in ReaderState
  BY DEF TypeOK
<1>4. ASSUME NEW k \in Dials
      PROVE  [reader[k] EXCEPT !.pc = "check", !.conn = conn] \in ReaderState
  BY <1>2, <1>3 DEF ReaderState
<1>5. ASSUME NEW k \in Dials,
             NEW label \in {"check", "scan", "send", "failed", "exited"}
      PROVE  [reader[k] EXCEPT !.pc = label] \in ReaderState
  BY <1>3 DEF ReaderState
<1> QED
  BY <1>1, <1>4, <1>5

(***************************************************************************)
(* A step of a reader: those it must take and those it may.                *)
(***************************************************************************)
ReaderMoves(k) == ReaderStep(k) \/ ReaderLine(k) \/ ReaderTooLong(k)

(***************************************************************************)
(* The inductive invariant.  Until the stop channel is closed at most one  *)
(* Start got past its dial and spawned a reconnector, and of that Start's  *)
(* readers at most one has not returned: a tick finds the adapter running  *)
(* and unhealthy only after its reader has said so and ended, and until    *)
(* the reconnection is over there is none.  A reader spawned later never   *)
(* gets to read, so that those who read afterwards were there before.      *)
(***************************************************************************)
NoneLives == \A k \in Dials : ~ReaderLives(k)
NoReconnector == \A s \in Starts : reconnector[s] = "none"
Stopping == stopper \in {"unhealthy", "closeStop"}

OneLives == \A j, k \in Dials : ReaderLives(j) /\ ReaderLives(k) => j = k

OneReconnects ==
  \A s, t \in Starts : reconnector[s] # "none" /\ reconnector[t] # "none" => s = t

FirstStart ==
  /\ starter # "idle" => NoReconnector
  /\ starter \in {"dial", "running"} => ~isRunning /\ stopper = "idle"
  /\ starter \in {"healthy", "spawnReader", "spawnReconnector"} =>
       isRunning \/ Stopping
  /\ ~NoReconnector => isRunning \/ Stopping
  /\ NoReconnector => NoneLives \/ starter = "spawnReconnector"

Reconnecting(s) == reconnector[s] \in {"close", "dial", "healthy", "spawn"}

BetweenReaders ==
  /\ Stopping => ~isRunning
  /\ isRunning /\ ~isHealthy => NoneLives
  /\ \A s \in Starts : reconnector[s] = "ticked" /\ isRunning => NoneLives
  /\ \A s \in Starts : Reconnecting(s) => NoneLives
  /\ starter = "spawnReader" => isHealthy \/ ~isRunning
  /\ \A s \in Starts : reconnector[s] = "spawn" => isHealthy \/ ~isRunning

BeforeStop ==
  ~stopClosed => OneLives /\ OneReconnects /\ FirstStart /\ BetweenReaders

Closing ==
  /\ stopper = "notRunning" => isRunning
  /\ stopper \in {"closeConn", "closeData"} => stopClosed
  /\ chanClosed => stopClosed
  /\ starts = 0 => starter = "idle" /\ stopper = "idle" /\ ~isRunning

(* Whoever dials has left no connection open.                              *)
AllClosed == \A c \in 1 .. dials : c \in closedConns

NothingOpen ==
  ~stopClosed =>
    /\ NoReconnector /\ starter \in {"idle", "dial"} => dials = 0
    /\ \A s \in Starts : reconnector[s] = "dial" => AllClosed

(* A running adapter has a reconnector, or is about to get it.             *)
HasReconnector ==
  done = {} /\ ~stopClosed /\ isRunning =>
    ReconnectorComes \/ \E s \in Starts : ReconnectorLives(s)

(* A healthy one has a reader, or is about to get it.                      *)
HasReader ==
  done = {} /\ stopper = "idle" /\ ~stopClosed /\ isHealthy =>
    ReaderComes \/ \E k \in Dials : ReaderLives(k)

AdapterInv ==
  /\ TypeOK
  /\ Closing
  /\ BeforeStop
  /\ AtMostOneReads
  /\ OneConnection
  /\ NothingOpen
  /\ HasReconnector
  /\ HasReader
-----------------------------------------------------------------------------
(* No step breaks a type.                                                  *)
LEMMA TypeStep == TypeOK /\ [Next]_vars => TypeOK'
<1> SUFFICES ASSUME TypeOK, [Next]_vars
             PROVE  TypeOK'
  OBVIOUS
<1> USE AdapterAssumption
    DEF TypeOK, flagVars, closeVars, connVars, callVars, threadVars, envVars, Starts
<1>1. CASE BeginStart
  BY <1>1 DEF BeginStart
<1>2. CASE StartDial
  BY <1>2 DEF StartDial, Connect
<1>3. CASE StartSetRunning
  BY <1>3 DEF StartSetRunning
<1>4. CASE StartSetHealthy \/ StartSpawnReconnector
  BY <1>4 DEF StartSetHealthy, StartSpawnReconnector
<1>13. CASE StartSpawnReader
  <2>1. PICK k \in Dials : reader' = [reader EXCEPT ![k] = NewReader(starts)]
    BY <1>13, SpawnFacts DEF StartSpawnReader
  <2>2. NewReader(starts) \in ReaderState
    BY ReaderTypes
  <2>3. reader' \in [Dials -> ReaderState]
    BY <2>1, <2>2
  <2> QED
    BY <1>13, <2>3 DEF StartSpawnReader
<1>5. CASE BeginStop
  <2>1. /\ stops' \in 0 .. MaxStops
        /\ stopper' \in {"idle", "notRunning"}
    BY <1>5 DEF BeginStop
  <2> QED
    BY <1>5, <2>1 DEF BeginStop
<1>6. CASE \/ StopSetNotRunning \/ StopSetUnhealthy
           \/ StopCloseStopChan \/ StopCloseDataChan
  BY <1>6 DEF StopSetNotRunning, StopSetUnhealthy, StopCloseStopChan, StopCloseDataChan
<1>7. CASE StopCloseConn
  <2>1. closedConns' \in SUBSET (1 .. dials)
    BY <1>7 DEF StopCloseConn
  <2> QED
    BY <1>7, <2>1 DEF StopCloseConn
<1>8. ASSUME NEW k \in Dials, ReaderMoves(k)
      PROVE  TypeOK'
  <2>1. reader' \in [Dials -> ReaderState] /\ isHealthy' \in BOOLEAN
    BY <1>8, ReaderTypes
       DEF ReaderMoves, ReaderTooLong, ReaderStep, ReaderNew, ReaderCheck, ReaderLine, ReaderSend,
           ReaderScanFails, ReaderSetUnhealthy, ReaderGoto
  <2>2. ReaderUnchanged
    BY <1>8 DEF ReaderMoves, ReaderTooLong, ReaderStep, ReaderNew, ReaderCheck, ReaderLine, ReaderSend,
                ReaderScanFails, ReaderSetUnhealthy
  <2> QED
    BY <2>1, <2>2 DEF ReaderUnchanged
<1>9. ASSUME NEW s \in Starts, ReconnectorStep(s)
      PROVE  TypeOK'
  <2>1. CASE ReconnectClose(s)
    BY <2>1 DEF ReconnectClose, ReconnectorGoto
  <2>2. CASE ReconnectDial(s)
    BY <2>2 DEF ReconnectDial, Connect, ReconnectorGoto
  <2>3. CASE ReconnectTick(s) \/ ReconnectDialFails(s) \/ ReconnectorExit(s)
    BY <2>3 DEF ReconnectTick, ReconnectDialFails, ReconnectorExit, ReconnectorGoto
  <2>4. CASE ReconnectSetHealthy(s)
    BY <2>4 DEF ReconnectSetHealthy, ReconnectorGoto
  <2>5. CASE ReconnectTestRunning(s)
    <3>1. reconnector' = [reconnector EXCEPT ![s] = "close"]
            \/ reconnector' = [reconnector EXCEPT ![s] = "wait"]
      BY <2>5 DEF ReconnectTestRunning, ReconnectorGoto
    <3> QED
      BY <2>5, <3>1 DEF ReconnectTestRunning
  <2>6. CASE ReconnectSpawn(s)
    <3>1. PICK k \in Dials : reader' = [reader EXCEPT ![k] = NewReader(s)]
      BY <2>6, SpawnFacts DEF ReconnectSpawn
    <3>2. NewReader(s) \in ReaderState
      <4>1. s \in 0 .. MaxStarts
        OBVIOUS
      <4> QED
        BY <4>1, ReaderTypes
    <3>3. reader' \in [Dials -> ReaderState]
      BY <3>1, <3>2
    <3> QED
      BY <2>6, <3>3 DEF ReconnectSpawn, ReconnectorGoto
  <2> QED
    BY <1>9, <2>1, <2>2, <2>3, <2>4, <2>5, <2>6 DEF ReconnectorStep
<1>10. CASE ConnectionBreaks
  BY <1>10 DEF ConnectionBreaks
<1>11. ASSUME NEW s \in Starts, ContextDone(s)
       PROVE  TypeOK'
  BY <1>11 DEF ContextDone
<1>12. CASE UNCHANGED vars
  BY <1>12 DEF vars
<1> QED
  BY <1>1, <1>2, <1>3, <1>4, <1>5, <1>6, <1>7, <1>8, <1>9, <1>10, <1>11, <1>12,
     <1>13
     DEF Next, StartStep, StopStep, ReaderMoves
-----------------------------------------------------------------------------
(* Where no reader lived, only the one that was spawned does.              *)
LEMMA SpawnLives ==
  ASSUME TypeOK, NEW s, Spawn(s), NoneLives
  PROVE  OneLives'
<1>1. PICK k \in Dials : reader' = [reader EXCEPT ![k] = NewReader(s)]
  BY SpawnFacts
<1>2. \A j \in Dials : j # k => ~ReaderLives(j)'
  BY <1>1 DEF NoneLives, ReaderLives, TypeOK
<1> QED
  BY <1>2 DEF OneLives

(* A reader that steps lives; no other changes, and none comes to life.    *)
LEMMA GotoLives ==
  ASSUME TypeOK, NEW k \in Dials, ReaderMoves(k)
  PROVE  /\ ReaderLives(k)
         /\ \A j \in Dials : ReaderLives(j)' => ReaderLives(j)
         /\ \A j \in Dials : j # k => reader'[j] = reader[j]
         /\ ReaderUnchanged
<1>1. \A j \in Dials : j # k => reader'[j] = reader[j]
  BY DEF ReaderMoves, ReaderTooLong, ReaderStep, ReaderNew, ReaderCheck, ReaderLine, ReaderSend,
         ReaderScanFails, ReaderSetUnhealthy, ReaderGoto, TypeOK
<1>2. ReaderLives(k) /\ ReaderUnchanged
  BY DEF ReaderMoves, ReaderTooLong, ReaderStep, ReaderNew, ReaderCheck, ReaderLine, ReaderSend,
         ReaderScanFails, ReaderSetUnhealthy, ReaderLives
<1> QED
  BY <1>1, <1>2 DEF ReaderLives

(* A step of a reconnector: its own label and what else it may change.     *)
LEMMA ReconnectorFacts ==
  ASSUME TypeOK, NEW s \in Starts, ReconnectorStep(s)
  PROVE  /\ reconnector[s] # "none" /\ reconnector'[s] # "none"
         /\ \A t \in Starts : t # s => reconnector'[t] = reconnector[t]
         /\ UNCHANGED <<isRunning, closeVars, callVars, envVars>>
BY DEF ReconnectorStep, ReconnectTick, ReconnectTestRunning, ReconnectClose,
       ReconnectDial, ReconnectDialFails, ReconnectSetHealthy, ReconnectSpawn,
       ReconnectorExit, ReconnectorGoto, TypeOK, flagVars, closeVars, callVars

(* Each step keeps what is said of the time before the stop channel is     *)
(* closed.                                                                 *)
LEMMA BeforeStopStep ==
  ASSUME TypeOK, Closing, BeforeStop, [Next]_vars
  PROVE  Closing' /\ BeforeStop'
<1> USE AdapterAssumption DEF Stopping, NoReconnector, Reconnecting
<1>1. CASE BeginStart
  <2>1. Closing'
    BY <1>1 DEF BeginStart, Closing, TypeOK, flagVars, closeVars
  <2>2. ASSUME ~stopClosed
        PROVE  /\ starter' \in {"idle", "dial"}
               /\ starter' # "idle" => NoReconnector /\ ~isRunning /\ stopper = "idle"
               /\ NoReconnector => NoneLives
    BY <1>1, <2>2 DEF BeginStart, Closing, BeforeStop, FirstStart
  <2>3. BeforeStop'
    BY <1>1, <2>2
       DEF BeginStart, BeforeStop, OneLives, OneReconnects, FirstStart, BetweenReaders,
           NoneLives, ReaderLives, flagVars, closeVars, threadVars
  <2> QED
    BY <2>1, <2>3
<1>2. CASE StartDial
  BY <1>2 DEF StartDial, Closing, BeforeStop, OneLives, OneReconnects, FirstStart,
              BetweenReaders, NoneLives, ReaderLives, flagVars, closeVars, threadVars
<1>3. CASE StartSetRunning
  BY <1>3 DEF StartSetRunning, Closing, BeforeStop, OneLives, OneReconnects,
              FirstStart, BetweenReaders, NoneLives, ReaderLives, closeVars, threadVars
<1>4. CASE StartSetHealthy
  BY <1>4 DEF StartSetHealthy, Closing, BeforeStop, OneLives, OneReconnects,
              FirstStart, BetweenReaders, NoneLives, ReaderLives, closeVars, threadVars
<1>5. CASE StartSpawnReader
  <2>1. Closing'
    BY <1>5 DEF StartSpawnReader, Closing, flagVars, closeVars
  <2>2. ASSUME ~stopClosed
        PROVE  /\ OneLives'
               /\ NoReconnector /\ (isRunning \/ Stopping)
               /\ isHealthy \/ ~isRunning
    <3>1. NoReconnector /\ NoneLives
      BY <1>5, <2>2 DEF StartSpawnReader, BeforeStop, FirstStart
    <3>2. OneLives'
      BY <1>5, <3>1, SpawnLives DEF StartSpawnReader
    <3> QED
      BY <1>5, <2>2, <3>1, <3>2
         DEF StartSpawnReader, BeforeStop, FirstStart, BetweenReaders
  <2> QED
    BY <1>5, <2>1, <2>2
       DEF StartSpawnReader, BeforeStop, OneReconnects, FirstStart, BetweenReaders,
           flagVars, closeVars
<1>6. CASE StartSpawnReconnector
  <2>1. Closing'
    BY <1>6 DEF StartSpawnReconnector, Closing, flagVars, closeVars
  <2>2. ASSUME ~stopClosed
        PROVE  /\ OneReconnects'
               /\ isRunning \/ Stopping
               /\ \A s \in Starts : reconnector'[s] \in {"none", "wait"}
    BY <1>6, <2>2
       DEF StartSpawnReconnector, BeforeStop, FirstStart, OneReconnects, TypeOK
  <2>3. starts \in Starts /\ reconnector'[starts] = "wait"
    BY <1>6 DEF StartSpawnReconnector, Closing, TypeOK, Starts
  <2> QED
    BY <1>6, <2>1, <2>2, <2>3
       DEF StartSpawnReconnector, BeforeStop, OneLives, FirstStart, BetweenReaders,
           NoneLives, ReaderLives, flagVars, closeVars
<1>7. CASE BeginStop \/ StopSetNotRunning
  BY <1>7 DEF BeginStop, StopSetNotRunning, Closing, BeforeStop, OneLives,
              OneReconnects, FirstStart, BetweenReaders, NoneLives, ReaderLives,
              flagVars, closeVars, threadVars
<1>8. CASE StopSetUnhealthy
  BY <1>8 DEF StopSetUnhealthy, Closing, BeforeStop, OneLives, OneReconnects,
              FirstStart, BetweenReaders, NoneLives, ReaderLives, closeVars, threadVars
<1>9. CASE StopCloseStopChan \/ StopCloseConn \/ StopCloseDataChan
  BY <1>9 DEF StopCloseStopChan, StopCloseConn, StopCloseDataChan, Closing, BeforeStop,
              flagVars, closeVars
<1>10. ASSUME NEW k \in Dials, ReaderMoves(k)
       PROVE  Closing' /\ BeforeStop'
  <2>1. /\ ReaderLives(k)
        /\ \A j \in Dials : ReaderLives(j)' => ReaderLives(j)
        /\ \A j \in Dials : j # k => reader'[j] = reader[j]
        /\ UNCHANGED <<isRunning, closeVars, callVars, reconnector>>
    BY <1>10, GotoLives DEF ReaderUnchanged
  <2>2. Closing'
    BY <2>1 DEF Closing, closeVars, callVars
  <2>3. OneLives => \/ UNCHANGED isHealthy
                    \/ NoneLives'
    <3>1. UNCHANGED isHealthy \/ ~ReaderLives(k)'
      <4>1. CASE ReaderSetUnhealthy(k)
        <5>1. reader[k] \in ReaderState
          BY DEF TypeOK
        <5>2. reader'[k] = [reader[k] EXCEPT !.pc = "exited"]
          BY <4>1 DEF ReaderSetUnhealthy, ReaderGoto, TypeOK
        <5> QED
          BY <5>1, <5>2 DEF ReaderState, ReaderLives
      <4>2. CASE ~ReaderSetUnhealthy(k)
        BY <1>10, <4>2 DEF ReaderMoves, ReaderTooLong, ReaderStep, ReaderNew,
                           ReaderCheck, ReaderLine, ReaderSend, ReaderScanFails
      <4> QED
        BY <4>1, <4>2
    <3> QED
      BY <2>1, <3>1 DEF OneLives, NoneLives
  <2>4. ~NoneLives
    BY <2>1 DEF NoneLives
  <2>5. NoneLives' \/ ~NoneLives'
    OBVIOUS
  <2> QED
    BY <2>1, <2>2, <2>3, <2>4
       DEF BeforeStop, OneLives, OneReconnects, FirstStart, BetweenReaders, NoneLives,
           closeVars, callVars
<1>11. ASSUME NEW s \in Starts, ReconnectorStep(s)
       PROVE  Closing' /\ BeforeStop'
  <2>1. /\ reconnector[s] # "none" /\ reconnector'[s] # "none"
        /\ \A t \in Starts : t # s => reconnector'[t] = reconnector[t]
        /\ UNCHANGED <<isRunning, stopClosed, chanClosed, starts, starter, stopper>>
    BY <1>11, ReconnectorFacts DEF closeVars, callVars
  <2>2. Closing'
    BY <2>1 DEF Closing
  <2>3. ASSUME ~stopClosed
        PROVE  \A t \in Starts : t # s => reconnector[t] = "none"
    BY <2>1, <2>3 DEF BeforeStop, OneReconnects
  <2>4. CASE ReconnectSpawn(s)
    <3>1. ASSUME ~stopClosed
          PROVE  /\ OneLives'
                 /\ isHealthy \/ ~isRunning
                 /\ \A t \in Starts : reconnector'[t] \in {"none", "wait"}
      <4>1. NoneLives /\ (isHealthy \/ ~isRunning)
        BY <2>4, <3>1 DEF ReconnectSpawn, BeforeStop, BetweenReaders
      <4>2. OneLives'
        BY <2>4, <4>1, SpawnLives DEF ReconnectSpawn
      <4> QED
        BY <2>1, <2>3, <2>4, <3>1, <4>1, <4>2 DEF ReconnectSpawn, ReconnectorGoto, TypeOK
    <3> QED
      BY <2>1, <2>2, <2>4, <3>1
         DEF ReconnectSpawn, BeforeStop, OneReconnects, FirstStart, BetweenReaders,
             flagVars
  <2>5. CASE ~ReconnectSpawn(s)
    <3>1. /\ UNCHANGED reader
          /\ isHealthy' \in {isHealthy, TRUE}
          /\ reconnector'[s] = "ticked" => ~isHealthy
          /\ reconnector'[s] = "spawn" => isHealthy'
          /\ Reconnecting(s)' =>
               Reconnecting(s) \/ (reconnector[s] = "ticked" /\ isRunning)
      BY <1>11, <2>5
         DEF ReconnectorStep, ReconnectTick, ReconnectTestRunning, ReconnectClose,
             ReconnectDial, ReconnectDialFails, ReconnectSetHealthy, ReconnectorExit,
             ReconnectorGoto, TypeOK, flagVars
    <3>2. NoneLives' = NoneLives /\ OneLives' = OneLives
      BY <3>1 DEF NoneLives, OneLives, ReaderLives
    <3>3. ASSUME ~stopClosed
          PROVE  OneReconnects' /\ FirstStart'
      BY <2>1, <2>3, <3>2, <3>3 DEF BeforeStop, OneReconnects, FirstStart
    <3>4. ASSUME ~stopClosed
          PROVE  BetweenReaders'
      <4>1. /\ BetweenReaders
            /\ FirstStart
            /\ isHealthy \in BOOLEAN
        BY <3>4 DEF BeforeStop, TypeOK
      <4>2. reconnector'[s] = "ticked" /\ isRunning => NoneLives
        BY <3>1, <4>1 DEF BetweenReaders
      <4>3. Reconnecting(s)' => NoneLives
        BY <3>1, <4>1 DEF BetweenReaders
      <4> QED
        BY <2>1, <2>3, <3>1, <3>2, <3>4, <4>1, <4>2, <4>3 DEF BetweenReaders
    <3> QED
      BY <2>1, <2>2, <3>2, <3>3, <3>4 DEF BeforeStop
  <2> QED
    BY <2>4, <2>5
<1>12. CASE ConnectionBreaks \/ (\E s \in Starts : ContextDone(s)) \/ UNCHANGED vars
  <2>1. UNCHANGED <<flagVars, closeVars, callVars, threadVars>>
    BY <1>12 DEF ConnectionBreaks, ContextDone, vars
  <2> QED
    BY <2>1
       DEF Closing, BeforeStop, OneLives, OneReconnects, FirstStart, BetweenReaders,
           NoneLives, ReaderLives, flagVars, closeVars, callVars, threadVars
<1> QED
  BY <1>1, <1>2, <1>3, <1>4, <1>5, <1>6, <1>7, <1>8, <1>9, <1>10, <1>11, <1>12
     DEF Next, StartStep, StopStep, ReaderMoves
-----------------------------------------------------------------------------
(* A reader that starts to read does so before the stop channel is closed: *)
(* afterwards those who read are among those who did.                      *)
LEMMA ReadingStep ==
  ASSUME TypeOK, [Next]_vars, NEW k \in Dials, Reading(k)', stopClosed
  PROVE  Reading(k)
<1>1. ASSUME NEW j \in Dials, ReaderMoves(j)
      PROVE  Reading(k)
  <2>1. CASE j # k
    BY <1>1, <2>1, GotoLives DEF Reading
  <2>2. CASE j = k
    <3>1. reader[k] \in ReaderState /\ reader'[k].pc \in {"scan", "send"}
      BY DEF TypeOK, Reading
    <3>2. ReaderLine(k)
      BY <1>1, <2>2, <3>1
         DEF ReaderMoves, ReaderTooLong, ReaderStep, ReaderNew, ReaderCheck, ReaderSend,
             ReaderScanFails, ReaderSetUnhealthy, ReaderGoto, Told, ReaderState, TypeOK
    <3> QED
      BY <3>2 DEF ReaderLine, Reading
  <2> QED
    BY <2>1, <2>2
<1>2. ASSUME NEW s, Spawn(s)
      PROVE  Reading(k)
  <2>1. PICK j \in Dials : reader' = [reader EXCEPT ![j] = NewReader(s)]
    BY <1>2, SpawnFacts
  <2>2. j # k
    BY <2>1 DEF Reading, NewReader, TypeOK
  <2> QED
    BY <2>1, <2>2 DEF Reading, TypeOK
<1>3. ASSUME UNCHANGED reader
      PROVE  Reading(k)
  BY <1>3 DEF Reading
<1>4. CASE \/ BeginStart \/ StartDial \/ StartSetRunning \/ StartSetHealthy
           \/ StartSpawnReconnector \/ BeginStop \/ StopStep
  BY <1>3, <1>4
     DEF BeginStart, StartDial, StartSetRunning, StartSetHealthy, StartSpawnReconnector,
         BeginStop, StopStep, StopSetNotRunning, StopSetUnhealthy, StopCloseStopChan,
         StopCloseConn, StopCloseDataChan, threadVars
<1>5. CASE StartSpawnReader
  BY <1>2, <1>5 DEF StartSpawnReader
<1>6. ASSUME NEW s \in Starts, ReconnectorStep(s)
      PROVE  Reading(k)
  BY <1>2, <1>3, <1>6
     DEF ReconnectorStep, ReconnectTick, ReconnectTestRunning, ReconnectClose,
         ReconnectDial, ReconnectDialFails, ReconnectSetHealthy, ReconnectSpawn,
         ReconnectorExit
<1>7. CASE ConnectionBreaks \/ (\E s \in Starts : ContextDone(s)) \/ UNCHANGED vars
  BY <1>3, <1>7 DEF ConnectionBreaks, ContextDone, vars, threadVars
<1> QED
  BY <1>1, <1>4, <1>5, <1>6, <1>7 DEF Next, StartStep, ReaderMoves

(* Only Stop closes the stop channel.                                      *)
LEMMA StopCloses ==
  ASSUME [Next]_vars, ~stopClosed, stopClosed'
  PROVE  StopCloseStopChan
BY DEF Next, StartStep, StopStep, BeginStart, StartDial, StartSetRunning,
       StartSetHealthy, StartSpawnReader, StartSpawnReconnector, BeginStop,
       StopSetNotRunning, StopSetUnhealthy, StopCloseConn, StopCloseDataChan,
       ReaderTooLong, ReaderStep, ReaderNew, ReaderCheck, ReaderLine, ReaderSend,
       ReaderScanFails, ReaderSetUnhealthy, ReaderUnchanged, ReconnectorStep,
       ReconnectTick, ReconnectTestRunning, ReconnectClose, ReconnectDial,
       ReconnectDialFails, ReconnectSetHealthy, ReconnectSpawn, ReconnectorExit,
       ConnectionBreaks, ContextDone, closeVars, vars

(* And it stays closed.                                                    *)
LEMMA StaysClosed ==
  ASSUME [Next]_vars, stopClosed
  PROVE  stopClosed'
BY DEF Next, StartStep, StopStep, BeginStart, StartDial, StartSetRunning,
       StartSetHealthy, StartSpawnReader, StartSpawnReconnector, BeginStop,
       StopSetNotRunning, StopSetUnhealthy, StopCloseStopChan, StopCloseConn,
       StopCloseDataChan, ReaderTooLong, ReaderStep, ReaderNew, ReaderCheck, ReaderLine,
       ReaderSend, ReaderScanFails, ReaderSetUnhealthy, ReaderUnchanged,
       ReconnectorStep, ReconnectTick, ReconnectTestRunning, ReconnectClose,
       ReconnectDial, ReconnectDialFails, ReconnectSetHealthy, ReconnectSpawn,
       ReconnectorExit, ConnectionBreaks, ContextDone, closeVars, vars

(* Up to the step that closes the stop channel at most one reader lives.   *)
LEMMA OneReadsStep ==
  ASSUME TypeOK, Closing, BeforeStop, AtMostOneReads, [Next]_vars
  PROVE  AtMostOneReads'
<1>1. CASE ~stopClosed'
  <2>1. OneLives'
    BY <1>1, BeforeStopStep DEF BeforeStop
  <2>2. \A k \in Dials : Reading(k)' => ReaderLives(k)'
    BY DEF Reading, ReaderLives
  <2> QED
    BY <2>1, <2>2 DEF OneLives, AtMostOneReads
<1>2. CASE stopClosed
  BY <1>2, ReadingStep DEF AtMostOneReads
<1>3. CASE ~stopClosed /\ stopClosed'
  BY <1>3, StopCloses DEF StopCloseStopChan, AtMostOneReads, Reading, threadVars
<1> QED
  BY <1>1, <1>2, <1>3
-----------------------------------------------------------------------------
(* A connection is stored only when the one before is closed and nobody    *)
(* reads it, and a reader takes the one that is stored.                    *)
LEMMA ConnectionStep ==
  ASSUME TypeOK, Closing, BeforeStop, OneConnection, NothingOpen, [Next]_vars,
         ~stopClosed'
  PROVE  OneConnection' /\ NothingOpen'
<1> USE AdapterAssumption DEF NoReconnector
<1>0. /\ ~stopClosed /\ dials \in Nat /\ conn \in 0 .. dials
      /\ \A c \in 1 .. dials : c # conn => c \in closedConns
      /\ \A k \in Dials :
           ReaderLives(k) /\ reader[k].pc # "new" => reader[k].conn = conn
      /\ NoReconnector /\ starter \in {"idle", "dial"} => dials = 0
      /\ \A s \in Starts : reconnector[s] = "dial" => AllClosed
  BY StaysClosed DEF TypeOK, OneConnection, NothingOpen
<1>1. ASSUME Connect, AllClosed, UNCHANGED closedConns
      PROVE  \A c \in 1 .. dials' : c # conn' => c \in closedConns'
  BY <1>0, <1>1 DEF Connect, AllClosed
<1>2. CASE BeginStart
  BY <1>0, <1>2 DEF BeginStart, OneConnection, NothingOpen, AllClosed, ReaderLives,
                    connVars, threadVars
<1>3. CASE StartDial
  <2>1. NoReconnector /\ NoneLives
    BY <1>0, <1>3 DEF StartDial, BeforeStop, FirstStart
  <2>2. UNCHANGED <<reader, reconnector, closedConns>>
    BY <1>3 DEF StartDial, threadVars
  <2>3. CASE starter' = "running"
    <3>1. Connect /\ AllClosed
      BY <1>0, <1>3, <2>1, <2>3 DEF StartDial, AllClosed
    <3> QED
      BY <1>1, <2>1, <2>2, <2>3, <3>1
         DEF OneConnection, NothingOpen, NoneLives, ReaderLives
  <2>4. CASE starter' = "idle" /\ UNCHANGED <<dials, conn>>
    BY <1>0, <1>3, <2>1, <2>2, <2>4
       DEF StartDial, OneConnection, NothingOpen, ReaderLives
  <2> QED
    BY <1>3, <2>3, <2>4 DEF StartDial
<1>4. CASE StartSetRunning \/ StartSetHealthy
  BY <1>0, <1>4
     DEF StartSetRunning, StartSetHealthy, OneConnection, NothingOpen, AllClosed,
         ReaderLives, connVars, threadVars
<1>5. ASSUME NEW s, Spawn(s)
      PROVE  \A k \in Dials : ReaderLives(k)' /\ reader'[k].pc # "new" =>
               ReaderLives(k) /\ reader'[k] = reader[k]
  <2>1. PICK j \in Dials : reader' = [reader EXCEPT ![j] = NewReader(s)]
    BY <1>5, SpawnFacts
  <2> QED
    BY <2>1 DEF ReaderLives, NewReader, TypeOK
<1>6. CASE StartSpawnReader
  <2>1. \A k \in Dials : ReaderLives(k)' /\ reader'[k].pc # "new" =>
          ReaderLives(k) /\ reader'[k] = reader[k]
    BY <1>5, <1>6 DEF StartSpawnReader
  <2> QED
    BY <1>0, <1>6, <2>1 DEF StartSpawnReader, OneConnection, NothingOpen, AllClosed,
                            connVars
<1>7. CASE StartSpawnReconnector
  <2>1. starts \in Starts /\ reconnector'[starts] = "wait"
    BY <1>7 DEF StartSpawnReconnector, Closing, TypeOK, Starts
  <2> QED
    BY <1>0, <1>7, <2>1 DEF StartSpawnReconnector, OneConnection, NothingOpen,
                            AllClosed, ReaderLives, TypeOK, connVars
<1>8. CASE BeginStop \/ StopSetNotRunning \/ StopSetUnhealthy
  BY <1>0, <1>8
     DEF BeginStop, StopSetNotRunning, StopSetUnhealthy, OneConnection, NothingOpen,
         AllClosed, ReaderLives, connVars, threadVars
<1>9. ~StopCloseStopChan /\ ~StopCloseConn /\ ~StopCloseDataChan
  BY <1>0 DEF StopCloseStopChan, StopCloseConn, StopCloseDataChan, Closing
<1>10. ASSUME NEW k \in Dials, ReaderMoves(k)
       PROVE  OneConnection' /\ NothingOpen'
  <2>1. /\ ReaderLives(k)
        /\ \A j \in Dials : j # k => reader'[j] = reader[j]
        /\ UNCHANGED <<conn, dials, closedConns, starter, reconnector>>
    BY <1>10, GotoLives DEF ReaderUnchanged, connVars, callVars
  <2>2. reader'[k].conn = conn
    <3>1. reader[k] \in ReaderState
      BY DEF TypeOK
    <3>2. CASE ReaderNew(k)
      BY <3>1, <3>2 DEF ReaderNew, ReaderState, TypeOK
    <3>3. CASE ~ReaderNew(k)
      <4>1. reader[k].pc # "new" /\ reader'[k].conn = reader[k].conn
        BY <1>10, <3>1, <3>3
           DEF ReaderMoves, ReaderTooLong, ReaderStep, ReaderCheck, ReaderLine,
               ReaderSend, ReaderScanFails, ReaderSetUnhealthy, ReaderGoto, ReaderState,
               TypeOK
      <4> QED
        BY <1>0, <2>1, <4>1
    <3> QED
      BY <3>2, <3>3
  <2>3. \A j \in Dials :
          ReaderLives(j)' /\ reader'[j].pc # "new" => reader'[j].conn = conn'
    BY <1>0, <2>1, <2>2 DEF ReaderLives
  <2> QED
    BY <1>0, <2>1, <2>3 DEF OneConnection, NothingOpen, AllClosed
<1>11. ASSUME NEW s \in Starts, ReconnectorStep(s)
       PROVE  OneConnection' /\ NothingOpen'
  <2>1. /\ reconnector[s] # "none" /\ reconnector'[s] # "none"
        /\ \A t \in Starts : t # s => reconnector'[t] = reconnector[t]
        /\ UNCHANGED starter
    BY <1>11, ReconnectorFacts DEF callVars
  <2>2. \A t \in Starts : t # s => reconnector[t] = "none"
    BY <1>0, <2>1 DEF BeforeStop, OneReconnects
  <2>3. CASE ReconnectClose(s)
    <3>1. AllClosed' /\ UNCHANGED <<conn, dials, reader>>
      BY <1>0, <2>3 DEF ReconnectClose, AllClosed
    <3> QED
      BY <1>0, <2>1, <3>1 DEF OneConnection, NothingOpen, AllClosed, ReaderLives
  <2>4. CASE ReconnectDial(s)
    <3>1. /\ Connect /\ AllClosed /\ NoneLives
          /\ UNCHANGED <<reader, closedConns>>
          /\ reconnector'[s] = "healthy"
      BY <1>0, <2>4 DEF ReconnectDial, BeforeStop, BetweenReaders, Reconnecting,
                        ReconnectorGoto, TypeOK
    <3> QED
      BY <1>1, <2>1, <2>2, <3>1 DEF OneConnection, NothingOpen, NoneLives, ReaderLives
  <2>5. CASE ReconnectSpawn(s)
    <3>1. \A k \in Dials : ReaderLives(k)' /\ reader'[k].pc # "new" =>
            ReaderLives(k) /\ reader'[k] = reader[k]
      BY <1>5, <2>5 DEF ReconnectSpawn
    <3>2. reconnector'[s] = "wait"
      BY <2>5 DEF ReconnectSpawn, ReconnectorGoto, TypeOK
    <3> QED
      BY <1>0, <2>1, <2>2, <2>5, <3>1, <3>2
         DEF ReconnectSpawn, OneConnection, NothingOpen, connVars
  <2>6. CASE ~ReconnectClose(s) /\ ~ReconnectDial(s) /\ ~ReconnectSpawn(s)
    <3>1. UNCHANGED <<conn, dials, closedConns, reader>> /\ reconnector'[s] # "dial"
      BY <1>11, <2>6
         DEF ReconnectorStep, ReconnectTick, ReconnectTestRunning, ReconnectDialFails,
             ReconnectSetHealthy, ReconnectorExit, ReconnectorGoto, TypeOK, connVars
    <3> QED
      BY <1>0, <2>1, <2>2, <3>1 DEF OneConnection, NothingOpen, ReaderLives
  <2> QED
    BY <2>3, <2>4, <2>5, <2>6
<1>12. CASE ConnectionBreaks \/ (\E s \in Starts : ContextDone(s)) \/ UNCHANGED vars
  <2>1. UNCHANGED <<connVars, callVars, threadVars>>
    BY <1>12 DEF ConnectionBreaks, ContextDone, vars
  <2> QED
    BY <1>0, <2>1 DEF OneConnection, NothingOpen, AllClosed, ReaderLives, connVars,
                      callVars, threadVars
<1> QED
  BY <1>2, <1>3, <1>4, <1>6, <1>7, <1>8, <1>9, <1>10, <1>11, <1>12
     DEF Next, StartStep, StopStep, ReaderMoves
-----------------------------------------------------------------------------
(* A reconnector returns only when it was told to.                         *)
LEMMA ReconnectorStays ==
  ASSUME TypeOK, Closing, HasReconnector, [Next]_vars
  PROVE  HasReconnector'
<1> DEFINE Needed == done = {} /\ ~stopClosed /\ isRunning
<1> SUFFICES ASSUME done' = {}, ~stopClosed', isRunning'
             PROVE  ReconnectorComes' \/ \E s \in Starts : ReconnectorLives(s)'
  BY DEF HasReconnector
<1> USE DEF ReconnectorComes
<1>0. ~stopClosed
  BY StaysClosed
<1>1. ASSUME Needed, UNCHANGED <<starter, reconnector>>
      PROVE  ReconnectorComes' \/ \E s \in Starts : ReconnectorLives(s)'
  BY <1>1 DEF HasReconnector, ReconnectorLives
<1>2. CASE BeginStart \/ StartDial
  <2>1. Needed /\ UNCHANGED reconnector
    BY <1>0, <1>2 DEF BeginStart, StartDial, flagVars, threadVars, envVars
  <2>2. starter \in {"idle", "dial"}
    BY <1>2 DEF BeginStart, StartDial
  <2> QED
    BY <2>1, <2>2 DEF HasReconnector, ReconnectorLives
<1>3. CASE StartSetRunning \/ StartSetHealthy \/ StartSpawnReader
  BY <1>3 DEF StartSetRunning, StartSetHealthy, StartSpawnReader
<1>4. CASE StartSpawnReconnector
  <2>1. starts \in Starts
    BY <1>4, AdapterAssumption DEF StartSpawnReconnector, Closing, TypeOK, Starts
  <2> QED
    BY <1>4, <2>1 DEF StartSpawnReconnector, ReconnectorLives, TypeOK
<1>5. CASE BeginStop \/ StopStep
  BY <1>0, <1>1, <1>5
     DEF BeginStop, StopStep, StopSetNotRunning, StopSetUnhealthy, StopCloseStopChan,
         StopCloseConn, StopCloseDataChan, flagVars, threadVars, envVars
<1>6. ASSUME NEW k \in Dials, ReaderMoves(k)
      PROVE  ReconnectorComes' \/ \E s \in Starts : ReconnectorLives(s)'
  BY <1>0, <1>1, <1>6, GotoLives DEF ReaderUnchanged, callVars, envVars
<1>7. ASSUME NEW s \in Starts, ReconnectorStep(s)
      PROVE  \E t \in Starts : ReconnectorLives(t)'
  <2>1. ~ReconnectorExit(s)
    BY <1>0, <1>7, ReconnectorFacts DEF ReconnectorExit, Told, envVars
  <2>2. reconnector'[s] \notin {"none", "exited"}
    BY <1>7, <2>1
       DEF ReconnectorStep, ReconnectTick, ReconnectTestRunning, ReconnectClose,
           ReconnectDial, ReconnectDialFails, ReconnectSetHealthy, ReconnectSpawn,
           ReconnectorGoto, TypeOK
  <2> QED
    BY <2>2 DEF ReconnectorLives
<1>8. CASE ConnectionBreaks \/ (\E s \in Starts : ContextDone(s)) \/ UNCHANGED vars
  <2>1. UNCHANGED <<flagVars, callVars, threadVars>> /\ done \subseteq done'
    BY <1>8 DEF ConnectionBreaks, ContextDone, vars, envVars
  <2> QED
    BY <1>0, <1>1, <2>1 DEF flagVars, callVars, threadVars
<1> QED
  BY <1>2, <1>3, <1>4, <1>5, <1>6, <1>7, <1>8 DEF Next, StartStep, ReaderMoves

(* A reader of an adapter nobody stopped ends only after it has reported   *)
(* the connection's end.                                                   *)
LEMMA ReaderStays ==
  ASSUME TypeOK, Closing, BeforeStop, NEW k \in Dials, ReaderMoves(k),
         done = {}, stopper = "idle", ~stopClosed, isHealthy'
  PROVE  ReaderLives(k)'
<1>1. reader[k] \in ReaderState /\ ReaderLives(k)
  BY GotoLives DEF TypeOK
<1>2. isRunning /\ ~chanClosed /\ ~Told(reader[k].ctx)
  <2>1. ~NoReconnector \/ starter = "spawnReconnector"
    BY <1>1 DEF BeforeStop, FirstStart, NoneLives
  <2> QED
    BY <2>1 DEF BeforeStop, FirstStart, Stopping, Closing, Told
<1>3. reader'[k].pc \in {"check", "scan", "send", "failed"}
  <2>1. ~ReaderSetUnhealthy(k)
    BY DEF ReaderSetUnhealthy
  <2>2. CASE ReaderNew(k)
    BY <1>1, <2>2 DEF ReaderNew, TypeOK, ReaderState
  <2>3. CASE ReaderCheck(k)
    BY <1>1, <1>2, <2>3 DEF ReaderCheck, ReaderGoto, TypeOK, ReaderState
  <2>4. CASE ReaderLine(k) \/ ReaderScanFails(k) \/ ReaderTooLong(k)
    BY <1>1, <2>4
       DEF ReaderLine, ReaderScanFails, ReaderTooLong, ReaderGoto, TypeOK, ReaderState
  <2>5. CASE ReaderSend(k)
    BY <1>1, <1>2, <2>5 DEF ReaderSend, ReaderGoto, TypeOK, ReaderState
  <2> QED
    BY <2>1, <2>2, <2>3, <2>4, <2>5 DEF ReaderMoves, ReaderStep
<1> QED
  BY <1>3 DEF ReaderLives

(* While nobody stops it, whoever makes an adapter healthy spawns a reader *)
(* for it next.                                                            *)
LEMMA HasReaderStep ==
  ASSUME TypeOK, Closing, BeforeStop, HasReader, [Next]_vars
  PROVE  HasReader'
<1> DEFINE Untouched == done = {} /\ stopper = "idle" /\ ~stopClosed
           Served == ReaderComes' \/ \E k \in Dials : ReaderLives(k)'
<1> SUFFICES ASSUME done' = {}, stopper' = "idle", ~stopClosed', isHealthy'
             PROVE  Served
  BY DEF HasReader
<1>0. ~stopClosed
  BY StaysClosed
<1>1. ASSUME Untouched, UNCHANGED <<isHealthy, reader>>,
             ReaderComes => ReaderComes'
      PROVE  Served
  BY <1>1 DEF HasReader, ReaderLives
<1>2. ASSUME NEW s, Spawn(s)
      PROVE  Served
  <2>1. PICK k \in Dials : reader' = [reader EXCEPT ![k] = NewReader(s)]
    BY <1>2, SpawnFacts
  <2> QED
    BY <2>1 DEF ReaderLives, NewReader, TypeOK
<1>3. CASE BeginStart \/ StartDial \/ StartSetRunning
  <2>1. Untouched /\ UNCHANGED <<isHealthy, reader, reconnector>>
    BY <1>0, <1>3 DEF BeginStart, StartDial, StartSetRunning, flagVars, callVars,
                      threadVars, envVars
  <2>2. ReaderComes => ReaderComes'
    BY <1>3, <2>1 DEF BeginStart, StartDial, StartSetRunning, ReaderComes
  <2> QED
    BY <1>1, <2>1, <2>2
<1>4. CASE StartSetHealthy
  BY <1>4 DEF StartSetHealthy, ReaderComes
<1>5. CASE StartSpawnReader
  BY <1>2, <1>5 DEF StartSpawnReader
<1>6. CASE StartSpawnReconnector
  <2>1. Untouched /\ UNCHANGED <<isHealthy, reader>>
    BY <1>0, <1>6 DEF StartSpawnReconnector, flagVars, envVars
  <2>2. ~ReaderComes
    BY <1>0, <1>6 DEF StartSpawnReconnector, ReaderComes, BeforeStop, FirstStart,
                      NoReconnector
  <2> QED
    BY <1>1, <2>1, <2>2
<1>7. CASE BeginStop
  <2>1. Untouched /\ UNCHANGED <<isHealthy, starter, reader, reconnector>>
    BY <1>0, <1>7 DEF BeginStop, flagVars, threadVars, envVars
  <2> QED
    BY <1>1, <2>1 DEF ReaderComes
<1>8. CASE StopStep
  BY <1>0, <1>8 DEF StopStep, StopSetNotRunning, StopSetUnhealthy, StopCloseStopChan,
                    StopCloseConn, StopCloseDataChan, Closing, closeVars
<1>9. ASSUME NEW k \in Dials, ReaderMoves(k)
      PROVE  Served
  <2>1. Untouched
    BY <1>0, <1>9, GotoLives DEF ReaderUnchanged, callVars, envVars
  <2> QED
    BY <1>9, <2>1, ReaderStays
<1>10. ASSUME NEW s \in Starts, ReconnectorStep(s)
       PROVE  Served
  <2>1. CASE ReconnectSpawn(s)
    BY <1>2, <2>1 DEF ReconnectSpawn
  <2>2. CASE ReconnectSetHealthy(s)
    BY <2>2 DEF ReconnectSetHealthy, ReconnectorGoto, ReaderComes, TypeOK
  <2>3. CASE ~ReconnectSpawn(s) /\ ~ReconnectSetHealthy(s)
    <3>1. UNCHANGED <<isHealthy, reader>> /\ reconnector[s] # "spawn"
      BY <1>10, <2>3
         DEF ReconnectorStep, ReconnectTick, ReconnectTestRunning, ReconnectClose,
             ReconnectDial, ReconnectDialFails, ReconnectorExit, flagVars
    <3>2. /\ Untouched /\ UNCHANGED starter
          /\ \A t \in Starts : t # s => reconnector'[t] = reconnector[t]
      BY <1>0, <1>10, ReconnectorFacts DEF callVars, envVars
    <3> QED
      BY <1>1, <3>1, <3>2 DEF ReaderComes
  <2> QED
    BY <2>1, <2>2, <2>3
<1>11. CASE ConnectionBreaks \/ (\E s \in Starts : ContextDone(s)) \/ UNCHANGED vars
  <2>1. UNCHANGED <<flagVars, callVars, threadVars>> /\ done \subseteq done'
    BY <1>11 DEF ConnectionBreaks, ContextDone, vars, envVars
  <2> QED
    BY <1>0, <1>1, <2>1 DEF ReaderComes, flagVars, callVars, threadVars
<1> QED
  BY <1>3, <1>4, <1>5, <1>6, <1>7, <1>8, <1>9, <1>10, <1>11
     DEF Next, StartStep, ReaderMoves
-----------------------------------------------------------------------------
(* A new adapter has no goroutines.                                        *)
LEMMA AdapterInit == Init => AdapterInv
<1> SUFFICES ASSUME Init PROVE AdapterInv
  OBVIOUS
<1>1. TypeOK
  <2>1. NoReader \in ReaderState
    BY AdapterAssumption DEF NoReader, ReaderState
  <2>2. 0 \in 0 .. MaxStarts /\ 0 \in 0 .. MaxStops /\ 0 \in 0 .. MaxDials
    BY AdapterAssumption
  <2>3. reader \in [Dials -> ReaderState]
    BY <2>1 DEF Init
  <2>4. /\ conn \in 0 .. dials /\ dials \in 0 .. MaxDials
        /\ starts \in 0 .. MaxStarts /\ stops \in 0 .. MaxStops
    BY <2>2 DEF Init
  <2> QED
    BY <2>3, <2>4 DEF Init, TypeOK
<1>2. \A k \in Dials : reader[k].pc = "none"
  BY DEF Init, NoReader
<1>3. OneConnection /\ NothingOpen
  BY <1>2 DEF Init, OneConnection, NothingOpen, ReaderLives
<1> QED
  BY <1>1, <1>2, <1>3
     DEF Init, AdapterInv, Closing, BeforeStop, OneLives, OneReconnects, FirstStart,
         BetweenReaders, NoneLives, NoReconnector, Reconnecting, Stopping, ReaderLives,
         AtMostOneReads, Reading, HasReconnector, HasReader

(* The invariant is inductive.                                             *)
LEMMA AdapterStep == AdapterInv /\ [Next]_vars => AdapterInv'
<1> SUFFICES ASSUME AdapterInv, [Next]_vars PROVE AdapterInv'
  OBVIOUS
<1>1. TypeOK' /\ Closing' /\ BeforeStop' /\ AtMostOneReads'
  BY TypeStep, BeforeStopStep, OneReadsStep DEF AdapterInv
<1>2. OneConnection' /\ NothingOpen'
  BY ConnectionStep DEF AdapterInv, OneConnection, NothingOpen
<1>3. HasReconnector' /\ HasReader'
  BY ReconnectorStays, HasReaderStep DEF AdapterInv
<1> QED
  BY <1>1, <1>2, <1>3 DEF AdapterInv

(* It holds in every state.                                                *)
LEMMA AdapterHolds == Spec => []AdapterInv
BY AdapterInit, AdapterStep, PTL DEF Spec

(***************************************************************************)
(* The type invariant: every connection in a field was made, and every     *)
(* goroutine is at a step of its own (live.go).                            *)
(***************************************************************************)
THEOREM TypeCorrect == Spec => []TypeOK
<1>1. AdapterInv => TypeOK
  BY DEF AdapterInv
<1> QED
  BY <1>1, AdapterHolds, PTL

(***************************************************************************)
(* No two readers ever scan or send at a time, whatever Starts, Stops and  *)
(* reconnections overlap (readData and handleReconnection, live.go).       *)
(***************************************************************************)
THEOREM OneReads == Spec => []AtMostOneReads
<1>1. AdapterInv => AtMostOneReads
  BY DEF AdapterInv
<1> QED
  BY <1>1, AdapterHolds, PTL

(***************************************************************************)
(* Until the stop channel is closed only the connection in the field is    *)
(* open, and it is the one a reader scans (connect and readData, live.go). *)
(***************************************************************************)
THEOREM OneConnects == Spec => []OneConnection
<1>1. AdapterInv => OneConnection
  BY DEF AdapterInv
<1> QED
  BY <1>1, AdapterHolds, PTL

(***************************************************************************)
(* Of an adapter nobody stopped or cancelled isHealthy is set only while a *)
(* reader lives or is spawned next, and clear only while none lives and a  *)
(* reconnector sees it (Start, readData and handleReconnection, live.go).  *)
(***************************************************************************)
THEOREM HealthMatches == Spec => []HealthMatchesReader
<1>1. AdapterInv => HealthMatchesReader
  <2> SUFFICES ASSUME AdapterInv, done = {}, stopper = "idle", ~stopClosed
               PROVE  /\ isHealthy => ReaderComes \/ \E k \in Dials : ReaderLives(k)
                      /\ isRunning /\ ~isHealthy =>
                           /\ NoneLives
                           /\ \/ ReconnectorComes
                              \/ \E s \in Starts : ReconnectorLives(s)
    BY DEF HealthMatchesReader, NoneLives
  <2>1. isHealthy => ReaderComes \/ \E k \in Dials : ReaderLives(k)
    BY DEF AdapterInv, HasReader
  <2>2. isRunning => ReconnectorComes \/ \E s \in Starts : ReconnectorLives(s)
    BY DEF AdapterInv, HasReconnector
  <2>3. isRunning /\ ~isHealthy => NoneLives
    BY DEF AdapterInv, BeforeStop, BetweenReaders
  <2> QED
    BY <2>1, <2>2, <2>3
<1> QED
  BY <1>1, AdapterHolds, PTL
=============================================================================
