--------------------------- MODULE ExchangeAdapter ---------------------------
(***************************************************************************)
(* One exchange adapter: LiveExchangeAdapter, and TestExchangeAdapter,     *)
(* which is the same code under another name.  Its fields are shared by    *)
(* four kinds of goroutines and guarded by no lock: whoever calls Start,   *)
(* whoever calls Stop, the readers (readData) and the reconnectors         *)
(* (handleReconnection).  Every write of a shared field, every close of a  *)
(* channel or connection and every go statement is a step of its own, and  *)
(* so is every read, but for three that what follows them makes harmless:  *)
(*   - the condition of a reader's loop and its select: a channel that is  *)
(*     open at the select was open at the condition;                       *)
(*   - the test of conn for nil and the Close after it: conn is never nil  *)
(*     again;                                                              *)
(*   - Scan's return and the test of isRunning before the send: between    *)
(*     them a reader touches only what is its own.                         *)
(*                                                                         *)
(* What a line says and what the channel holds is in MarketPipeline; here  *)
(* a send ends, with the value accepted or dropped, or hits a closed       *)
(* channel.                                                                *)
(***************************************************************************)
EXTENDS Integers, FiniteSets

CONSTANTS
  MaxStarts, \* bound: calls of Start
  MaxStops,  \* bound: calls of Stop
  MaxDials   \* bound: successful connections

ASSUME AdapterAssumption ==
  /\ MaxStarts \in Nat
  /\ MaxStops \in Nat
  /\ MaxDials \in Nat

VARIABLES
  isRunning, isHealthy,
  conn,        \* the field conn: the number of a connection, 0 for nil
  stopClosed,  \* stopChan is closed
  chanClosed,  \* dataChan is closed
  dials,       \* how many connections were made: they are 1 .. dials
  closedConns, \* those this side closed
  brokenConns, \* those the exchange or the network ended
  starts,      \* calls of Start so far; the s-th was given context s
  stops,       \* calls of Stop so far
  done,        \* the contexts that are done
  starter,     \* the goroutine inside Start: its next step
  stopper,     \* the goroutine inside Stop: its next step
  reader,      \* reader[k]: the k-th goroutine of readData
  reconnector  \* reconnector[s]: the next step of the one the s-th Start spawned

flagVars   == <<isRunning, isHealthy>>
closeVars  == <<stopClosed, chanClosed>>
connVars   == <<conn, dials, closedConns>>
callVars   == <<starts, stops, starter, stopper>>
threadVars == <<reader, reconnector>>
envVars    == <<brokenConns, done>>

vars == <<flagVars, closeVars, connVars, callVars, threadVars, envVars>>
-----------------------------------------------------------------------------
Starts == 1 .. MaxStarts
Dials  == 1 .. MaxDials

(* A reader: its next step, its context, the connection of its scanner.    *)
ReaderState ==
  [pc : {"none", "new", "check", "scan", "send", "failed", "exited"},
   ctx : 0 .. MaxStarts, conn : 0 .. MaxDials]

NoReader == [pc |-> "none", ctx |-> 0, conn |-> 0]
NewReader(s) == [pc |-> "new", ctx |-> s, conn |-> 0]

(* close(stopChan) or the end of the context makes every select return.    *)
Told(s) == stopClosed \/ s \in done

(* Connection k is open on both sides.                                     *)
Alive(k) == k \notin closedConns \cup brokenConns

Init ==
  /\ isRunning = FALSE
  /\ isHealthy = FALSE
  /\ conn = 0
  /\ stopClosed = FALSE
  /\ chanClosed = FALSE
  /\ dials = 0
  /\ closedConns = {}
  /\ brokenConns = {}
  /\ starts = 0
  /\ stops = 0
  /\ done = {}
  /\ starter = "idle"
  /\ stopper = "idle"
  /\ reader = [k \in Dials |-> NoReader]
  /\ reconnector = [s \in Starts |-> "none"]

(* go l.readData(ctx)                                                      *)
Spawn(s) ==
  \E k \in Dials :
    /\ reader[k] = NoReader
    /\ \A j \in 1 .. k - 1 : reader[j] # NoReader
    /\ reader' = [reader EXCEPT ![k] = NewReader(s)]

(* connect, when it succeeds: a new connection, stored in the field.       *)
\* mistake: the connection is not counted.
ConnectUncounted ==
  /\ dials < MaxDials
  /\ conn' = dials + 1
  /\ UNCHANGED dials

Connect ==
  /\ dials < MaxDials
  /\ dials' = dials + 1
  /\ conn' = dials + 1
-----------------------------------------------------------------------------
(* Start.  The service calls it under runMutex, so one call at a time, and *)
(* only the first, by the start-up goroutine, can overlap a Stop: the      *)
(* later ones come from the switch that holds modeMutex.                   *)

BeginStart ==
  /\ starter = "idle"
  /\ stopper = "idle" \/ starts = 0
  /\ starts < MaxStarts
  /\ starts' = starts + 1
  /\ starter' = IF isRunning THEN "idle" ELSE "dial"
  /\ UNCHANGED <<flagVars, closeVars, connVars, stops, stopper, threadVars,
                 envVars>>

StartDial ==
  /\ starter = "dial"
  /\ \/ /\ Connect
        /\ starter' = "running"
     \/ /\ starter' = "idle"
        /\ UNCHANGED <<dials, conn>>
  /\ UNCHANGED <<flagVars, closeVars, closedConns, starts, stops, stopper,
                 threadVars, envVars>>

StartSetRunning ==
  /\ starter = "running"
  /\ isRunning' = TRUE
  /\ starter' = "healthy"
  /\ UNCHANGED <<isHealthy, closeVars, connVars, starts, stops, stopper,
                 threadVars, envVars>>

StartSetHealthy ==
  /\ starter = "healthy"
  /\ isHealthy' = TRUE
  /\ starter' = "spawnReader"
  /\ UNCHANGED <<isRunning, closeVars, connVars, starts, stops, stopper,
                 threadVars, envVars>>

StartSpawnReader ==
  /\ starter = "spawnReader"
  /\ Spawn(starts)
  /\ starter' = "spawnReconnector"
  /\ UNCHANGED <<flagVars, closeVars, connVars, starts, stops, stopper,
                 reconnector, envVars>>

StartSpawnReconnector ==
  /\ starter = "spawnReconnector"
  /\ reconnector' = [reconnector EXCEPT ![starts] = "wait"]
  /\ starter' = "idle"
  /\ UNCHANGED <<flagVars, closeVars, connVars, starts, stops, stopper,
                 reader, envVars>>
-----------------------------------------------------------------------------
(* Stop, called under modeMutex: one call at a time.                       *)

BeginStop ==
  /\ stopper = "idle"
  /\ starter = "idle" \/ starts = 1
  /\ stops < MaxStops
  /\ stops' = stops + 1
  /\ stopper' = IF isRunning THEN "notRunning" ELSE "idle"
  /\ UNCHANGED <<flagVars, closeVars, connVars, starts, starter, threadVars,
                 envVars>>

StopSetNotRunning ==
  /\ stopper = "notRunning"
  /\ isRunning' = FALSE
  /\ stopper' = "unhealthy"
  /\ UNCHANGED <<isHealthy, closeVars, connVars, starts, stops, starter,
                 threadVars, envVars>>

StopSetUnhealthy ==
  /\ stopper = "unhealthy"
  /\ isHealthy' = FALSE
  /\ stopper' = "closeStop"
  /\ UNCHANGED <<isRunning, closeVars, connVars, starts, stops, starter,
                 threadVars, envVars>>

(* A second close panics: the rest of Stop does not happen.                *)
StopCloseStopChan ==
  /\ stopper = "closeStop"
  /\ stopClosed' = TRUE
  /\ stopper' = IF stopClosed THEN "idle" ELSE "closeConn"
  /\ UNCHANGED <<flagVars, chanClosed, connVars, starts, stops, starter,
                 threadVars, envVars>>

\* mistake: the connection is left open.
StopKeepConn ==
  /\ stopper = "closeConn"
  /\ stopper' = "closeData"
  /\ UNCHANGED <<flagVars, closeVars, connVars, starts, stops, starter,
                 threadVars, envVars>>

StopCloseConn ==
  /\ stopper = "closeConn"
  /\ closedConns' = closedConns \cup ({conn} \ {0})
  /\ stopper' = "closeData"
  /\ UNCHANGED <<flagVars, closeVars, conn, dials, starts, stops, starter,
                 threadVars, envVars>>

StopCloseDataChan ==
  /\ stopper = "closeData"
  /\ chanClosed' = TRUE
  /\ stopper' = "idle"
  /\ UNCHANGED <<flagVars, stopClosed, connVars, starts, stops, starter,
                 threadVars, envVars>>
-----------------------------------------------------------------------------
(* readData                                                                *)

ReaderGoto(k, label) == reader' = [reader EXCEPT ![k].pc = label]

ReaderUnchanged ==
  UNCHANGED <<isRunning, closeVars, connVars, callVars, reconnector, envVars>>

(* bufio.NewScanner(l.conn)                                                *)
ReaderNew(k) ==
  /\ reader[k].pc = "new"
  /\ reader' = [reader EXCEPT ![k].pc = "check", ![k].conn = conn]
  /\ UNCHANGED isHealthy
  /\ ReaderUnchanged

(* The loop's condition and its select.                                    *)
ReaderCheck(k) ==
  /\ reader[k].pc = "check"
  /\ ReaderGoto(k, IF isRunning /\ ~Told(reader[k].ctx) THEN "scan" ELSE "exited")
  /\ UNCHANGED isHealthy
  /\ ReaderUnchanged

(* Scan returns a line, maybe one it had in its buffer when the connection *)
(* ended: one that is blank or does not parse is skipped, any other is     *)
(* sent if the adapter is still running.                                   *)
ReaderLine(k) ==
  /\ reader[k].pc = "scan"
  /\ \/ ReaderGoto(k, "check")
     \/ isRunning /\ ReaderGoto(k, "send")
  /\ UNCHANGED isHealthy
  /\ ReaderUnchanged

(* The send, or its 100 ms timer; on a closed channel it panics, which     *)
(* readData recovers and returns.                                          *)
ReaderSend(k) ==
  /\ reader[k].pc = "send"
  /\ ReaderGoto(k, IF chanClosed THEN "exited" ELSE "check")
  /\ UNCHANGED isHealthy
  /\ ReaderUnchanged

(* Scan fails at the end of the connection, and on a line that is longer   *)
(* than its buffer; then the adapter is marked unhealthy.                  *)
ReaderScanFails(k) ==
  /\ reader[k].pc = "scan"
  /\ ~Alive(reader[k].conn)
  /\ ReaderGoto(k, "failed")
  /\ UNCHANGED isHealthy
  /\ ReaderUnchanged

ReaderTooLong(k) ==
  /\ reader[k].pc = "scan"
  /\ ReaderGoto(k, "failed")
  /\ UNCHANGED isHealthy
  /\ ReaderUnchanged

\* mistake: the adapter stays healthy.
ReaderQuits(k) ==
  /\ reader[k].pc = "failed"
  /\ ReaderGoto(k, "exited")
  /\ UNCHANGED isHealthy
  /\ ReaderUnchanged

ReaderSetUnhealthy(k) ==
  /\ reader[k].pc = "failed"
  /\ ReaderGoto(k, "exited")
  /\ isHealthy' = FALSE
  /\ ReaderUnchanged
-----------------------------------------------------------------------------
(* handleReconnection                                                      *)

ReconnectorGoto(s, label) == reconnector' = [reconnector EXCEPT ![s] = label]

\* mistake: it reconnects whether it is healthy or not.
ReconnectEveryTick(s) ==
  /\ reconnector[s] = "wait"
  /\ dials < MaxDials
  /\ ReconnectorGoto(s, "ticked")
  /\ UNCHANGED <<flagVars, closeVars, connVars, callVars, reader, envVars>>

(* A tick finds the adapter unhealthy; one that does not changes nothing.  *)
(* The select may still take the tick when it was told to stop.            *)
ReconnectTick(s) ==
  /\ reconnector[s] = "wait"
  /\ ~isHealthy
  /\ ReconnectorGoto(s, "ticked")
  /\ UNCHANGED <<flagVars, closeVars, connVars, callVars, reader, envVars>>

ReconnectTestRunning(s) ==
  /\ reconnector[s] = "ticked"
  /\ ReconnectorGoto(s, IF isRunning THEN "close" ELSE "wait")
  /\ UNCHANGED <<flagVars, closeVars, connVars, callVars, reader, envVars>>

\* mistake: the old connection is left open.
ReconnectKeepConn(s) ==
  /\ reconnector[s] = "close"
  /\ ReconnectorGoto(s, "dial")
  /\ UNCHANGED <<flagVars, closeVars, connVars, callVars, reader, envVars>>

ReconnectClose(s) ==
  /\ reconnector[s] = "close"
  /\ closedConns' = closedConns \cup ({conn} \ {0})
  /\ ReconnectorGoto(s, "dial")
  /\ UNCHANGED <<flagVars, closeVars, conn, dials, callVars, reader, envVars>>

ReconnectDial(s) ==
  /\ reconnector[s] = "dial"
  /\ Connect
  /\ ReconnectorGoto(s, "healthy")
  /\ UNCHANGED <<flagVars, closeVars, closedConns, callVars, reader, envVars>>

ReconnectDialFails(s) ==
  /\ reconnector[s] = "dial"
  /\ ReconnectorGoto(s, "wait")
  /\ UNCHANGED <<flagVars, closeVars, connVars, callVars, reader, envVars>>

ReconnectSetHealthy(s) ==
  /\ reconnector[s] = "healthy"
  /\ isHealthy' = TRUE
  /\ ReconnectorGoto(s, "spawn")
  /\ UNCHANGED <<isRunning, closeVars, connVars, callVars, reader, envVars>>

ReconnectSpawn(s) ==
  /\ reconnector[s] = "spawn"
  /\ Spawn(s)
  /\ ReconnectorGoto(s, "wait")
  /\ UNCHANGED <<flagVars, closeVars, connVars, callVars, envVars>>

ReconnectorExit(s) ==
  /\ reconnector[s] = "wait"
  /\ Told(s)
  /\ ReconnectorGoto(s, "exited")
  /\ UNCHANGED <<flagVars, closeVars, connVars, callVars, reader, envVars>>
-----------------------------------------------------------------------------
(* The surroundings.                                                       *)

(* The exchange or the network ends the connection.  The bound leaves the  *)
(* adapter a connection to come back with.                                 *)
ConnectionBreaks ==
  /\ conn # 0
  /\ Alive(conn)
  /\ dials < MaxDials
  /\ brokenConns' = brokenConns \cup {conn}
  /\ UNCHANGED <<flagVars, closeVars, connVars, callVars, threadVars, done>>

(* The context given to the s-th Start is done: its request is over.       *)
ContextDone(s) ==
  /\ s <= starts
  /\ s \notin done
  /\ done' = done \cup {s}
  /\ UNCHANGED <<flagVars, closeVars, connVars, callVars, threadVars,
                 brokenConns>>

StartStep ==
  \/ StartDial
  \/ StartSetRunning
  \/ StartSetHealthy
  \/ StartSpawnReader
  \/ StartSpawnReconnector

StopStep ==
  \/ StopSetNotRunning
  \/ StopSetUnhealthy
  \/ StopCloseStopChan
  \/ StopCloseConn
  \/ StopCloseDataChan

ReaderStep(k) ==
  \/ ReaderNew(k)
  \/ ReaderCheck(k)
  \/ ReaderSend(k)
  \/ ReaderScanFails(k)
  \/ ReaderSetUnhealthy(k)

ReconnectorStep(s) ==
  \/ ReconnectTick(s)
  \/ ReconnectTestRunning(s)
  \/ ReconnectClose(s)
  \/ ReconnectDial(s)
  \/ ReconnectDialFails(s)
  \/ ReconnectSetHealthy(s)
  \/ ReconnectSpawn(s)
  \/ ReconnectorExit(s)

Next ==
  \/ BeginStart
  \/ StartStep
  \/ BeginStop
  \/ StopStep
  \/ \E k \in Dials : ReaderStep(k) \/ ReaderLine(k) \/ ReaderTooLong(k)
  \/ \E s \in Starts : ReconnectorStep(s) \/ ContextDone(s)
  \/ ConnectionBreaks

Spec == Init /\ [][Next]_vars

(***************************************************************************)
(* Fairness: calls and goroutines go on when they can.  A goroutine told   *)
(* to stop may pick the tick of its select instead any number of times but *)
(* not for ever, an exchange that is dialled again and again answers in    *)
(* the end, and a scanner whose connection ended runs out of buffered      *)
(* lines.  Each of the three is assumed of the goroutines together, which  *)
(* is less than of each; nothing is assumed of the arrival of lines.       *)
(***************************************************************************)
Fairness ==
  /\ WF_vars(StartStep)
  /\ WF_vars(StopStep)
  /\ \A k \in Dials : WF_vars(ReaderStep(k))
  /\ \A s \in Starts : WF_vars(ReconnectorStep(s))
  /\ SF_vars(\E k \in Dials : ReaderScanFails(k))
  /\ SF_vars(\E s \in Starts : ReconnectorExit(s))
  /\ SF_vars(\E s \in Starts : ReconnectDial(s))

FairSpec == Spec /\ Fairness
-----------------------------------------------------------------------------
(* Type invariant.                                                         *)
TypeOK ==
  /\ isRunning \in BOOLEAN
  /\ isHealthy \in BOOLEAN
  /\ conn \in 0 .. dials
  /\ stopClosed \in BOOLEAN
  /\ chanClosed \in BOOLEAN
  /\ dials \in 0 .. MaxDials
  /\ closedConns \in SUBSET (1 .. dials)
  /\ brokenConns \in SUBSET (1 .. dials)
  /\ starts \in 0 .. MaxStarts
  /\ stops \in 0 .. MaxStops
  /\ done \in SUBSET (1 .. starts)
  /\ starter \in {"idle", "dial", "running", "healthy", "spawnReader",
                  "spawnReconnector"}
  /\ stopper \in {"idle", "notRunning", "unhealthy", "closeStop", "closeConn",
                  "closeData"}
  /\ reader \in [Dials -> ReaderState]
  /\ reconnector \in [Starts -> {"none", "wait", "ticked", "close", "dial",
                               "healthy", "spawn", "exited"}]

ReaderLives(k) == reader[k].pc \notin {"none", "exited"}
ReconnectorLives(s) == reconnector[s] \notin {"none", "exited"}

(***************************************************************************)
(* No two readers ever scan or send at a time, on the same connection or   *)
(* on two: what the exchange reports is not sent twice, although a         *)
(* reconnection spawns a reader without waiting for the last one, which    *)
(* may have lines in its buffer (live.go, readData, handleReconnection).   *)
(***************************************************************************)
Reading(k) == reader[k].pc \in {"scan", "send"}

AtMostOneReads == \A j, k \in Dials : Reading(j) /\ Reading(k) => j = k

(***************************************************************************)
(* Until the stop channel is closed no connection is left open but the one *)
(* in the field, and a reader scans the one in the field: a reconnection   *)
(* replaces the field while a reader that was spawned before may not have  *)
(* read it yet (live.go, connect and the first line of readData).          *)
(***************************************************************************)
OneConnection ==
  ~stopClosed =>
    /\ \A c \in 1 .. dials : c # conn => c \in closedConns
    /\ \A k \in Dials :
         ReaderLives(k) /\ reader[k].pc # "new" => reader[k].conn = conn

(***************************************************************************)
(* isHealthy is what reconnection goes by ("Health check",                 *)
(* port/exchange.go): of an adapter that nobody stopped, and whose context *)
(* lives, it is set only while a reader lives or its go statement is the   *)
(* next step of whoever set it; and while it is clear in a running adapter *)
(* nobody reads and there is a reconnector to see it.                      *)
(***************************************************************************)
ReaderComes ==
  starter = "spawnReader" \/ \E s \in Starts : reconnector[s] = "spawn"

ReconnectorComes == starter \in {"healthy", "spawnReader", "spawnReconnector"}

HealthMatchesReader ==
  done = {} /\ stopper = "idle" /\ ~stopClosed =>
    /\ isHealthy => ReaderComes \/ \E k \in Dials : ReaderLives(k)
    /\ isRunning /\ ~isHealthy =>
         /\ \A k \in Dials : ~ReaderLives(k)
         /\ ReconnectorComes \/ \E s \in Starts : ReconnectorLives(s)

(***************************************************************************)
(* Once Stop has closed the stop channel every goroutine of the adapter    *)
(* returns, the reader blocked in Scan included, and those a later Start   *)
(* or a reconnection under way still spawns.                               *)
(***************************************************************************)
GoroutinesGone ==
  /\ \A k \in Dials : ~ReaderLives(k)
  /\ \A s \in Starts : ~ReconnectorLives(s)

StopDrains == stopClosed ~> GoroutinesGone

(***************************************************************************)
(* A running adapter whose connection broke comes back: its reader reports *)
(* it, a later tick finds it unhealthy, and a new reader starts - unless   *)
(* it is stopped, was stopped before (a restarted adapter has no           *)
(* reconnector that stays), or its context ends.                           *)
(***************************************************************************)
Recovers ==
  conn \in brokenConns /\ isRunning
    ~> \/ \E k \in Dials : Reading(k) /\ Alive(reader[k].conn)
       \/ ~isRunning \/ stopClosed \/ done # {}
=============================================================================
