-------------------------- MODULE TestExchangeServer --------------------------
(***************************************************************************)
(* One server of the test generator, the program that plays an exchange in *)
(* test mode: the goroutine that accepts connections, one that waits for   *)
(* the end of each, and one per symbol that broadcasts prices.  They share *)
(* the map of clients, under an RWMutex.                                   *)
(*                                                                         *)
(* A section under the write lock blocks nowhere and is one step, so the   *)
(* mutex is the set of its readers.  What is sent is left out.             *)
(***************************************************************************)

CONSTANTS
  Conns,       \* the connections that may be made, each once
  Broadcasters \* the goroutines of generateDataForSymbol, one per symbol

VARIABLES
  peer,     \* peer[c]: the other end, "absent" before it connects
  closed,   \* the connections this end closed
  clients,  \* the map of registered connections
  readers,  \* who holds clientsMux for reading
  acceptor, \* the goroutine of acceptConnections and the connection it has
  handler,  \* handler[c]: the next step of handleClient for c
  cast,     \* cast[b]: the BroadcastData of b
  cancelled \* Shutdown has cancelled the context all servers inherit

connVars == <<peer, closed>>
lockVars == <<clients, readers>>
vars == <<connVars, lockVars, acceptor, handler, cast, cancelled>>
-----------------------------------------------------------------------------
(* generateDataForSymbol between two calls of BroadcastData: waiting for   *)
(* its ticker, making a price, or returned because the context is done.    *)
NoCast == [pc |-> "idle"]
Listening == [pc |-> "accept"]

Init ==
  /\ peer = [c \in Conns |-> "absent"]
  /\ closed = {}
  /\ clients = {}
  /\ readers = {}
  /\ acceptor = Listening
  /\ handler = [c \in Conns |-> "none"]
  /\ cast = [b \in Broadcasters |-> NoCast]
  /\ cancelled = FALSE

(* clientsMux.Lock() succeeds.                                             *)
WriteLock == readers = {}
-----------------------------------------------------------------------------
(* acceptConnections                                                       *)

\* mistake: an error of Accept is ignored.
AcceptIgnoringError(c) ==
  /\ acceptor = Listening
  /\ peer[c] = "absent"
  /\ acceptor' = [pc |-> "add", conn |-> "nil"]
  /\ UNCHANGED <<connVars, lockVars, handler, cast, cancelled>>

(* A round of its loop that ends in a connection.  Rounds in which nobody  *)
(* connects for a second, or the listener is closed, change nothing.       *)
Accept(c) ==
  /\ acceptor = Listening
  /\ peer[c] = "absent"
  /\ peer' = [peer EXCEPT ![c] = "up"]
  /\ acceptor' = [pc |-> "add", conn |-> c]
  /\ UNCHANGED <<closed, lockVars, handler, cast, cancelled>>

(* A round that finds the context done.                                    *)
AcceptorExit ==
  /\ acceptor = Listening
  /\ cancelled
  /\ acceptor' = [pc |-> "exited"]
  /\ UNCHANGED <<connVars, lockVars, handler, cast, cancelled>>

AddClient ==
  /\ acceptor.pc = "add"
  /\ WriteLock
  /\ clients' = clients \cup {acceptor.conn}
  /\ acceptor' = [acceptor EXCEPT !.pc = "spawn"]
  /\ UNCHANGED <<connVars, readers, handler, cast, cancelled>>

SpawnHandler ==
  /\ acceptor.pc = "spawn"
  /\ handler' = [handler EXCEPT ![acceptor.conn] = "read"]
  /\ acceptor' = Listening
  /\ UNCHANGED <<connVars, lockVars, cast, cancelled>>
-----------------------------------------------------------------------------
(* handleClient                                                            *)

HandlerGoto(c, label) == handler' = [handler EXCEPT ![c] = label]

(* A round of its loop that ends it: the context is done, or Read fails    *)
(* because the peer is gone, the connection was closed at this end, or the *)
(* peer sent nothing for 30 s.  Rounds that read something change nothing. *)
HandlerReturns(c) ==
  /\ handler[c] = "read"
  /\ HandlerGoto(c, "close")
  /\ UNCHANGED <<connVars, lockVars, acceptor, cast, cancelled>>

HandlerClose(c) ==
  /\ handler[c] = "close"
  /\ closed' = closed \cup {c}
  /\ HandlerGoto(c, "delete")
  /\ UNCHANGED <<peer, lockVars, acceptor, cast, cancelled>>

\* mistake: the map is changed without the lock.
HandlerDeleteUnlocked(c) ==
  /\ handler[c] = "delete"
  /\ clients' = clients \ {c}
  /\ HandlerGoto(c, "exited")
  /\ UNCHANGED <<connVars, readers, acceptor, cast, cancelled>>

\* mistake: only the broadcast removes clients.
HandlerKeepsClient(c) ==
  /\ handler[c] = "delete"
  /\ HandlerGoto(c, "exited")
  /\ UNCHANGED <<connVars, lockVars, acceptor, cast, cancelled>>

HandlerDelete(c) ==
  /\ handler[c] = "delete"
  /\ WriteLock
  /\ clients' = clients \ {c}
  /\ HandlerGoto(c, "exited")
  /\ UNCHANGED <<connVars, readers, acceptor, cast, cancelled>>
-----------------------------------------------------------------------------
(* BroadcastData.  With no clients it returns at once.                     *)

BeginBroadcast(b) ==
  /\ cast[b] = NoCast
  /\ clients # {}
  /\ readers' = readers \cup {b}
  /\ cast' = [cast EXCEPT ![b] = [pc |-> "write", todo |-> clients, failed |-> {}]]
  /\ UNCHANGED <<connVars, clients, acceptor, handler, cancelled>>

(* A write may succeed though the peer is gone, and fails on a closed      *)
(* connection, on a dead one, and when it takes longer than 5 s.           *)
WriteTo(b, c) ==
  /\ cast[b].pc = "write"
  /\ c \in cast[b].todo
  /\ \/ /\ c \notin closed
        /\ cast' = [cast EXCEPT ![b].todo = @ \ {c}]
     \/ cast' = [cast EXCEPT ![b].todo = @ \ {c}, ![b].failed = @ \cup {c}]
  /\ UNCHANGED <<connVars, lockVars, acceptor, handler, cancelled>>

(* The read lock goes, for good or to take the write lock.                 *)
\* mistake: it is kept when the write lock is to be taken.
EndWritesLocked(b) ==
  /\ cast[b].pc = "write"
  /\ cast[b].todo = {}
  /\ IF cast[b].failed = {}
     THEN cast' = [cast EXCEPT ![b] = NoCast] /\ readers' = readers \ {b}
     ELSE cast' = [cast EXCEPT ![b].pc = "remove"] /\ UNCHANGED readers
  /\ UNCHANGED <<connVars, clients, acceptor, handler, cancelled>>

EndWrites(b) ==
  /\ cast[b].pc = "write"
  /\ cast[b].todo = {}
  /\ readers' = readers \ {b}
  /\ cast' = [cast EXCEPT ![b] = IF @.failed = {} THEN NoCast
                                 ELSE [@ EXCEPT !.pc = "remove"]]
  /\ UNCHANGED <<connVars, clients, acceptor, handler, cancelled>>

(* The write lock is taken, and given up for a read lock that the deferred *)
(* RUnlock gives up at once.                                               *)
\* mistake: the connections are not removed from the map.
CloseFailed(b) ==
  /\ cast[b].pc = "remove"
  /\ WriteLock
  /\ closed' = closed \cup cast[b].failed
  /\ cast' = [cast EXCEPT ![b] = NoCast]
  /\ UNCHANGED <<peer, lockVars, acceptor, handler, cancelled>>

RemoveFailed(b) ==
  /\ cast[b].pc = "remove"
  /\ WriteLock
  /\ clients' = clients \ cast[b].failed
  /\ closed' = closed \cup cast[b].failed
  /\ cast' = [cast EXCEPT ![b] = NoCast]
  /\ UNCHANGED <<peer, readers, acceptor, handler, cancelled>>
-----------------------------------------------------------------------------
(* The peer disconnects.                                                   *)
PeerLeaves(c) ==
  /\ peer[c] = "up"
  /\ peer' = [peer EXCEPT ![c] = "down"]
  /\ UNCHANGED <<closed, lockVars, acceptor, handler, cast, cancelled>>

(* Shutdown's cancel.  That it closes the listeners only ends more rounds  *)
(* of the acceptor without a connection.                                   *)
Shutdown ==
  /\ ~cancelled
  /\ cancelled' = TRUE
  /\ UNCHANGED <<connVars, lockVars, acceptor, handler, cast>>

AcceptorStep == AcceptorExit \/ AddClient \/ SpawnHandler

HandlerStep(c) == HandlerReturns(c) \/ HandlerClose(c) \/ HandlerDelete(c)

CastStep(b) ==
  EndWrites(b) \/ RemoveFailed(b) \/ \E c \in Conns : WriteTo(b, c)

Next ==
  \/ AcceptorStep
  \/ \E c \in Conns : Accept(c) \/ HandlerStep(c) \/ PeerLeaves(c)
  \/ \E b \in Broadcasters : BeginBroadcast(b) \/ CastStep(b)
  \/ Shutdown

Spec == Init /\ [][Next]_vars

(***************************************************************************)
(* Fairness: the Go scheduler runs every goroutine that can go on, reads   *)
(* and writes have deadlines, and an RWMutex lets no new reader in before  *)
(* a waiting writer, so a writer is served in the end.  A handler whose    *)
(* peer is there is not assumed to return, nor anybody to connect.         *)
(***************************************************************************)
HandlerMust(c) ==
  \/ HandlerReturns(c) /\ (peer[c] # "up" \/ c \in closed \/ cancelled)
  \/ HandlerClose(c)
  \/ HandlerDelete(c)

Fairness ==
  /\ SF_vars(AcceptorStep)
  /\ \A c \in Conns : SF_vars(HandlerMust(c))
  /\ \A b \in Broadcasters : SF_vars(CastStep(b))

FairSpec == Spec /\ Fairness
-----------------------------------------------------------------------------
(* Type invariant.                                                         *)
TypeOK ==
  /\ peer \in [Conns -> {"absent", "up", "down"}]
  /\ closed \in SUBSET Conns
  /\ clients \in SUBSET Conns
  /\ readers \in SUBSET Broadcasters
  /\ acceptor \in [pc : {"accept", "exited"}]
                    \cup [pc : {"add", "spawn"}, conn : Conns]
  /\ handler \in [Conns -> {"none", "read", "close", "delete", "exited"}]
  /\ cast \in [Broadcasters ->
                 {NoCast} \cup [pc : {"write", "remove"}, todo : SUBSET Conns,
                                failed : SUBSET Conns]]
  /\ cancelled \in BOOLEAN

(* A step that writes the map.  In Go an insertion or a deletion is a      *)
(* write even if the map stays as it is: a handler or a broadcast may find *)
(* that the connection it deletes was deleted by the other before.         *)
WritesMap ==
  \/ clients' # clients
  \/ \E c \in Conns : handler[c] = "delete" /\ handler'[c] # "delete"
  \/ \E b \in Broadcasters : cast[b].pc = "remove" /\ cast'[b].pc # "remove"

(***************************************************************************)
(* While a broadcast ranges over the map of clients nobody else writes it, *)
(* which in Go would end the program: not the acceptor that adds, nor a    *)
(* handler or another broadcast that deletes (BroadcastData,               *)
(* acceptConnections and handleClient).                                    *)
(***************************************************************************)
IterationStable ==
  [][(\E b \in Broadcasters : cast[b].pc = "write") => ~WritesMap]_vars

(***************************************************************************)
(* Both the handler and a broadcast close and remove connections, each     *)
(* possibly before the other: one that was closed leaves the map at once   *)
(* or when its handler gets to it, and never comes back ("Remove           *)
(* disconnected clients", BroadcastData).                                  *)
(***************************************************************************)
ClosedIsLeaving ==
  \A c \in closed \cap clients : handler[c] = "delete"

(* Whoever disconnects, or was closed, is forgotten.                       *)
GoneIsForgotten ==
  \A c \in Conns : c \in closed \/ peer[c] = "down" ~> c \notin clients

(***************************************************************************)
(* Every broadcast ends: several of them at a time, each giving up its     *)
(* read lock for the write lock, do not wait for one another for ever      *)
(* (BroadcastData, "outside the read lock").                               *)
(***************************************************************************)
BroadcastsEnd == \A b \in Broadcasters : cast[b] # NoCast ~> cast[b] = NoCast
=============================================================================
