----------------------- MODULE TestExchangeServerProofs -----------------------
(***************************************************************************)
(* The map of clients of a test exchange, for any number of connections    *)
(* and of goroutines that broadcast.                                       *)
(***************************************************************************)
EXTENDS TestExchangeServer, TLAPS

Broadcast == [pc : {"write", "remove"}, todo : SUBSET Conns, failed : SUBSET Conns]

(* A broadcast that has begun is one of the two kinds of record.           *)
LEMMA CastType ==
  ASSUME TypeOK, NEW b \in Broadcasters
  PROVE  /\ cast[b] = NoCast \/ cast[b] \in Broadcast
         /\ cast[b].pc \in {"write", "remove"} => cast[b] \in Broadcast
BY DEF TypeOK, NoCast, Broadcast

(* No step breaks a type.                                                  *)
LEMMA TypeStep == TypeOK /\ [Next]_vars => TypeOK'
<1> SUFFICES ASSUME TypeOK, [Next]_vars PROVE TypeOK'
  OBVIOUS
<1> USE DEF connVars, lockVars
<1>1. CASE AcceptorStep
  <2>1. acceptor.pc \in {"add", "spawn"} => acceptor.conn \in Conns
    BY DEF TypeOK
  <2>2. CASE AcceptorExit
    BY <2>2 DEF AcceptorExit, TypeOK
  <2>3. CASE AddClient
    BY <2>1, <2>3 DEF AddClient, TypeOK
  <2>4. CASE SpawnHandler
    BY <2>1, <2>4 DEF SpawnHandler, TypeOK, Listening
  <2> QED
    BY <1>1, <2>2, <2>3, <2>4 DEF AcceptorStep
<1>2. ASSUME NEW c \in Conns, Accept(c) \/ HandlerStep(c) \/ PeerLeaves(c)
      PROVE  TypeOK'
  BY <1>2 DEF Accept, HandlerStep, HandlerReturns, HandlerClose, HandlerDelete,
              HandlerGoto, PeerLeaves, TypeOK
<1>3. ASSUME NEW b \in Broadcasters, BeginBroadcast(b) PROVE TypeOK'
  BY <1>3 DEF BeginBroadcast, TypeOK
<1>4. ASSUME NEW b \in Broadcasters, NEW c \in Conns, WriteTo(b, c) PROVE TypeOK'
  <2>1. cast[b] \in Broadcast
    BY <1>4, CastType DEF WriteTo
  <2>2. \E x \in Broadcast : cast' = [cast EXCEPT ![b] = x]
    <3>1. CASE cast' = [cast EXCEPT ![b].todo = @ \ {c}]
      <4>1. [cast[b] EXCEPT !.todo = @ \ {c}] \in Broadcast
        BY <2>1 DEF Broadcast
      <4>2. cast' = [cast EXCEPT ![b] = [cast[b] EXCEPT !.todo = @ \ {c}]]
        BY <3>1
      <4> QED
        BY <4>1, <4>2
    <3>2. CASE cast' = [cast EXCEPT ![b].todo = @ \ {c}, ![b].failed = @ \cup {c}]
      <4>1. [cast[b] EXCEPT !.todo = @ \ {c}, !.failed = @ \cup {c}] \in Broadcast
        BY <2>1 DEF Broadcast
      <4>2. cast' = [cast EXCEPT ![b] =
                       [cast[b] EXCEPT !.todo = @ \ {c}, !.failed = @ \cup {c}]]
        BY <3>2 DEF TypeOK
      <4> QED
        BY <4>1, <4>2
    <3> QED
      BY <1>4, <3>1, <3>2 DEF WriteTo
  <2> QED
    BY <1>4, <2>2 DEF WriteTo, TypeOK, Broadcast
<1>5. ASSUME NEW b \in Broadcasters, EndWrites(b) PROVE TypeOK'
  <2>1. cast[b] \in Broadcast
    BY <1>5, CastType DEF EndWrites
  <2>2. [cast[b] EXCEPT !.pc = "remove"] \in Broadcast
    BY <2>1 DEF Broadcast
  <2> QED
    BY <1>5, <2>2 DEF EndWrites, TypeOK, Broadcast
<1>6. ASSUME NEW b \in Broadcasters, RemoveFailed(b) PROVE TypeOK'
  <2>1. cast[b] \in Broadcast
    BY <1>6, CastType DEF RemoveFailed
  <2> QED
    BY <1>6, <2>1 DEF RemoveFailed, TypeOK, Broadcast
<1>7. CASE Shutdown
  BY <1>7 DEF Shutdown, TypeOK
<1>8. CASE UNCHANGED vars
  BY <1>8 DEF vars, TypeOK
<1> QED
  BY <1>1, <1>2, <1>3, <1>4, <1>5, <1>6, <1>7, <1>8 DEF Next, CastStep
-----------------------------------------------------------------------------
(***************************************************************************)
(* A broadcast that ranges over the map holds the read lock, and a         *)
(* connection that is not yet in the map was touched by nobody.            *)
(***************************************************************************)
Writing(b) == cast[b].pc = "write"
Casting(b) == cast[b].pc \in {"write", "remove"}

RangesUnderLock == \A b \in Broadcasters : Writing(b) => b \in readers

Untouched(c) ==
  /\ c \notin closed
  /\ c \notin clients
  /\ handler[c] = "none"
  /\ \A b \in Broadcasters : Casting(b) => c \notin cast[b].todo \cup cast[b].failed

NewIsUntouched ==
  /\ \A c \in Conns : peer[c] = "absent" => Untouched(c)
  /\ acceptor.pc = "add" => Untouched(acceptor.conn)
  /\ acceptor.pc \in {"add", "spawn"} =>
       handler[acceptor.conn] = "none" /\ peer[acceptor.conn] # "absent"

ClientInv == TypeOK /\ RangesUnderLock /\ NewIsUntouched /\ ClosedIsLeaving

(* A write takes a connection from those to do, and may count it failed.   *)
LEMMA WriteToDoes ==
  ASSUME TypeOK, NEW b \in Broadcasters, NEW c \in Conns, WriteTo(b, c)
  PROVE  /\ \A d \in Broadcasters : d # b => cast'[d] = cast[d]
         /\ cast[b].pc = "write" /\ cast'[b].pc = "write"
         /\ cast'[b].todo \cup cast'[b].failed \subseteq cast[b].todo \cup cast[b].failed
<1>1. cast[b] \in Broadcast /\ c \in cast[b].todo
  BY CastType DEF WriteTo
<1>2. CASE cast' = [cast EXCEPT ![b].todo = @ \ {c}]
  BY <1>1, <1>2 DEF WriteTo, TypeOK, Broadcast
<1>3. CASE cast' = [cast EXCEPT ![b].todo = @ \ {c}, ![b].failed = @ \cup {c}]
  BY <1>1, <1>3 DEF WriteTo, TypeOK, Broadcast
<1> QED
  BY <1>2, <1>3 DEF WriteTo

(* A broadcast that ends its writes, for good or to remove.                *)
LEMMA EndWritesDoes ==
  ASSUME TypeOK, NEW b \in Broadcasters, EndWrites(b)
  PROVE  /\ \A d \in Broadcasters : d # b => cast'[d] = cast[d]
         /\ cast'[b].pc # "write"
         /\ cast'[b].pc = "remove" =>
              cast'[b].todo = cast[b].todo /\ cast'[b].failed = cast[b].failed
<1>1. cast[b] \in Broadcast
  BY CastType DEF EndWrites
<1>2. cast' = [cast EXCEPT ![b] = IF cast[b].failed = {} THEN NoCast
                                  ELSE [cast[b] EXCEPT !.pc = "remove"]]
  BY DEF EndWrites
<1>3. CASE cast[b].failed = {}
  BY <1>2, <1>3 DEF TypeOK, NoCast
<1>4. CASE cast[b].failed # {}
  BY <1>1, <1>2, <1>4 DEF TypeOK, Broadcast
<1> QED
  BY <1>3, <1>4

(* Who takes the write lock finds nobody ranging over the map.             *)
LEMMA NobodyWriting ==
  ASSUME ClientInv, WriteLock
  PROVE  \A b \in Broadcasters : ~Writing(b)
BY DEF ClientInv, RangesUnderLock, WriteLock

(* Each action keeps the map as the goroutines believe it to be.           *)
LEMMA ClientStep == ClientInv /\ [Next]_vars => ClientInv'
<1> SUFFICES ASSUME ClientInv, [Next]_vars
             PROVE  RangesUnderLock' /\ NewIsUntouched' /\ ClosedIsLeaving'
  BY TypeStep DEF ClientInv
<1> TypeOK
  BY DEF ClientInv
<1> USE DEF connVars, lockVars
(* A handler's step, whose connection is not new.                          *)
<1>a. ASSUME NEW c \in Conns, handler[c] # "none",
             UNCHANGED <<peer, readers, acceptor, cast>>,
             \A d \in Conns : d # c => handler'[d] = handler[d],
             closed' \subseteq closed \cup {c}, clients' \subseteq clients,
             clients' = clients \/ \A b \in Broadcasters : ~Writing(b),
             c \in closed' \cap clients' => handler'[c] = "delete"
      PROVE  RangesUnderLock' /\ NewIsUntouched' /\ ClosedIsLeaving'
  <2>1. RangesUnderLock'
    BY <1>a DEF ClientInv, RangesUnderLock, Writing
  <2>2. \A d \in Conns : Untouched(d) => Untouched(d)'
    BY <1>a DEF Untouched, Casting
  <2>3. acceptor.pc \in {"add", "spawn"} => acceptor.conn \in Conns /\ acceptor.conn # c
    BY <1>a DEF ClientInv, NewIsUntouched, TypeOK, Listening
  <2>4. NewIsUntouched'
    BY <1>a, <2>2, <2>3 DEF ClientInv, NewIsUntouched, Untouched, Casting
  <2>5. ClosedIsLeaving'
    BY <1>a DEF ClientInv, ClosedIsLeaving, TypeOK
  <2> QED
    BY <2>1, <2>4, <2>5
<1>1. ASSUME NEW c \in Conns, Accept(c)
      PROVE  RangesUnderLock' /\ NewIsUntouched' /\ ClosedIsLeaving'
  <2>1. /\ peer[c] = "absent" /\ peer' = [peer EXCEPT ![c] = "up"]
        /\ acceptor'.pc = "add" /\ acceptor'.conn = c
        /\ UNCHANGED <<closed, clients, readers, handler, cast>>
    BY <1>1 DEF Accept
  <2>2. \A d \in Conns : Untouched(d) => Untouched(d)'
    BY <2>1 DEF Untouched, Casting
  <2>3. NewIsUntouched'
    BY <2>1, <2>2 DEF ClientInv, NewIsUntouched, Untouched, TypeOK
  <2> QED
    BY <2>1, <2>3 DEF ClientInv, RangesUnderLock, Writing, ClosedIsLeaving
<1>2. CASE AcceptorExit
  BY <1>2 DEF AcceptorExit, ClientInv, RangesUnderLock, Writing, NewIsUntouched, Untouched,
              Casting, ClosedIsLeaving
<1>3. CASE AddClient
  <2> DEFINE c == acceptor.conn
  <2>1. /\ c \in Conns /\ Untouched(c)
        /\ handler[c] = "none" /\ peer[c] # "absent"
        /\ clients' = clients \cup {c}
        /\ acceptor'.pc = "spawn" /\ acceptor'.conn = c
        /\ UNCHANGED <<peer, closed, readers, handler, cast>>
    BY <1>3 DEF AddClient, TypeOK, ClientInv, NewIsUntouched, Listening
  <2> HIDE DEF c
  <2>2. RangesUnderLock'
    BY <2>1 DEF ClientInv, RangesUnderLock, Writing
  <2>3. NewIsUntouched'
    BY <2>1 DEF ClientInv, NewIsUntouched, Untouched, Casting
  <2>4. ClosedIsLeaving'
    BY <2>1 DEF ClientInv, ClosedIsLeaving, Untouched
  <2> QED
    BY <2>2, <2>3, <2>4
<1>4. CASE SpawnHandler
  <2> DEFINE c == acceptor.conn
  <2>1. /\ c \in Conns /\ handler[c] = "none" /\ peer[c] # "absent"
        /\ handler' = [handler EXCEPT ![c] = "read"]
        /\ acceptor' = Listening
        /\ UNCHANGED <<peer, closed, clients, readers, cast>>
    BY <1>4 DEF SpawnHandler, TypeOK, ClientInv, NewIsUntouched, Listening
  <2> HIDE DEF c
  <2>2. NewIsUntouched'
    BY <2>1 DEF ClientInv, NewIsUntouched, Untouched, Casting, TypeOK, Listening
  <2>3. ClosedIsLeaving'
    BY <2>1 DEF ClientInv, ClosedIsLeaving, TypeOK
  <2> QED
    BY <2>1, <2>2, <2>3 DEF ClientInv, RangesUnderLock, Writing
<1>5. ASSUME NEW c \in Conns, HandlerReturns(c)
      PROVE  RangesUnderLock' /\ NewIsUntouched' /\ ClosedIsLeaving'
  <2>1. c \notin closed \cap clients
    BY <1>5 DEF HandlerReturns, ClientInv, ClosedIsLeaving
  <2> QED
    BY <1>5, <1>a, <2>1 DEF HandlerReturns, HandlerGoto, TypeOK
<1>6. ASSUME NEW c \in Conns, HandlerClose(c)
      PROVE  RangesUnderLock' /\ NewIsUntouched' /\ ClosedIsLeaving'
  BY <1>6, <1>a DEF HandlerClose, HandlerGoto, TypeOK
<1>7. ASSUME NEW c \in Conns, HandlerDelete(c)
      PROVE  RangesUnderLock' /\ NewIsUntouched' /\ ClosedIsLeaving'
  BY <1>7, <1>a, NobodyWriting DEF HandlerDelete, HandlerGoto, TypeOK
<1>8. ASSUME NEW c \in Conns, PeerLeaves(c)
      PROVE  RangesUnderLock' /\ NewIsUntouched' /\ ClosedIsLeaving'
  <2>1. /\ peer[c] = "up" /\ peer' = [peer EXCEPT ![c] = "down"]
        /\ UNCHANGED <<closed, clients, readers, acceptor, handler, cast>>
    BY <1>8 DEF PeerLeaves
  <2>2. \A d \in Conns : Untouched(d)' <=> Untouched(d)
    BY <2>1 DEF Untouched, Casting
  <2>3. acceptor.pc \in {"add", "spawn"} => acceptor.conn \in Conns
    BY DEF TypeOK, Listening
  <2>4. NewIsUntouched'
    BY <2>1, <2>2, <2>3 DEF ClientInv, NewIsUntouched, Untouched, Casting, TypeOK
  <2> QED
    BY <2>1, <2>4 DEF ClientInv, RangesUnderLock, Writing, ClosedIsLeaving
<1>9. ASSUME NEW b \in Broadcasters, BeginBroadcast(b)
      PROVE  RangesUnderLock' /\ NewIsUntouched' /\ ClosedIsLeaving'
  <2>1. /\ \A d \in Broadcasters : d # b => cast'[d] = cast[d]
        /\ cast'[b].todo = clients /\ cast'[b].failed = {}
        /\ readers' = readers \cup {b}
        /\ UNCHANGED <<peer, closed, clients, acceptor, handler>>
    BY <1>9 DEF BeginBroadcast, TypeOK
  <2>2. RangesUnderLock'
    BY <2>1 DEF ClientInv, RangesUnderLock, Writing
  <2>3. NewIsUntouched'
    BY <2>1 DEF ClientInv, NewIsUntouched, Untouched, Casting
  <2> QED
    BY <2>1, <2>2, <2>3 DEF ClientInv, ClosedIsLeaving
<1>10. ASSUME NEW b \in Broadcasters, NEW c \in Conns, WriteTo(b, c)
       PROVE  RangesUnderLock' /\ NewIsUntouched' /\ ClosedIsLeaving'
  <2>1. /\ \A d \in Broadcasters : d # b => cast'[d] = cast[d]
        /\ cast[b].pc = "write" /\ cast'[b].pc = "write"
        /\ cast'[b].todo \cup cast'[b].failed \subseteq cast[b].todo \cup cast[b].failed
    BY <1>10, WriteToDoes
  <2>2. UNCHANGED <<peer, closed, clients, readers, acceptor, handler>>
    BY <1>10 DEF WriteTo
  <2>3. RangesUnderLock'
    BY <2>1, <2>2 DEF ClientInv, RangesUnderLock, Writing
  <2>4. NewIsUntouched'
    BY <2>1, <2>2 DEF ClientInv, NewIsUntouched, Untouched, Casting
  <2> QED
    BY <2>2, <2>3, <2>4 DEF ClientInv, ClosedIsLeaving
<1>11. ASSUME NEW b \in Broadcasters, EndWrites(b)
       PROVE  RangesUnderLock' /\ NewIsUntouched' /\ ClosedIsLeaving'
  <2>1. /\ \A d \in Broadcasters : d # b => cast'[d] = cast[d]
        /\ cast[b].pc = "write" /\ cast'[b].pc # "write"
        /\ cast'[b].pc = "remove" =>
             cast'[b].todo = cast[b].todo /\ cast'[b].failed = cast[b].failed
        /\ readers' = readers \ {b}
        /\ UNCHANGED <<peer, closed, clients, acceptor, handler>>
    BY <1>11, EndWritesDoes DEF EndWrites
  <2>2. RangesUnderLock'
    BY <2>1 DEF ClientInv, RangesUnderLock, Writing
  <2>3. NewIsUntouched'
    BY <2>1 DEF ClientInv, NewIsUntouched, Untouched, Casting
  <2> QED
    BY <2>1, <2>2, <2>3 DEF ClientInv, ClosedIsLeaving
<1>12. ASSUME NEW b \in Broadcasters, RemoveFailed(b)
       PROVE  RangesUnderLock' /\ NewIsUntouched' /\ ClosedIsLeaving'
  <2> DEFINE failed == cast[b].failed
  <2>1. /\ \A d \in Broadcasters : d # b => cast'[d] = cast[d]
        /\ cast'[b].pc = "idle" /\ cast[b].pc = "remove"
        /\ clients' = clients \ failed /\ closed' = closed \cup failed
        /\ UNCHANGED <<peer, readers, acceptor, handler>>
        /\ \A d \in Broadcasters : ~Writing(d)
    BY <1>12, NobodyWriting DEF RemoveFailed, TypeOK, NoCast
  <2>2. RangesUnderLock'
    BY <2>1 DEF RangesUnderLock, Writing
  <2>3. \A d \in Conns : Untouched(d) => Untouched(d)'
    BY <2>1 DEF Untouched, Casting
  <2>4. NewIsUntouched'
    <3>1. acceptor.pc \in {"add", "spawn"} => acceptor.conn \in Conns
      BY DEF TypeOK, Listening
    <3>2. acceptor.pc = "add" => Untouched(acceptor.conn)'
      BY <2>1, <2>3, <3>1 DEF ClientInv, NewIsUntouched
    <3> QED
      BY <2>1, <2>3, <3>2 DEF ClientInv, NewIsUntouched, Untouched
  <2>5. ClosedIsLeaving'
    BY <2>1 DEF ClientInv, ClosedIsLeaving
  <2> QED
    BY <2>2, <2>4, <2>5
<1>13. CASE Shutdown \/ UNCHANGED vars
  BY <1>13 DEF Shutdown, vars, ClientInv, RangesUnderLock, Writing, NewIsUntouched,
               Untouched, Casting, ClosedIsLeaving
<1> QED
  BY <1>1, <1>2, <1>3, <1>4, <1>5, <1>6, <1>7, <1>8, <1>9, <1>10, <1>11, <1>12, <1>13
     DEF Next, AcceptorStep, HandlerStep, CastStep

(* At the start there is no connection.                                    *)
LEMMA ClientInit == Init => ClientInv
<1> SUFFICES ASSUME Init PROVE ClientInv
  OBVIOUS
<1>1. TypeOK
  BY DEF Init, TypeOK, NoCast, Listening
<1>2. \A b \in Broadcasters : cast[b].pc = "idle"
  BY DEF Init, NoCast
<1>3. RangesUnderLock /\ ClosedIsLeaving
  BY <1>2 DEF Init, RangesUnderLock, Writing, ClosedIsLeaving
<1>4. NewIsUntouched
  BY <1>2 DEF Init, NewIsUntouched, Untouched, Casting, Listening
<1> QED
  BY <1>1, <1>3, <1>4 DEF ClientInv

(***************************************************************************)
(* Type correctness.                                                       *)
(***************************************************************************)
THEOREM TypeCorrect == Spec => []TypeOK
<1>1. ClientInv => TypeOK
  BY DEF ClientInv
<1> QED
  BY <1>1, ClientInit, ClientStep, PTL DEF Spec

(***************************************************************************)
(* Nobody writes the map of clients while a broadcast ranges over it.      *)
(***************************************************************************)
THEOREM MapStable == Spec => IterationStable
<1>1. ASSUME ClientInv, [Next]_vars, NEW b \in Broadcasters, cast[b].pc = "write"
      PROVE  ~WritesMap
  <2>1. TypeOK /\ ~WriteLock
    BY <1>1, NobodyWriting DEF ClientInv, Writing
  <2>2. ASSUME UNCHANGED <<clients, handler>>,
               NEW d \in Broadcasters, cast[d].pc # "remove",
               \A x \in Broadcasters : x # d => cast'[x] = cast[x]
        PROVE  ~WritesMap
    BY <2>2 DEF WritesMap
  <2>3. ASSUME UNCHANGED <<clients, cast>>, NEW c \in Conns, handler[c] # "delete",
               \A x \in Conns : x # c => handler'[x] = handler[x]
        PROVE  ~WritesMap
    BY <2>3 DEF WritesMap
  <2>4. ASSUME UNCHANGED <<clients, handler, cast>> PROVE ~WritesMap
    BY <2>4 DEF WritesMap
  <2>5. CASE AcceptorStep
    <3>1. CASE AcceptorExit
      BY <2>4, <3>1 DEF AcceptorExit, lockVars
    <3>2. CASE AddClient
      BY <2>1, <3>2 DEF AddClient
    <3>3. CASE SpawnHandler
      <4>1. acceptor.conn \in Conns /\ handler[acceptor.conn] = "none"
        BY <1>1, <2>1, <3>3 DEF SpawnHandler, ClientInv, NewIsUntouched, TypeOK, Listening
      <4>2. /\ UNCHANGED <<clients, cast>>
            /\ \A x \in Conns : x # acceptor.conn => handler'[x] = handler[x]
        BY <2>1, <3>3 DEF SpawnHandler, lockVars, TypeOK
      <4> QED
        BY <2>3, <4>1, <4>2
    <3> QED
      BY <2>5, <3>1, <3>2, <3>3 DEF AcceptorStep
  <2>6. ASSUME NEW c \in Conns, Accept(c) \/ HandlerStep(c) \/ PeerLeaves(c)
        PROVE  ~WritesMap
    <3>1. CASE Accept(c) \/ PeerLeaves(c)
      BY <2>4, <3>1 DEF Accept, PeerLeaves, lockVars
    <3>2. CASE HandlerReturns(c) \/ HandlerClose(c)
      BY <2>1, <2>3, <3>2 DEF HandlerReturns, HandlerClose, HandlerGoto, lockVars, TypeOK
    <3>3. CASE HandlerDelete(c)
      BY <2>1, <3>3 DEF HandlerDelete
    <3> QED
      BY <2>6, <3>1, <3>2, <3>3 DEF HandlerStep
  <2>7. ASSUME NEW d \in Broadcasters, BeginBroadcast(d)
        PROVE  ~WritesMap
    <3>1. cast[d].pc # "remove"
      BY <2>7 DEF BeginBroadcast, NoCast
    <3> QED
      BY <2>1, <2>2, <2>7, <3>1 DEF BeginBroadcast, TypeOK
  <2>8. ASSUME NEW d \in Broadcasters, CastStep(d)
        PROVE  ~WritesMap
    <3>1. CASE EndWrites(d)
      BY <2>1, <2>2, <3>1, EndWritesDoes DEF EndWrites
    <3>2. CASE RemoveFailed(d)
      BY <2>1, <3>2 DEF RemoveFailed
    <3>3. ASSUME NEW c \in Conns, WriteTo(d, c)
          PROVE  ~WritesMap
      BY <2>1, <2>2, <3>3, WriteToDoes DEF WriteTo, lockVars
    <3> QED
      BY <2>8, <3>1, <3>2, <3>3 DEF CastStep
  <2>9. CASE Shutdown \/ UNCHANGED vars
    BY <2>4, <2>9 DEF Shutdown, vars, lockVars
  <2> QED
    BY <1>1, <2>5, <2>6, <2>7, <2>8, <2>9 DEF Next
<1>2. ClientInv /\ [Next]_vars =>
        [(\E b \in Broadcasters : cast[b].pc = "write") => ~WritesMap]_vars
  BY <1>1
<1> QED
  BY <1>2, ClientInit, ClientStep, PTL DEF Spec, IterationStable

(***************************************************************************)
(* A connection that was closed leaves the map and never comes back.       *)
(***************************************************************************)
THEOREM ClosedLeave == Spec => []ClosedIsLeaving
<1>1. ClientInv => ClosedIsLeaving
  BY DEF ClientInv
<1> QED
  BY <1>1, ClientInit, ClientStep, PTL DEF Spec
=============================================================================
