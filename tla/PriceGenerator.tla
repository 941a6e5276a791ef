---------------------------- MODULE PriceGenerator ----------------------------
(***************************************************************************)
(* The prices of one symbol in the test generator.  The symbol's data are  *)
(* shared by one goroutine per server (generateDataForSymbol).  A round of *)
(* such a goroutine makes the next price from the current one, under the   *)
(* symbol's lock, stores it as the current one, under the lock again, and  *)
(* broadcasts it; other servers come in between.  The broadcast itself is  *)
(* in TestExchangeServer.                                                  *)
(*                                                                         *)
(* Prices are whole numbers of the last decimal that roundPrice keeps for  *)
(* the symbol, so a rounded value is an integer.                           *)
(***************************************************************************)
EXTENDS Integers

CONSTANTS
  Servers,
  Base,      \* SymbolData.BasePrice
  Deviation, \* maxDeviation, 20 % of it
  Changes    \* the random changes of a price; any are possible in the code,
             \* where they are normally distributed

ASSUME GeneratorAssumption ==
  /\ Base \in Nat
  /\ Deviation \in Nat
  /\ Deviation < Base
  /\ Changes \subseteq Int

VARIABLES
  current,   \* SymbolData.CurrentPrice
  trend,     \* SymbolData.Trend
  pc,        \* pc[s]: the next step of the goroutine of server s
  newPrice,  \* newPrice[s]: the price of its round, stored and broadcast
  cancelled  \* g.ctx is done

vars == <<current, trend, pc, newPrice, cancelled>>
-----------------------------------------------------------------------------
Highest == Base + Deviation
Lowest  == Base - Deviation

(* A price, and whether a rare event made it.                              *)
Price(p, shock) == [price |-> p, shock |-> shock]
Initial == Price(Base, FALSE)

Init ==
  /\ current = Initial
  /\ trend = 1
  /\ pc = [s \in Servers |-> "wait"]
  /\ newPrice = [s \in Servers |-> Initial]
  /\ cancelled = FALSE
-----------------------------------------------------------------------------
(* generateNextPrice                                                       *)

(* "Keep price within reasonable bounds", and the trend after that.        *)
\* mistake: the bounds are taken from the current price.
ClampToCurrent(p) ==
  IF p > current.price + Deviation THEN current.price + Deviation
  ELSE IF p < current.price - Deviation THEN current.price - Deviation ELSE p
Clamp(p) == IF p > Highest THEN Highest ELSE IF p < Lowest THEN Lowest ELSE p

\* mistake: the trend is moved and not set.
ReversedByOne(p) ==
  IF p > Highest THEN trend - 1 ELSE IF p < Lowest THEN trend + 1 ELSE trend
Reversed(p) == IF p > Highest THEN -1 ELSE IF p < Lowest THEN 1 ELSE trend

(* "Ensure positive price": 1 % of the base price, rounded.                *)
Positive(p) == IF p <= 0 THEN (Base + 50) \div 100 ELSE p

(* The event's multiplier lies between 0.95 and 1.05 and the product is    *)
(* rounded again, by at most half a unit: 40 q is within 2 p + 20 of 40 p. *)
Shocks(p) == {q \in (19 * p) \div 20 .. (21 * p) \div 20 + 1 :
                38 * p - 20 <= 40 * q /\ 40 * q <= 42 * p + 20}

(* One call: a random change, clamped and rounded; a 5 % chance that the   *)
(* trend turns; a 0.1 % chance of an event.                                *)
Generate(s) ==
  /\ pc[s] = "wait"
  /\ pc' = [pc EXCEPT ![s] = "store"]
  /\ \E change \in Changes :
       LET walked == current.price + change
           p == Positive(Clamp(walked))
       IN  /\ trend' \in {Reversed(walked), -Reversed(walked)}
           /\ \/ newPrice' = [newPrice EXCEPT ![s] = Price(p, FALSE)]
              \/ \E q \in Shocks(p) :
                   newPrice' = [newPrice EXCEPT ![s] = Price(q, TRUE)]
  /\ UNCHANGED <<current, cancelled>>
-----------------------------------------------------------------------------
(* generateDataForSymbol                                                   *)

StorePrice(s) ==
  /\ pc[s] = "store"
  /\ pc' = [pc EXCEPT ![s] = "broadcast"]
  /\ current' = newPrice[s]
  /\ UNCHANGED <<trend, newPrice, cancelled>>

Broadcast(s) ==
  /\ pc[s] = "broadcast"
  /\ pc' = [pc EXCEPT ![s] = "wait"]
  /\ newPrice' = [newPrice EXCEPT ![s] = Initial]
  /\ UNCHANGED <<current, trend, cancelled>>

\* mistake: break leaves the select and not the loop.
BreakSelect(s) ==
  /\ pc[s] = "wait"
  /\ cancelled
  /\ UNCHANGED vars

GeneratorExit(s) ==
  /\ pc[s] = "wait"
  /\ cancelled
  /\ pc' = [pc EXCEPT ![s] = "exited"]
  /\ UNCHANGED <<current, trend, newPrice, cancelled>>

(* The first thing Shutdown does.                                          *)
Shutdown ==
  /\ ~cancelled
  /\ cancelled' = TRUE
  /\ UNCHANGED <<current, trend, pc, newPrice>>

Next ==
  \/ \E s \in Servers : \/ Generate(s)
                        \/ StorePrice(s)
                        \/ Broadcast(s)
                        \/ GeneratorExit(s)
  \/ Shutdown

Spec == Init /\ [][Next]_vars

(***************************************************************************)
(* Fairness: a goroutine of the generator goes on, since the lock is never *)
(* held while waiting and a broadcast ends (TestExchangeServer).  With the *)
(* context done and the ticker firing, select takes either, and cannot     *)
(* take the ticker for ever.                                               *)
(***************************************************************************)
Fairness ==
  \A s \in Servers : /\ WF_vars(StorePrice(s) \/ Broadcast(s))
                     /\ SF_vars(GeneratorExit(s))

FairSpec == Spec /\ Fairness
-----------------------------------------------------------------------------
Prices == [price : Int, shock : BOOLEAN]

(* Type invariant.                                                         *)
TypeOK ==
  /\ current \in Prices
  /\ trend \in {1, -1}
  /\ pc \in [Servers -> {"wait", "store", "broadcast", "exited"}]
  /\ newPrice \in [Servers -> Prices]
  /\ cancelled \in BOOLEAN

(***************************************************************************)
(* Prices do not drift: whichever servers' rounds overlap, and whatever    *)
(* step of another is lost when a server stores its own, the current price *)
(* and those to be broadcast are within 20 % of the base price ("Keep price *)
(* within reasonable bounds", generateNextPrice), but for events, which    *)
(* add 5 % and a rounding to that once and never to one another.           *)
(***************************************************************************)
Bounded(p) ==
  \/ Lowest <= p.price /\ p.price <= Highest
  \/ /\ p.shock
     /\ 38 * Lowest - 20 <= 40 * p.price
     /\ 40 * p.price <= 42 * Highest + 20

PricesBounded ==
  /\ Bounded(current)
  /\ \A s \in Servers : Bounded(newPrice[s])

(* After Shutdown every goroutine of the generator returns.                *)
GeneratorsEnd == cancelled ~> \A s \in Servers : pc[s] = "exited"
=============================================================================
