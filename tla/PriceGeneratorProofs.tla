------------------------ MODULE PriceGeneratorProofs ------------------------
(***************************************************************************)
(* The prices of the test generator stay within their bounds, whatever the *)
(* base price, the deviation, the random changes and the number of servers *)
(* that share the symbol.                                                  *)
(***************************************************************************)
EXTENDS PriceGenerator, TLAPS

(* Clamping brings any price into the band, which is above 0, so that the  *)
(* guard for a positive price never replaces it (generateNextPrice).       *)
LEMMA ClampInBand ==
  ASSUME NEW p \in Int
  PROVE  /\ Positive(Clamp(p)) \in Int
         /\ Lowest <= Positive(Clamp(p))
         /\ Positive(Clamp(p)) <= Highest
BY GeneratorAssumption DEF Positive, Clamp, Lowest, Highest

(* An event moves a price of the band by at most 5 % and a rounding.       *)
LEMMA ShockBounded ==
  ASSUME NEW p \in Int, Lowest <= p, p <= Highest, NEW q \in Shocks(p)
  PROVE  /\ q \in Int
         /\ 38 * Lowest - 20 <= 40 * q
         /\ 40 * q <= 42 * Highest + 20
<1>1. Lowest \in Int /\ Highest \in Int
  BY GeneratorAssumption DEF Lowest, Highest
<1>2. /\ q \in Int
      /\ 38 * p - 20 <= 40 * q
      /\ 40 * q <= 42 * p + 20
  BY DEF Shocks
<1> QED
  BY <1>1, <1>2

(* The base price itself lies in the band.                                 *)
LEMMA InitialBounded == Initial \in Prices /\ Bounded(Initial)
BY GeneratorAssumption DEF Initial, Price, Prices, Bounded, Lowest, Highest

IInv == TypeOK /\ PricesBounded

(* The servers start from the base price.                                  *)
LEMMA InitHolds == Init => IInv
BY InitialBounded DEF Init, IInv, TypeOK, PricesBounded

(* A call of generateNextPrice yields a bounded price from any current     *)
(* price: nothing is assumed of the one it starts from.                    *)
LEMMA GenerateBounded ==
  ASSUME IInv, NEW s \in Servers, Generate(s)
  PROVE  IInv'
<1>1. PICK change \in Changes :
        LET walked == current.price + change
            p == Positive(Clamp(walked))
        IN  /\ trend' \in {Reversed(walked), -Reversed(walked)}
            /\ \/ newPrice' = [newPrice EXCEPT ![s] = Price(p, FALSE)]
               \/ \E q \in Shocks(p) :
                    newPrice' = [newPrice EXCEPT ![s] = Price(q, TRUE)]
  BY DEF Generate
<1> DEFINE walked == current.price + change
           p == Positive(Clamp(walked))
           Yields(x) == Bounded(x) /\ newPrice' = [newPrice EXCEPT ![s] = x]
<1>2. walked \in Int
  BY GeneratorAssumption DEF IInv, TypeOK, Prices
<1>3. p \in Int /\ Lowest <= p /\ p <= Highest
  BY <1>2, ClampInBand
<1>4. trend' \in {1, -1}
  BY <1>1 DEF IInv, TypeOK, Reversed
<1>5. \E x \in Prices : Yields(x)
  <2>1. CASE newPrice' = [newPrice EXCEPT ![s] = Price(p, FALSE)]
    <3>1. Price(p, FALSE) \in Prices /\ Bounded(Price(p, FALSE))
      BY <1>3 DEF Price, Prices, Bounded
    <3> QED
      BY <2>1, <3>1
  <2>2. ASSUME NEW q \in Shocks(p), newPrice' = [newPrice EXCEPT ![s] = Price(q, TRUE)]
        PROVE  \E x \in Prices : Yields(x)
    <3>1. /\ q \in Int
          /\ 38 * Lowest - 20 <= 40 * q
          /\ 40 * q <= 42 * Highest + 20
      BY <1>3, ShockBounded
    <3>2. Price(q, TRUE) \in Prices /\ Bounded(Price(q, TRUE))
      BY <3>1 DEF Price, Prices, Bounded
    <3> QED
      BY <2>2, <3>2
  <2> QED
    BY <1>1, <2>1, <2>2
<1> QED
  BY <1>4, <1>5 DEF IInv, TypeOK, PricesBounded, Generate

(* Every step of a server keeps the bounds.                                *)
LEMMA NextHolds == IInv /\ [Next]_vars => IInv'
<1> SUFFICES ASSUME IInv, [Next]_vars
             PROVE  IInv'
  OBVIOUS
<1>1. ASSUME NEW s \in Servers, Generate(s)
      PROVE  IInv'
  BY <1>1, GenerateBounded
<1>2. ASSUME NEW s \in Servers, StorePrice(s)
      PROVE  IInv'
  BY <1>2 DEF IInv, TypeOK, PricesBounded, StorePrice
<1>3. ASSUME NEW s \in Servers, Broadcast(s)
      PROVE  IInv'
  BY <1>3, InitialBounded DEF IInv, TypeOK, PricesBounded, Broadcast
<1>4. ASSUME NEW s \in Servers, GeneratorExit(s)
      PROVE  IInv'
  BY <1>4 DEF IInv, TypeOK, PricesBounded, GeneratorExit
<1>5. CASE Shutdown
  BY <1>5 DEF IInv, TypeOK, PricesBounded, Shutdown
<1>6. CASE UNCHANGED vars
  BY <1>6 DEF IInv, TypeOK, PricesBounded, vars
<1> QED
  BY <1>1, <1>2, <1>3, <1>4, <1>5, <1>6 DEF Next

(***************************************************************************)
(* The type invariant of the generator: trend is always 1 or -1, and every *)
(* price is a whole number (generateNextPrice).                            *)
(***************************************************************************)
THEOREM TypeCorrect == Spec => []TypeOK
<1>1. IInv => TypeOK
  BY DEF IInv
<1> QED
  BY <1>1, InitHolds, NextHolds, PTL DEF Spec

(***************************************************************************)
(* The current price and those to be broadcast are within 20 % of the base *)
(* price, and an event's 5 % never adds to another's, however the servers' *)
(* rounds overlap (generateNextPrice and generateDataForSymbol).           *)
(***************************************************************************)
THEOREM BoundsKept == Spec => []PricesBounded
<1>1. IInv => PricesBounded
  BY DEF IInv
<1> QED
  BY <1>1, InitHolds, NextHolds, PTL DEF Spec
=============================================================================
