----------------------------- MODULE LossyRelay -----------------------------
(***************************************************************************)
(* What the data path of the exchange service promises of each update an   *)
(* exchange reports, with no word on stages, channels or order: it is      *)
(* handed to the cache at most once, it may be given up instead, and until *)
(* the relay is stopped one of the two happens.                            *)
(***************************************************************************)
CONSTANT Item

VARIABLES offered,   \* the items that have arrived so far
          inFlight,  \* those neither delivered nor given up yet
          delivered, \* those delivered
          stopped    \* no progress is promised any more

vars == <<offered, inFlight, delivered, stopped>>

Init ==
  /\ offered = {}
  /\ inFlight = {}
  /\ delivered = {}
  /\ stopped = FALSE

(* An item arrives and is taken in, or turned away at the door.            *)
Accept(i) ==
  /\ i \notin offered
  /\ offered' = offered \cup {i}
  /\ inFlight' = inFlight \cup {i}
  /\ UNCHANGED <<delivered, stopped>>

Refuse(i) ==
  /\ i \notin offered
  /\ offered' = offered \cup {i}
  /\ UNCHANGED <<inFlight, delivered, stopped>>

Deliver(i) ==
  /\ i \in inFlight
  /\ inFlight' = inFlight \ {i}
  /\ delivered' = delivered \cup {i}
  /\ UNCHANGED <<offered, stopped>>

GiveUp(i) ==
  /\ i \in inFlight
  /\ inFlight' = inFlight \ {i}
  /\ UNCHANGED <<offered, delivered, stopped>>

Stop ==
  /\ ~stopped
  /\ stopped' = TRUE
  /\ UNCHANGED <<offered, inFlight, delivered>>

Next ==
  \/ \E i \in Item : Accept(i) \/ Refuse(i) \/ Deliver(i) \/ GiveUp(i)
  \/ Stop

Spec == Init /\ [][Next]_vars

Settle(i) == ~stopped /\ (Deliver(i) \/ GiveUp(i))

FairSpec == Spec /\ \A i \in Item : WF_vars(Settle(i))
=============================================================================
