-------------------------- MODULE LatestPriceProofs --------------------------
(***************************************************************************)
(* The safety of LatestPrice for every set of exchanges, every retention,  *)
(* delay and cleanup period.  Three invariants are inductive on their own  *)
(* beside the types: RecentInv, KeptInv and NewestInv.                     *)
(***************************************************************************)
EXTENDS LatestPrice, TLAPS

Request == [pc : {"get", "200", "500", "aborted"}, began : Nat, all : BOOLEAN,
            partial : BOOLEAN, todo : SUBSET Exchanges, best : Value]

(* The whole seconds of a time are not more than the time.                 *)
LEMMA DivLemma ==
  ASSUME NEW t \in Nat
  PROVE  /\ t \div Second \in Nat
         /\ (t \div Second) * Second <= t
         /\ t \div Second <= t
BY LatestAssumption, SMT

(* Whole seconds keep the order of times.                                  *)
LEMMA DivMono ==
  ASSUME NEW t \in Nat, NEW u \in Nat, t <= u
  PROVE  t \div Second <= u \div Second
BY LatestAssumption, SMT

(* An answer is a request that has ended.                                  *)
LEMMA FinishedType ==
  ASSUME NEW r \in Request
  PROVE  Finished(r) \in Request
BY DEF Finished, Request

(* A request stays a request when it goes on or ends.                      *)
LEMMA ContinueType ==
  ASSUME NEW r \in Request, ContinueWith(r)
  PROVE  reader' \in Request
BY FinishedType DEF ContinueWith

(* Keys that change still hold updates or nothing.                         *)
LEMMA KeysType ==
  ASSUME TypeOK, NEW L \in [Exchanges -> Value], KeysBecome(L)
  PROVE  latest' \in [Exchanges -> Value] /\ held' \in [Exchanges -> SUBSET Value]
BY DEF KeysBecome, TypeOK

(* No step breaks a type.                                                  *)
LEMMA TypeStep == TypeOK /\ [Next]_vars => TypeOK'
<1> SUFFICES ASSUME TypeOK, [Next]_vars PROVE TypeOK'
  OBVIOUS
<1>0. Missing \in Value
  BY DEF Value
<1>1. CASE Tick
  <2> DEFINE L == [e \in Exchanges |->
                     IF latest[e] # Missing /\ latest[e].until <= now + 1
                     THEN Missing ELSE latest[e]]
  <2>1. L \in [Exchanges -> Value]
    BY <1>0 DEF TypeOK
  <2>2. latest' \in [Exchanges -> Value] /\ held' \in [Exchanges -> SUBSET Value]
    <3> HIDE DEF L
    <3>1. KeysBecome(L)
      BY <1>1 DEF Tick, L
    <3> QED
      BY <2>1, <3>1, KeysType
  <2> QED
    BY <1>1, <2>2 DEF Tick, TypeOK, cleanerVars
<1>2. ASSUME NEW e \in Exchanges, NEW t \in Recent, NEW ts \in Stamps(t), SetLatest(e, t, ts)
      PROVE TypeOK'
  <2>1. t \in Nat /\ ts \in Nat /\ Expiration \in Nat
    BY LatestAssumption, DivLemma DEF Recent, Stamps, Millis, Expiration, TypeOK
  <2>2. [at |-> t, ts |-> ts, until |-> Expiration] \in Value
    BY <2>1 DEF Value, Entry
  <2> DEFINE u == [at |-> t, ts |-> ts, until |-> Expiration]
  <2>3. /\ KeysBecome([latest EXCEPT ![e] = u])
        /\ lastSet' = [lastSet EXCEPT ![e] = u]
    BY <1>2 DEF SetLatest
  <2> HIDE DEF u
  <2>4. u \in Value
    BY <2>2 DEF u
  <2>5. latest' \in [Exchanges -> Value] /\ held' \in [Exchanges -> SUBSET Value]
    <3>1. [latest EXCEPT ![e] = u] \in [Exchanges -> Value]
      BY <2>4 DEF TypeOK
    <3> QED
      BY <2>3, <3>1, KeysType
  <2>6. lastSet' \in [Exchanges -> Value]
    BY <2>3, <2>4 DEF TypeOK
  <2>7. /\ writes' = writes + 1
        /\ raced' \in SUBSET Exchanges
        /\ UNCHANGED <<now, redis, cleaner, nextCleanup, reader>>
    BY <1>2 DEF SetLatest, TypeOK, cleanerVars
  <2> QED
    BY <2>5, <2>6, <2>7 DEF TypeOK
<1>3. CASE BeginCleanup
  BY <1>3, LatestAssumption DEF BeginCleanup, CleanRest, Cutoff, Stored, TypeOK, NoCleanup
<1>4. ASSUME NEW e \in Exchanges, CleanRead(e) PROVE TypeOK'
  BY <1>4 DEF CleanRead, CleanRest, TypeOK, NoCleanup
<1>5. CASE CleanDelete
  BY <1>0, <1>5 DEF CleanDelete, CleanRest, TypeOK, NoCleanup, KeysBecome
<1>6. ASSUME NEW X \in Requests, BeginRequest(X) PROVE TypeOK'
  <2> DEFINE all == Cardinality(X) # 1
             r == [pc |-> "get", began |-> now, all |-> all, partial |-> FALSE,
                   todo |-> IF all THEN Stored ELSE X, best |-> Missing]
  <2>1. r \in Request
    BY <1>0 DEF Request, Requests, Stored, TypeOK
  <2>2. reader' \in Request
    BY <1>6, <2>1, ContinueType, FinishedType DEF BeginRequest, Request
  <2> QED
    BY <1>6, <2>2 DEF BeginRequest, ReaderOnly, TypeOK, Request, cleanerVars
<1>7. ASSUME NEW e \in Exchanges, ReadLatest(e) PROVE TypeOK'
  <2>1. reader \in Request
    BY <1>7 DEF ReadLatest, TypeOK, NoRequest, Request
  <2>2. reader' \in Request
    BY <1>7, <2>1, ContinueType DEF ReadLatest, Request, TypeOK
  <2> QED
    BY <1>7, <2>2 DEF ReadLatest, ReaderOnly, TypeOK, Request, cleanerVars
<1>8. CASE EndRequest
  BY <1>8 DEF EndRequest, ReaderOnly, TypeOK, cleanerVars
<1>9. CASE UNCHANGED vars
  BY <1>9 DEF vars, TypeOK, cleanerVars
<1> QED
  BY <1>1, <1>2, <1>3, <1>4, <1>5, <1>6, <1>7, <1>8, <1>9 DEF Next

(***************************************************************************)
(* Answers are recent: a key lives no longer than Delay + Retention after  *)
(* its update was reported, and a request takes only keys that live.       *)
(***************************************************************************)
LivesUntil(u) == now < u.until /\ u.until <= u.at + Delay + Retention

KeysLive == \A e \in Exchanges : latest[e] # Missing => LivesUntil(latest[e])

RequestRecent(r) ==
  /\ r.began <= now
  /\ r.best # Missing => r.began < r.best.at + Delay + Retention
  /\ r.pc = "200" => r.best # Missing

BestRecent == reader # NoRequest => RequestRecent(reader)

RecentInv == TypeOK /\ KeysLive /\ BestRecent

(* No key is set at the start.                                             *)
LEMMA RecentInit == Init => RecentInv
BY LatestAssumption DEF Init, RecentInv, TypeOK, KeysLive, BestRecent, Value, NoCleanup

(* An answer is as recent as the best that was kept.                       *)
LEMMA ContinueRecent ==
  ASSUME NEW r \in Request, RequestRecent(r), r.pc = "get", ContinueWith(r), now' = now
  PROVE  BestRecent'
<1>1. RequestRecent(Finished(r))
  BY DEF RequestRecent, Finished, Request
<1>2. RequestRecent(reader')
  BY <1>1 DEF ContinueWith
<1> QED
  BY <1>2 DEF BestRecent, RequestRecent

(* Each action keeps the keys and the request recent.                      *)
LEMMA RecentStep == RecentInv /\ [Next]_vars => RecentInv'
<1> SUFFICES ASSUME RecentInv, [Next]_vars PROVE RecentInv'
  OBVIOUS
<1> TypeOK /\ TypeOK'
  BY TypeStep DEF RecentInv
<1>0. \A u \in Value : u # Missing => u \in Entry
  BY DEF Value
<1>1. CASE Tick
  <2>1. now' = now + 1 /\ reader' = reader
    BY <1>1 DEF Tick
  <2>2. ASSUME NEW e \in Exchanges, latest'[e] # Missing
        PROVE  latest[e] # Missing /\ latest'[e] = latest[e] /\ now + 1 < latest[e].until
    <3>1. /\ latest[e] # Missing
          /\ latest'[e] = latest[e]
          /\ ~(latest[e].until <= now + 1)
      BY <1>1, <2>2 DEF Tick, KeysBecome
    <3>2. latest[e].until \in Nat
      BY <1>0, <3>1 DEF TypeOK, Entry
    <3> QED
      BY <3>1, <3>2 DEF TypeOK
  <2>3. KeysLive'
    BY <2>1, <2>2 DEF KeysLive, LivesUntil, RecentInv
  <2>4. BestRecent'
    BY <2>1 DEF BestRecent, RequestRecent, RecentInv, TypeOK, NoRequest
  <2> QED
    BY <2>3, <2>4 DEF RecentInv
<1>2. ASSUME NEW e \in Exchanges, NEW t \in Recent, NEW ts \in Stamps(t), SetLatest(e, t, ts)
      PROVE RecentInv'
  <2> DEFINE u == [at |-> t, ts |-> ts, until |-> Expiration]
  <2>1. latest' = [latest EXCEPT ![e] = u] /\ now' = now /\ reader' = reader
    BY <1>2 DEF SetLatest, KeysBecome
  <2>2. LivesUntil(u)
    BY LatestAssumption DEF LivesUntil, Recent, Expiration, TypeOK
  <2> HIDE DEF u
  <2>3. KeysLive'
    BY <2>1, <2>2 DEF KeysLive, LivesUntil, RecentInv, TypeOK
  <2> QED
    BY <2>1, <2>3 DEF RecentInv, BestRecent, RequestRecent
<1>3. ASSUME UNCHANGED <<now, latest, reader>> PROVE RecentInv'
  BY <1>3 DEF RecentInv, KeysLive, LivesUntil, BestRecent, RequestRecent
<1>5. CASE CleanDelete
  <2>1. now' = now /\ reader' = reader
        /\ \A e \in Exchanges : latest'[e] # Missing => latest'[e] = latest[e]
    BY <1>5 DEF CleanDelete, KeysBecome, TypeOK
  <2>2. KeysLive'
    BY <2>1 DEF KeysLive, LivesUntil, RecentInv
  <2> QED
    BY <2>1, <2>2 DEF RecentInv, BestRecent, RequestRecent
<1>6. ASSUME NEW X \in Requests, BeginRequest(X) PROVE RecentInv'
  <2> DEFINE all == Cardinality(X) # 1
             r == [pc |-> "get", began |-> now, all |-> all, partial |-> FALSE,
                   todo |-> IF all THEN Stored ELSE X, best |-> Missing]
  <2>1. r \in Request /\ RequestRecent(r)
    BY DEF Request, Requests, Stored, TypeOK, RequestRecent, Value
  <2>2. /\ UNCHANGED <<now, latest>>
        /\ \/ ContinueWith(r)
           \/ reader' = Finished([r EXCEPT !.partial = TRUE])
           \/ reader' = [r EXCEPT !.pc = "aborted", !.partial = TRUE]
    BY <1>6 DEF BeginRequest, ReaderOnly
  <2>3. BestRecent'
    <3>1. CASE ContinueWith(r)
      BY <2>1, <2>2, <3>1, ContinueRecent
    <3>2. CASE reader' = Finished([r EXCEPT !.partial = TRUE])
      BY <2>2, <3>2 DEF Finished, BestRecent, RequestRecent, TypeOK
    <3>3. CASE reader' = [r EXCEPT !.pc = "aborted", !.partial = TRUE]
      BY <2>2, <3>3 DEF BestRecent, RequestRecent, TypeOK
    <3> QED
      BY <2>2, <3>1, <3>2, <3>3
  <2> QED
    BY <2>2, <2>3 DEF RecentInv, KeysLive, LivesUntil
<1>7. ASSUME NEW e \in Exchanges, ReadLatest(e) PROVE RecentInv'
  <2> DEFINE rest == [reader EXCEPT !.todo = @ \ {e}]
             u == latest[e]
  <2>1. reader \in Request /\ RequestRecent(reader) /\ UNCHANGED <<now, latest>>
    BY <1>7 DEF ReadLatest, ReaderOnly, TypeOK, NoRequest, Request, RecentInv, BestRecent
  <2>2. \/ ContinueWith(IF u # Missing /\ (reader.all => Newer(u, reader.best))
                        THEN [rest EXCEPT !.best = u] ELSE rest)
        \/ ContinueWith([rest EXCEPT !.partial = TRUE])
    BY <1>7 DEF ReadLatest
  <2>3. \/ u # Missing /\ ContinueWith([rest EXCEPT !.best = u])
        \/ ContinueWith(rest)
        \/ ContinueWith([rest EXCEPT !.partial = TRUE])
    BY <2>2
  <2>4. rest \in Request /\ RequestRecent(rest) /\ rest.pc = "get"
    BY <1>7, <2>1 DEF Request, RequestRecent, ReadLatest
  <2>5. /\ [rest EXCEPT !.partial = TRUE] \in Request
        /\ RequestRecent([rest EXCEPT !.partial = TRUE])
        /\ [rest EXCEPT !.partial = TRUE].pc = "get"
    BY <2>4 DEF Request, RequestRecent
  <2>6. ASSUME u # Missing
        PROVE /\ [rest EXCEPT !.best = u] \in Request
              /\ RequestRecent([rest EXCEPT !.best = u])
              /\ [rest EXCEPT !.best = u].pc = "get"
    <3>1. u \in Value /\ u \in Entry
      BY <1>0, <2>6 DEF TypeOK
    <3>2. now < u.until /\ u.until <= u.at + Delay + Retention
      BY <2>6 DEF RecentInv, KeysLive, LivesUntil
    <3>3. rest.began < u.at + Delay + Retention
      BY <3>1, <3>2, <2>4, LatestAssumption DEF RequestRecent, Request, Entry, TypeOK
    <3> HIDE DEF rest, u
    <3> QED
      BY <2>4, <2>6, <3>1, <3>3 DEF Request, RequestRecent
  <2> HIDE DEF rest, u
  <2>7. BestRecent'
    BY <2>1, <2>3, <2>4, <2>5, <2>6, ContinueRecent
  <2> QED
    BY <2>1, <2>7 DEF RecentInv, KeysLive, LivesUntil
<1>8. CASE EndRequest
  BY <1>8 DEF EndRequest, ReaderOnly, RecentInv, KeysLive, LivesUntil, BestRecent
<1> QED
  BY <1>1, <1>2, <1>3, <1>5, <1>6, <1>7, <1>8
     DEF Next, BeginCleanup, CleanRead, vars

(***************************************************************************)
(* Type correctness.                                                       *)
(***************************************************************************)
THEOREM TypeCorrect == Spec => []TypeOK
<1>1. RecentInv => TypeOK
  BY DEF RecentInv
<1> QED
  BY <1>1, RecentInit, RecentStep, PTL DEF Spec

(***************************************************************************)
(* No answer is a price written more than the retention before the request *)
(* began, for any number of exchanges, any retention and delay.            *)
(***************************************************************************)
THEOREM RecentAnswers == Spec => []AnswersAreRecent
<1>1. RecentInv => AnswersAreRecent
  BY DEF RecentInv, BestRecent, RequestRecent, AnswersAreRecent, NoRequest
<1> QED
  BY <1>1, RecentInit, RecentStep, PTL DEF Spec
-----------------------------------------------------------------------------
(***************************************************************************)
(* A price is kept for the whole retention: what a key lacks of its last   *)
(* update has no timestamp, fell to the race with the cleanup, or is old.  *)
(***************************************************************************)
Gone(e) ==
  \/ lastSet[e].ts = 0
  \/ e \in raced
  \/ Whole(lastSet[e].at) * Second + Retention <= now

KeptOrGone == \A e \in Exchanges :
  latest[e] = lastSet[e] \/ (latest[e] = Missing /\ Gone(e))

Stamped(u) == u.ts \in Stamps(u.at) /\ u.at <= now

SetsStamped == \A e \in Exchanges :
  lastSet[e] # Missing => Stamped(lastSet[e]) /\ lastSet[e].at + Retention <= lastSet[e].until

CleanerLags ==
  /\ cleaner # NoCleanup => cleaner.cutoff + Retention <= now
  /\ cleaner.pc = "delete" /\ cleaner.key \notin raced =>
       LooksOld(lastSet[cleaner.key].ts, cleaner.cutoff)

KeptInv == TypeOK /\ KeptOrGone /\ SetsStamped /\ CleanerLags

(* Nothing was written at the start.                                       *)
LEMMA KeptInit == Init => KeptInv
BY LatestAssumption
   DEF Init, KeptInv, TypeOK, KeptOrGone, SetsStamped, CleanerLags, Value, NoCleanup

(* What looks old to the cleanup was reported a retention ago: it was      *)
(* stamped in seconds, for one in milliseconds never looks old.            *)
LEMMA OldIsGone ==
  ASSUME NEW t \in Nat, NEW ts \in Stamps(t), NEW cutoff \in Int, NEW n \in Nat,
         LooksOld(ts, cutoff), cutoff + Retention <= n
  PROVE  ts = 0 \/ Whole(t) * Second + Retention <= n
<1>1. t \div Second \in Nat
  BY DivLemma
<1>2. CASE ts = t \div Second
  BY <1>1, <1>2, LatestAssumption DEF LooksOld, Whole
<1>3. CASE ts = Millis + t
  BY <1>3, LatestAssumption DEF LooksOld, InMillis, Millis
<1> QED
  BY <1>2, <1>3 DEF Stamps

(* Each action keeps what the keys hold, or has a reason not to: expiry by *)
(* Tick, a race with SetLatest, or CleanDelete of what OldIsGone allows.   *)
LEMMA KeptStep == KeptInv /\ [Next]_vars => KeptInv'
<1> SUFFICES ASSUME KeptInv, [Next]_vars PROVE KeptInv'
  OBVIOUS
<1> TypeOK /\ TypeOK'
  BY TypeStep DEF KeptInv
<1>0. \A e \in Exchanges : /\ latest[e] \in Value /\ lastSet[e] \in Value
                           /\ lastSet[e] # Missing => lastSet[e] \in Entry
  BY DEF Value, TypeOK
<1>1. CASE Tick
  <2>1. now' = now + 1 /\ UNCHANGED <<lastSet, raced, cleaner>>
    BY <1>1 DEF Tick, cleanerVars
  <2>2. SetsStamped'
    BY <1>0, <2>1 DEF SetsStamped, Stamped, KeptInv, TypeOK, Entry
  <2>3. CleanerLags'
    <3>1. cleaner # NoCleanup => cleaner.cutoff \in Int
      BY DEF TypeOK
    <3>2. cleaner # NoCleanup => cleaner.cutoff + Retention <= now + 1
      BY <3>1, LatestAssumption DEF KeptInv, CleanerLags, TypeOK
    <3> QED
      BY <2>1, <3>2 DEF CleanerLags, KeptInv
  <2>4. ASSUME NEW e \in Exchanges
        PROVE  latest'[e] = lastSet'[e] \/ (latest'[e] = Missing /\ Gone(e)')
    <3>1. \/ latest'[e] = latest[e]
          \/ /\ latest[e] # Missing
             /\ latest[e].until <= now + 1
             /\ latest'[e] = Missing
      BY <1>1 DEF Tick, KeysBecome
    <3>2. Gone(e) => Gone(e)'
      <4>1. CASE lastSet[e].ts = 0 \/ e \in raced
        BY <2>1, <4>1 DEF Gone
      <4>2. CASE lastSet[e].ts # 0
        <5>1. lastSet[e].at \in Nat
          BY <1>0, <4>2 DEF Missing, Entry
        <5>2. Whole(lastSet[e].at) \in Nat
          BY <5>1, DivLemma DEF Whole
        <5> QED
          BY <2>1, <5>2, LatestAssumption DEF Gone, TypeOK
      <4> QED
        BY <4>1, <4>2
    <3>3. CASE latest'[e] = latest[e]
      BY <2>1, <3>2, <3>3 DEF KeptInv, KeptOrGone
    <3>4. CASE /\ latest[e] # Missing
               /\ latest[e].until <= now + 1
               /\ latest'[e] = Missing
      <4>1. latest[e] = lastSet[e] /\ lastSet[e] \in Entry
        BY <1>0, <3>4 DEF KeptInv, KeptOrGone
      <4>2. lastSet[e].at + Retention <= now + 1
        BY <3>4, <4>1, LatestAssumption DEF KeptInv, SetsStamped, TypeOK, Entry
      <4>3. /\ Whole(lastSet[e].at) * Second <= lastSet[e].at
            /\ Whole(lastSet[e].at) * Second \in Nat
            /\ lastSet[e].at \in Nat
        BY <4>1, DivLemma, LatestAssumption DEF Whole, Entry
      <4>4. Gone(e)'
        BY <2>1, <4>2, <4>3, LatestAssumption DEF Gone, TypeOK
      <4> QED
        BY <3>4, <4>4
    <3> QED
      BY <3>1, <3>3, <3>4
  <2>5. KeptOrGone'
    BY <2>4 DEF KeptOrGone
  <2> QED
    BY <2>2, <2>3, <2>5 DEF KeptInv
<1>2. ASSUME NEW e \in Exchanges, NEW t \in Recent, NEW ts \in Stamps(t), SetLatest(e, t, ts)
      PROVE KeptInv'
  <2> DEFINE u == [at |-> t, ts |-> ts, until |-> Expiration]
  <2>1. /\ latest' = [latest EXCEPT ![e] = u]
        /\ lastSet' = [lastSet EXCEPT ![e] = u]
        /\ UNCHANGED <<now, cleaner>>
        /\ raced' = IF Deleting(e) THEN raced \cup {e} ELSE raced \ {e}
    BY <1>2 DEF SetLatest, KeysBecome, cleanerVars
  <2>2. Stamped(u) /\ u.at + Retention <= u.until
    BY LatestAssumption DEF Stamped, Recent, Expiration, TypeOK
  <2> HIDE DEF u
  <2>3. SetsStamped'
    <3>1. \A f \in Exchanges : lastSet'[f] = IF f = e THEN u ELSE lastSet[f]
      BY <2>1 DEF TypeOK
    <3> QED
      BY <2>1, <2>2, <3>1 DEF SetsStamped, Stamped, KeptInv
  <2>4. KeptOrGone'
    BY <2>1 DEF KeptOrGone, Gone, KeptInv, TypeOK
  <2>5. CleanerLags'
    <3>1. cleaner.pc = "delete" => cleaner.key \in Exchanges
      BY DEF TypeOK, NoCleanup
    <3>2. cleaner.pc = "delete" /\ cleaner.key \notin raced' =>
            lastSet'[cleaner.key] = lastSet[cleaner.key] /\ cleaner.key \notin raced
      BY <2>1, <3>1 DEF Deleting, TypeOK
    <3> QED
      BY <2>1, <3>2 DEF CleanerLags, KeptInv
  <2> QED
    BY <2>3, <2>4, <2>5 DEF KeptInv
<1>3. CASE BeginCleanup
  <2>1. /\ UNCHANGED <<now, latest, lastSet, raced>>
        /\ \/ cleaner' = NoCleanup
           \/ cleaner' = [pc |-> "read", cutoff |-> now - Retention, todo |-> Stored]
    BY <1>3 DEF BeginCleanup, CleanRest, Cutoff
  <2>2. CleanerLags'
    BY <2>1, LatestAssumption DEF CleanerLags, NoCleanup, TypeOK
  <2> QED
    BY <2>1, <2>2 DEF KeptInv, KeptOrGone, Gone, SetsStamped, Stamped
<1>4. ASSUME NEW e \in Exchanges, CleanRead(e) PROVE KeptInv'
  <2>1. /\ UNCHANGED <<now, latest, lastSet, raced>>
        /\ cleaner.cutoff + Retention <= now
    BY <1>4 DEF CleanRead, NoCleanup, KeptInv, CleanerLags
  <2>2. ASSUME latest[e] # Missing,
               LooksOld(latest[e].ts, cleaner.cutoff),
               cleaner' = [pc |-> "delete", cutoff |-> cleaner.cutoff,
                           todo |-> cleaner.todo \ {e}, key |-> e]
        PROVE  CleanerLags'
    <3>1. LooksOld(lastSet[e].ts, cleaner.cutoff)
      BY <2>2 DEF KeptInv, KeptOrGone
    <3>2. cleaner'.key = e /\ cleaner'.cutoff = cleaner.cutoff
      BY <2>2
    <3> QED
      BY <2>1, <3>1, <3>2 DEF CleanerLags
  <2>3. ASSUME CleanRest(cleaner.cutoff, cleaner.todo \ {e})
        PROVE  CleanerLags'
    <3>1. \/ cleaner' = NoCleanup
          \/ cleaner'.pc = "read" /\ cleaner'.cutoff = cleaner.cutoff
      BY <2>3 DEF CleanRest
    <3> QED
      BY <2>1, <3>1 DEF CleanerLags, NoCleanup
  <2>4. CleanerLags'
    BY <1>4, <2>2, <2>3 DEF CleanRead
  <2> QED
    BY <2>1, <2>4 DEF KeptInv, KeptOrGone, Gone, SetsStamped, Stamped
<1>5. CASE CleanDelete
  <2>1. /\ UNCHANGED <<now, lastSet, raced>>
        /\ cleaner.pc = "delete" /\ cleaner.key \in Exchanges
        /\ cleaner # NoCleanup /\ cleaner.cutoff \in Int
        /\ CleanRest(cleaner.cutoff, cleaner.todo)
    BY <1>5 DEF CleanDelete, TypeOK, NoCleanup
  <2>2. CleanerLags'
    BY <2>1 DEF CleanRest, CleanerLags, KeptInv, NoCleanup
  <2>3. latest' = [latest EXCEPT ![cleaner.key] = Missing] \/ latest' = latest
    BY <1>5 DEF CleanDelete, KeysBecome
  <2>4. Gone(cleaner.key) \/ lastSet[cleaner.key] = Missing
    <3>1. CASE cleaner.key \in raced
      BY <3>1 DEF Gone
    <3>2. CASE cleaner.key \notin raced /\ lastSet[cleaner.key] # Missing
      <4> DEFINE v == lastSet[cleaner.key]
      <4>1. LooksOld(v.ts, cleaner.cutoff) /\ cleaner.cutoff + Retention <= now
        BY <2>1, <3>2 DEF KeptInv, CleanerLags
      <4>2. v.at \in Nat /\ v.ts \in Stamps(v.at)
        BY <1>0, <2>1, <3>2 DEF KeptInv, SetsStamped, Stamped, Entry
      <4>3. v.ts = 0 \/ Whole(v.at) * Second + Retention <= now
        BY <2>1, <4>1, <4>2, OldIsGone DEF TypeOK
      <4> QED
        BY <4>3 DEF Gone
    <3> QED
      BY <3>1, <3>2
  <2>5. KeptOrGone'
    BY <2>1, <2>3, <2>4 DEF KeptInv, KeptOrGone, Gone, TypeOK
  <2> QED
    BY <2>1, <2>2, <2>5 DEF KeptInv, SetsStamped, Stamped
<1>6. ASSUME UNCHANGED <<now, latest, lastSet, raced, cleaner>> PROVE KeptInv'
  BY <1>6 DEF KeptInv, KeptOrGone, Gone, SetsStamped, Stamped, CleanerLags
<1> QED
  BY <1>1, <1>2, <1>3, <1>4, <1>5, <1>6
     DEF Next, BeginRequest, ReadLatest, EndRequest, ReaderOnly, cleanerVars, vars

(***************************************************************************)
(* A price with a timestamp stays for the whole retention, unless it was   *)
(* written between the two commands of a cleanup.                          *)
(***************************************************************************)
THEOREM FreshKept == Spec => []FreshIsKept
<1>1. KeptInv => FreshIsKept
  <2> SUFFICES ASSUME KeptInv, NEW e \in Exchanges, lastSet[e].ts > 0, e \notin raced,
                      now < Whole(lastSet[e].at) * Second + Retention
               PROVE  latest[e] = lastSet[e]
    BY DEF FreshIsKept
  <2>1. lastSet[e] \in Entry
    BY DEF KeptInv, TypeOK, Value, Missing
  <2>2. Whole(lastSet[e].at) * Second \in Nat
    BY <2>1, DivLemma, LatestAssumption DEF Whole, Entry
  <2> QED
    BY <2>1, <2>2, LatestAssumption DEF KeptInv, KeptOrGone, Gone, TypeOK
<1> QED
  BY <1>1, KeptInit, KeptStep, PTL DEF Spec
-----------------------------------------------------------------------------
(***************************************************************************)
(* The answer of all exchanges is the most recent price.  What the request *)
(* has passed over in a key was not newer than its best so far.            *)
(***************************************************************************)
StampedValue(u) == u # Missing => Stamped(u)

KeysStamped ==
  /\ now <= MaxTime
  /\ \A e \in Exchanges : StampedValue(latest[e])
  /\ \A e \in Exchanges : \A u \in held[e] : StampedValue(u)

SeesKeys == Comparing => \A e \in Exchanges : latest[e] \in held[e]

PassedOver(r, H) ==
  /\ \A e \in Exchanges \ r.todo : \E u \in H[e] : u.ts <= r.best.ts
  /\ r.best # Missing => \E e \in Exchanges : r.best \in H[e]
  /\ r.pc # "get" => r.todo = {}
  /\ r.pc = "500" => r.best = Missing

BestOfPassed ==
  reader.pc \in {"get", "200", "500"} /\ reader.all /\ ~reader.partial =>
    PassedOver(reader, held)

NewestInv == TypeOK /\ KeysStamped /\ SeesKeys /\ BestOfPassed

(* There is no request at the start.                                       *)
LEMMA NewestInit == Init => NewestInv
BY LatestAssumption
   DEF Init, NewestInv, TypeOK, KeysStamped, StampedValue, SeesKeys, Comparing,
       BestOfPassed, Value, NoCleanup, NoRequest

(* A stamp orders the reports of one unit, to the second.                  *)
LEMMA StampsOrder ==
  ASSUME NEW t \in Nat, NEW v \in Nat, t <= MaxTime, v <= MaxTime,
         NEW ts \in Stamps(t), NEW vs \in Stamps(v), 0 < ts, ts <= vs,
         InMillis(ts) <=> InMillis(vs)
  PROVE  Whole(t) <= Whole(v)
<1>1. /\ t \div Second \in Nat /\ t \div Second <= t
      /\ v \div Second \in Nat /\ v \div Second <= v
  BY DivLemma
<1>2. CASE InMillis(ts)
  <2>1. ts = Millis + t /\ vs = Millis + v
    BY <1>1, <1>2, LatestAssumption DEF Stamps, InMillis, Millis
  <2>2. t <= v
    BY <2>1, LatestAssumption DEF Millis
  <2> QED
    BY <2>2, DivMono DEF Whole
<1>3. CASE ~InMillis(ts)
  <2>1. ts = t \div Second /\ vs = v \div Second
    BY <1>1, <1>3, LatestAssumption DEF Stamps, InMillis, Millis
  <2> QED
    BY <2>1 DEF Whole
<1> QED
  BY <1>2, <1>3

(* Whatever becomes of the keys, the request goes on seeing them all.      *)
LEMMA KeysSeen ==
  ASSUME NewestInv, NEW L \in [Exchanges -> Value], KeysBecome(L), reader' = reader,
         now' \in Nat, now <= now', now' <= MaxTime,
         \A e \in Exchanges : L[e] # Missing => L[e].ts \in Stamps(L[e].at) /\ L[e].at <= now'
  PROVE  KeysStamped' /\ SeesKeys' /\ BestOfPassed'
<1>1. latest' = L /\ \A e \in Exchanges : held'[e] = IF Comparing THEN held[e] \cup {L[e]} ELSE held[e]
  BY DEF KeysBecome
<1>2. KeysStamped'
  <2>1. ASSUME NEW e \in Exchanges, NEW u \in held'[e], u # Missing
        PROVE  u.ts \in Stamps(u.at) /\ u.at <= now'
    <3>1. CASE u = L[e]
      BY <2>1, <3>1
    <3>2. CASE u \in held[e]
      <4>1. Stamped(u)
        BY <2>1, <3>2 DEF NewestInv, KeysStamped, StampedValue
      <4>2. u.at \in Nat /\ now \in Nat
        BY <2>1, <3>2 DEF NewestInv, TypeOK, Value, Entry
      <4> QED
        BY <4>1, <4>2 DEF Stamped
    <3> QED
      BY <1>1, <2>1, <3>1, <3>2
  <2> QED
    BY <1>1, <2>1 DEF KeysStamped, StampedValue, Stamped
<1>3. SeesKeys'
  BY <1>1 DEF SeesKeys, Comparing, NewestInv
<1>4. BestOfPassed'
  <2>1. \A e \in Exchanges : held[e] \subseteq held'[e]
    BY <1>1
  <2> QED
    BY <2>1 DEF BestOfPassed, PassedOver, NewestInv
<1> QED
  BY <1>2, <1>3, <1>4

(* A request that goes on, or ends, with a sound best keeps it sound.      *)
LEMMA ContinueNewest ==
  ASSUME NEW r \in Request, r.pc = "get", ContinueWith(r),
         r.all /\ ~r.partial => PassedOver(r, held'),
         r.all => \A e \in Exchanges : latest'[e] \in held'[e]
  PROVE  SeesKeys' /\ BestOfPassed'
<1>1. CASE r.todo # {}
  BY <1>1 DEF ContinueWith, SeesKeys, Comparing, BestOfPassed, PassedOver
<1>2. CASE r.todo = {}
  <2>1. /\ reader' \in Request
        /\ reader'.pc = IF r.best = Missing THEN "500" ELSE "200"
        /\ reader'.all = r.all /\ reader'.partial = r.partial
        /\ reader'.todo = r.todo /\ reader'.best = r.best
    BY <1>2 DEF ContinueWith, Finished, Request
  <2> QED
    BY <1>2, <2>1 DEF SeesKeys, Comparing, BestOfPassed, PassedOver
<1> QED
  BY <1>1, <1>2

(* Each action keeps the best of the request sound: those on the keys by   *)
(* KeysSeen, those of the request by ContinueNewest.                       *)
LEMMA NewestStep == NewestInv /\ [Next]_vars => NewestInv'
<1> SUFFICES ASSUME NewestInv, [Next]_vars PROVE NewestInv'
  OBVIOUS
<1> TypeOK /\ TypeOK'
  BY TypeStep DEF NewestInv
<1>0. ASSUME NEW e \in Exchanges
      PROVE  /\ latest[e] \in Value
             /\ latest[e] # Missing =>
                  latest[e].ts \in Stamps(latest[e].at) /\ latest[e].at <= now /\ latest[e].at \in Nat
  <2>1. latest[e] \in Value /\ (latest[e] # Missing => latest[e] \in Entry)
    BY DEF TypeOK, Value
  <2> QED
    BY <2>1 DEF NewestInv, KeysStamped, StampedValue, Stamped, Entry
<1>1. CASE Tick
  <2> DEFINE L == [e \in Exchanges |->
                     IF latest[e] # Missing /\ latest[e].until <= now + 1
                     THEN Missing ELSE latest[e]]
  <2>1. /\ KeysBecome(L) /\ reader' = reader
        /\ now' = now + 1 /\ now + 1 <= MaxTime
    BY <1>1, LatestAssumption DEF Tick, TypeOK
  <2>2. L \in [Exchanges -> Value]
    BY <1>0 DEF Value
  <2>3. \A e \in Exchanges : L[e] # Missing => L[e].ts \in Stamps(L[e].at) /\ L[e].at <= now + 1
    BY <1>0 DEF TypeOK
  <2> HIDE DEF L
  <2> QED
    BY <2>1, <2>2, <2>3, KeysSeen DEF NewestInv, TypeOK
<1>2. ASSUME NEW e \in Exchanges, NEW t \in Recent, NEW ts \in Stamps(t), SetLatest(e, t, ts)
      PROVE NewestInv'
  <2> DEFINE u == [at |-> t, ts |-> ts, until |-> Expiration]
             L == [latest EXCEPT ![e] = u]
  <2>1. KeysBecome(L) /\ reader' = reader /\ now' = now
    BY <1>2 DEF SetLatest
  <2>2. u \in Value /\ u.ts \in Stamps(u.at) /\ u.at <= now
    <3>1. t \in Nat /\ ts \in Nat /\ Expiration \in Nat /\ t <= now
      BY LatestAssumption, DivLemma DEF Recent, Stamps, Millis, Expiration, TypeOK
    <3> QED
      BY <3>1 DEF Value, Entry
  <2> HIDE DEF u
  <2>3. L \in [Exchanges -> Value]
    BY <2>2 DEF TypeOK
  <2>4. \A f \in Exchanges : L[f] # Missing => L[f].ts \in Stamps(L[f].at) /\ L[f].at <= now
    BY <1>0, <2>2 DEF TypeOK
  <2> HIDE DEF L
  <2>5. now <= MaxTime /\ now \in Nat
    BY DEF NewestInv, KeysStamped, TypeOK
  <2> QED
    BY <2>1, <2>3, <2>4, <2>5, KeysSeen DEF NewestInv
<1>3. ASSUME UNCHANGED <<now, latest, reader, held>> PROVE NewestInv'
  BY <1>3 DEF NewestInv, KeysStamped, StampedValue, Stamped, SeesKeys, Comparing,
              BestOfPassed, PassedOver
<1>4. CASE CleanDelete
  <2>1. CASE UNCHANGED <<latest, held>>
    BY <1>3, <1>4, <2>1 DEF CleanDelete
  <2>2. CASE KeysBecome([latest EXCEPT ![cleaner.key] = Missing])
    <3> DEFINE L == [latest EXCEPT ![cleaner.key] = Missing]
    <3>1. \A f \in Exchanges : L[f] = Missing \/ L[f] = latest[f]
      BY DEF TypeOK
    <3>2. L \in [Exchanges -> Value]
      BY DEF TypeOK, Value
    <3>3. \A f \in Exchanges : L[f] # Missing => L[f].ts \in Stamps(L[f].at) /\ L[f].at <= now
      BY <1>0, <3>1
    <3> HIDE DEF L
    <3>4. KeysBecome(L)
      BY <2>2 DEF L
    <3>5. now' = now /\ now <= MaxTime /\ now \in Nat /\ reader' = reader
      BY <1>4 DEF CleanDelete, NewestInv, KeysStamped, TypeOK
    <3> QED
      BY <3>2, <3>3, <3>4, <3>5, KeysSeen DEF NewestInv
  <2> QED
    BY <1>4, <2>1, <2>2 DEF CleanDelete
<1>5. ASSUME UNCHANGED <<now, latest>>,
             \A e \in Exchanges : held'[e] \in {held[e], {latest[e]}, {}}
      PROVE  KeysStamped'
  BY <1>0, <1>5 DEF KeysStamped, StampedValue, Stamped, NewestInv
<1>6. ASSUME NEW X \in Requests, BeginRequest(X) PROVE NewestInv'
  <2> DEFINE all == Cardinality(X) # 1
             r == [pc |-> "get", began |-> now, all |-> all, partial |-> FALSE,
                   todo |-> IF all THEN Stored ELSE X, best |-> Missing]
  <2>1. r \in Request
    BY DEF Request, Requests, Stored, TypeOK, Value
  <2>2. /\ UNCHANGED <<now, latest>>
        /\ held' = [e \in Exchanges |-> IF reader'.all THEN {latest[e]} ELSE {}]
        /\ \/ ContinueWith(r)
           \/ reader' = Finished([r EXCEPT !.partial = TRUE])
           \/ reader' = [r EXCEPT !.pc = "aborted", !.partial = TRUE]
    BY <1>6 DEF BeginRequest, ReaderOnly
  <2>3. KeysStamped'
    BY <1>5, <2>2
  <2>4. CASE ContinueWith(r)
    <3>1. reader'.all = all
      BY <2>4 DEF ContinueWith, Finished
    <3>2. r.all => \A e \in Exchanges : latest'[e] \in held'[e]
      BY <2>2, <3>1
    <3>3. r.all => PassedOver(r, held')
      <4> SUFFICES ASSUME all PROVE PassedOver(r, held')
        OBVIOUS
      <4>1. \A e \in Exchanges \ Stored : Missing \in held'[e]
        BY <2>2, <3>1 DEF Stored
      <4> QED
        BY <4>1 DEF PassedOver, Missing
    <3> HIDE DEF r
    <3> QED
      BY <2>1, <2>3, <2>4, <3>2, <3>3, ContinueNewest DEF NewestInv, r
  <2>5. CASE ~ContinueWith(r)
    <3>1. reader'.partial /\ reader'.pc # "get"
      BY <2>2, <2>5 DEF Finished
    <3> QED
      BY <2>3, <3>1 DEF NewestInv, SeesKeys, Comparing, BestOfPassed
  <2> QED
    BY <2>4, <2>5
<1>7. ASSUME NEW e \in Exchanges, ReadLatest(e) PROVE NewestInv'
  <2> DEFINE rest == [reader EXCEPT !.todo = @ \ {e}]
             u == latest[e]
             taken == [rest EXCEPT !.best = u]
             failed == [rest EXCEPT !.partial = TRUE]
  <2>1. reader \in Request /\ UNCHANGED <<now, latest, held>> /\ reader.pc = "get" /\ u \in Value
    BY <1>0, <1>7 DEF ReadLatest, ReaderOnly, TypeOK, NoRequest, Request
  <2>2. KeysStamped'
    BY <1>5, <2>1
  <2>3. rest \in Request /\ taken \in Request /\ failed \in Request
    BY <2>1 DEF Request
  <2>4. /\ reader.all => \A f \in Exchanges : latest'[f] \in held'[f]
        /\ reader.all /\ ~reader.partial => PassedOver(reader, held)
    BY <2>1 DEF NewestInv, SeesKeys, Comparing, BestOfPassed
  <2>5. ASSUME ContinueWith(failed) PROVE SeesKeys' /\ BestOfPassed'
    <3>1. failed.pc = "get" /\ failed.partial /\ failed.all = reader.all
      BY <2>1 DEF Request
    <3> HIDE DEF failed
    <3> QED
      BY <2>3, <2>4, <2>5, <3>1, ContinueNewest
  <2>6. ASSUME ContinueWith(taken), u # Missing, reader.all => Newer(u, reader.best)
        PROVE  SeesKeys' /\ BestOfPassed'
    <3>1. /\ taken.pc = "get" /\ taken.partial = reader.partial /\ taken.all = reader.all
          /\ taken.best = u /\ taken.todo = reader.todo \ {e}
      BY <2>1 DEF Request
    <3> HIDE DEF taken
    <3>2. ASSUME reader.all, ~reader.partial PROVE PassedOver(taken, held')
      <4>1. PassedOver(reader, held) /\ u \in held'[e] /\ reader.best.ts < u.ts
        BY <2>1, <2>4, <2>6, <3>2 DEF Newer
      <4>2. ASSUME NEW f \in Exchanges \ taken.todo PROVE \E v \in held'[f] : v.ts <= u.ts
        <5>1. CASE f = e
          <6>1. u.ts \in Nat
            BY <2>1 DEF Value, Missing, Entry
          <6> QED
            BY <4>1, <5>1, <6>1
        <5>2. CASE f # e
          <6>1. PICK v \in held[f] : v.ts <= reader.best.ts
            BY <3>1, <4>1, <4>2, <5>2 DEF PassedOver
          <6>2. \A w \in Value : w.ts \in Nat
            BY DEF Value, Missing, Entry
          <6>3. v \in Value /\ reader.best \in Value
            BY <2>1, <6>1, <4>2 DEF TypeOK, Request
          <6>4. v.ts <= u.ts
            BY <2>1, <4>1, <6>1, <6>2, <6>3
          <6> QED
            BY <2>1, <6>4
        <5> QED
          BY <5>1, <5>2
      <4> QED
        BY <3>1, <4>1, <4>2 DEF PassedOver
    <3> QED
      BY <2>3, <2>4, <2>6, <3>1, <3>2, ContinueNewest
  <2>7. ASSUME ContinueWith(rest), ~(u # Missing /\ (reader.all => Newer(u, reader.best)))
        PROVE  SeesKeys' /\ BestOfPassed'
    <3>1. /\ rest.pc = "get" /\ rest.partial = reader.partial /\ rest.all = reader.all
          /\ rest.best = reader.best /\ rest.todo = reader.todo \ {e}
      BY <2>1 DEF Request
    <3> HIDE DEF rest
    <3>2. ASSUME reader.all, ~reader.partial PROVE PassedOver(rest, held')
      <4>1. PassedOver(reader, held) /\ u \in held'[e]
        BY <2>1, <2>4, <3>2
      <4>2. u.ts <= reader.best.ts
        <5>1. \A w \in Value : w.ts \in Nat
          BY DEF Value, Missing, Entry
        <5>2. reader.best \in Value
          BY <2>1 DEF Request
        <5> QED
          BY <2>1, <2>7, <3>2, <5>1, <5>2 DEF Newer, Missing
      <4> QED
        BY <2>1, <3>1, <4>1, <4>2 DEF PassedOver
    <3> QED
      BY <2>3, <2>4, <2>7, <3>1, <3>2, ContinueNewest
  <2>8. \/ u # Missing /\ (reader.all => Newer(u, reader.best)) /\ ContinueWith(taken)
        \/ ~(u # Missing /\ (reader.all => Newer(u, reader.best))) /\ ContinueWith(rest)
        \/ ContinueWith(failed)
    BY <1>7 DEF ReadLatest
  <2> QED
    BY <2>2, <2>5, <2>6, <2>7, <2>8 DEF NewestInv
<1>8. CASE EndRequest
  <2>1. /\ UNCHANGED <<now, latest>> /\ reader' = NoRequest
        /\ held' = [e \in Exchanges |-> {}]
    BY <1>8 DEF EndRequest, ReaderOnly
  <2> QED
    BY <1>5, <2>1 DEF NewestInv, SeesKeys, Comparing, BestOfPassed, NoRequest
<1> QED
  BY <1>1, <1>2, <1>3, <1>4, <1>6, <1>7, <1>8
     DEF Next, BeginCleanup, CleanRead, vars

(***************************************************************************)
(* The price of all exchanges is the most recent one of those that stood   *)
(* while the request was served, for any number of exchanges.              *)
(***************************************************************************)
THEOREM LatestMostRecent == Spec => []LatestIsMostRecent
<1>1. NewestInv => LatestIsMostRecent
  <2> SUFFICES ASSUME NewestInv, reader.pc \in {"200", "500"}, reader.all, ~reader.partial,
                      OneUnit, NEW e \in Exchanges, \A u \in held[e] : u.ts > 0
               PROVE  /\ reader.pc = "200"
                      /\ \E u \in held[e] : Whole(u.at) <= Whole(reader.best.at)
    BY DEF LatestIsMostRecent
  <2> DEFINE best == reader.best
  <2>1. PassedOver(reader, held) /\ reader.todo = {}
    BY DEF NewestInv, BestOfPassed, PassedOver
  <2>2. PICK u \in held[e] : u.ts <= best.ts
    BY <2>1 DEF PassedOver
  <2>3. u \in Value /\ best \in Value /\ \A w \in Value : w.ts \in Nat
    BY <2>2 DEF NewestInv, TypeOK, NoRequest, Value, Missing, Entry
  <2>4. u.ts > 0 /\ best.ts > 0
    BY <2>2, <2>3
  <2>5. u # Missing /\ best # Missing
    BY <2>4 DEF Missing
  <2>6. PICK f \in Exchanges : best \in held[f]
    BY <2>1, <2>5 DEF PassedOver
  <2>7. InMillis(u.ts) <=> InMillis(best.ts)
    BY <2>2, <2>4, <2>6 DEF OneUnit
  <2>8. /\ u.at \in Nat /\ u.at <= MaxTime /\ u.ts \in Stamps(u.at)
        /\ best.at \in Nat /\ best.at <= MaxTime /\ best.ts \in Stamps(best.at)
    <3>1. Stamped(u) /\ Stamped(best) /\ now <= MaxTime /\ now \in Nat
      BY <2>2, <2>5, <2>6 DEF NewestInv, KeysStamped, StampedValue, TypeOK
    <3>2. u.at \in Nat /\ best.at \in Nat
      BY <2>3, <2>5 DEF Value, Entry
    <3> QED
      BY <3>1, <3>2, LatestAssumption DEF Stamped
  <2>9. Whole(u.at) <= Whole(best.at)
    BY <2>2, <2>3, <2>4, <2>7, <2>8, StampsOrder
  <2> QED
    BY <2>1, <2>2, <2>5, <2>9 DEF PassedOver
<1> QED
  BY <1>1, NewestInit, NewestStep, PTL DEF Spec
=============================================================================
