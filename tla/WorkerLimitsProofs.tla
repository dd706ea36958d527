------------------------- MODULE WorkerLimitsProofs -------------------------
(***************************************************************************)
(* Proofs about the limiters, as parts of WorkerLimits.  Of the pool's LLM *)
(* limiter: both results rest on one inductive invariant, that who sleeps  *)
(* holds the lock and that what is left of a sleep is what is missing for  *)
(* its purpose.  Of the crawler: robots.txt is read once, and the fetches  *)
(* of a domain come in bounded bursts.                                     *)
(***************************************************************************)
EXTENDS WorkerLimits, FiniteSetTheorems, WellFoundedInduction, TLAPS

USE DEF Places

Asleep(w) == at[w] \in {"delayed", "starved"}

\* Sleeping is done under the lock.
LockKept == \A w \in Workers : Asleep(w) => lock = w

\* A nap for the delay is as long as what the delay lacks; who waits for a
\* token has kept the delay.
DelayInv ==
  \A w \in Workers :
    /\ at[w] = "delayed" => nap[w] + sinceRequest >= MinDelay
    /\ at[w] = "starved" => sinceRequest = MinDelay

\* The allowance covers what the bucket holds and is about to gain.
RateInv ==
  Limited =>
    /\ (\A w \in Workers : at[w] # "starved") => allowance >= Refilled
    /\ \A w \in Workers : at[w] = "starved" =>
         /\ nap[w] <= TokenTime
         /\ allowance >= TokenTime - nap[w] + sinceRefill

LimiterInv == LimiterFields /\ LockKept /\ DelayInv /\ RateInv
-----------------------------------------------------------------------------
\* The bucket's size is a number, and with a limit it has room for a token.
LEMMA CapacityFacts ==
  /\ Capacity \in Nat
  /\ TokenTime \in Nat \ {0}
  /\ MinDelay \in Nat
  /\ Limited => Capacity >= TokenTime
<1>1. PerMinute \in Nat /\ TokenTime \in Nat \ {0} /\ MinDelay \in Nat
  BY LimiterAssumption
<1>2. ASSUME NEW n \in Nat, NEW t \in Nat
      PROVE  n * t \in Nat
  OBVIOUS
<1>3. ASSUME NEW n \in Nat \ {0}, NEW t \in Nat
      PROVE  n * t >= t
  <2>1. n * t = (n - 1) * t + t
    OBVIOUS
  <2>2. (n - 1) * t \in Nat
    BY <1>2, n - 1 \in Nat
  <2>3. QED BY <2>1, <2>2
<1>4. QED BY <1>1, <1>2, <1>3 DEF Capacity, Limited

\* A step of the whole system is a step of the limiter or leaves it alone.
LEMMA StepOfLimiter ==
  [Next]_vars => [LimiterNext]_limiterVars
BY DEF Next, vars, Tick, RunLLMJob, RunCrawlJob, LimiterNext

\* The initial states satisfy the invariant.
LEMMA InitInv == Init => LimiterInv
<1> SUFFICES ASSUME LimiterInit PROVE LimiterInv
  BY DEF Init
<1> USE CapacityFacts, LimiterAssumption DEF LimiterInit
<1>1. LimiterFields
  BY DEF LimiterFields
<1>2. LockKept /\ DelayInv
  BY DEF LockKept, DelayInv, Asleep
<1>3. RateInv
  BY DEF RateInv, Refilled, Least
<1>4. QED BY <1>1, <1>2, <1>3 DEF LimiterInv

\* The amount in the bucket after a refill, in the words of arithmetic.
LEMMA RefilledFacts ==
  LimiterFields => /\ Refilled \in 0..Capacity
                   /\ Refilled <= tokens + sinceRefill
BY CapacityFacts DEF LimiterFields, Refilled, Least

-----------------------------------------------------------------------------
(***************************************************************************)
(* One lemma per action.  AwaitDelay, TakeToken and AwaitToken begin with  *)
(* the lock free or held by the worker that moves, TokenArrives with the   *)
(* latter: nobody else is asleep.                                          *)
(***************************************************************************)
\* Whoever moves under the lock is alone there.
LEMMA Alone ==
  ASSUME LockKept, NEW w \in Workers,
         MyTurn(w) \/ Asleep(w)
  PROVE  \A v \in Workers : Asleep(v) => v = w
<1>1. CASE MyTurn(w)
  BY <1>1, LimiterAssumption DEF LockKept, MyTurn
<1>2. CASE Asleep(w)
  BY <1>2 DEF LockKept
<1>3. QED BY <1>1, <1>2

\* The sleeper takes the lock and sleeps what the delay lacks.
LEMMA AwaitDelayStep ==
  ASSUME LimiterInv, NEW w \in Workers, AwaitDelay(w)
  PROVE  LimiterInv'
<1> USE CapacityFacts DEF LimiterInv
<1>1. \A v \in Workers : Asleep(v) => v = w
  BY Alone DEF AwaitDelay
<1>2. LimiterFields'
  BY DEF LimiterFields, AwaitDelay, TooSoon
<1>3. LockKept'
  BY <1>1 DEF LockKept, AwaitDelay, Asleep, LimiterFields
<1>4. DelayInv'
  BY DEF DelayInv, AwaitDelay, LimiterFields, TooSoon
<1>5. RateInv'
  <2>1. \A v \in Workers : at[v] # "starved" /\ at'[v] # "starved"
    BY <1>1 DEF AwaitDelay, MyTurn, Asleep, LimiterFields
  <2>2. QED BY <2>1 DEF RateInv, AwaitDelay, Refilled, Limited, Capacity
<1>6. QED BY <1>2, <1>3, <1>4, <1>5

\* Before TakeToken and AwaitToken nobody waits for a token.
LEMMA NobodyStarved ==
  ASSUME LimiterInv, NEW w \in Workers, DelayKept(w)
  PROVE  /\ \A v \in Workers : Asleep(v) => v = w
         /\ \A v \in Workers : at[v] # "starved"
         /\ sinceRequest = MinDelay
         /\ Limited => allowance >= Refilled
<1>1. MyTurn(w) \/ Asleep(w)
  BY DEF DelayKept, Asleep
<1>2. \A v \in Workers : Asleep(v) => v = w
  BY <1>1, Alone DEF LimiterInv
<1>3. at[w] # "starved"
  BY DEF DelayKept, MyTurn
<1>4. sinceRequest = MinDelay
  BY CapacityFacts DEF DelayKept, MyTurn, TooSoon, LimiterInv, DelayInv, LimiterFields
<1>5. \A v \in Workers : at[v] # "starved"
  BY <1>2, <1>3 DEF Asleep
<1>6. QED BY <1>2, <1>4, <1>5 DEF LimiterInv, RateInv

\* The token leaves the bucket and the allowance alike.
LEMMA TakeTokenStep ==
  ASSUME LimiterInv, NEW w \in Workers, TakeToken(w)
  PROVE  LimiterInv'
<1> USE CapacityFacts DEF LimiterInv
<1>1. /\ \A v \in Workers : Asleep(v) => v = w
      /\ \A v \in Workers : at[v] # "starved"
      /\ Limited => allowance >= Refilled
  BY NobodyStarved DEF TakeToken
<1>2. LimiterFields'
  BY RefilledFacts DEF LimiterFields, TakeToken, Start
<1>3. \A v \in Workers : ~Asleep(v)'
  BY <1>1 DEF TakeToken, Start, Asleep, LimiterFields
<1>4. LockKept' /\ DelayInv'
  BY <1>3 DEF LockKept, DelayInv, Asleep
<1>5. RateInv'
  <2>1. CASE Limited
    <3>1. /\ tokens' = Refilled - TokenTime
          /\ sinceRefill' = 0
          /\ allowance' = allowance - TokenTime
      BY <2>1 DEF TakeToken, Start
    <3>2. tokens' \in 0..Capacity /\ Refilled' = tokens'
      BY <3>1, <2>1, RefilledFacts DEF TakeToken, Refilled, Least, Capacity
    <3>3. allowance' >= Refilled'
      BY <3>1, <3>2, <1>1, <2>1, RefilledFacts DEF LimiterFields
    <3>4. QED BY <3>3, <1>3 DEF RateInv, Asleep
  <2>2. CASE ~Limited
    BY <2>2 DEF RateInv, Limited
  <2>3. QED BY <2>1, <2>2
<1>6. QED BY <1>2, <1>4, <1>5

\* The sleeper takes the lock and sleeps what the token lacks.
LEMMA AwaitTokenStep ==
  ASSUME LimiterInv, NEW w \in Workers, AwaitToken(w)
  PROVE  LimiterInv'
<1> USE CapacityFacts DEF LimiterInv
<1>1. /\ \A v \in Workers : Asleep(v) => v = w
      /\ \A v \in Workers : at[v] # "starved"
      /\ sinceRequest = MinDelay
      /\ allowance >= Refilled
  BY NobodyStarved DEF AwaitToken
<1>2. LimiterFields'
  BY RefilledFacts DEF LimiterFields, AwaitToken
<1>3. LockKept'
  BY <1>1 DEF LockKept, AwaitToken, Asleep, LimiterFields
<1>4. DelayInv'
  BY <1>1 DEF DelayInv, AwaitToken, LimiterFields, Asleep
<1>5. RateInv'
  <2>1. \A v \in Workers : at'[v] = "starved" <=> v = w
    BY <1>1 DEF AwaitToken, LimiterFields
  <2>2. nap'[w] = TokenTime - Refilled /\ sinceRefill' = 0 /\ allowance' = allowance
    BY DEF AwaitToken, LimiterFields
  <2>3. nap'[w] <= TokenTime /\ allowance' >= TokenTime - nap'[w] + sinceRefill'
    BY <2>2, <1>1, RefilledFacts DEF LimiterFields
  <2>4. QED BY <2>1, <2>3 DEF RateInv
<1>6. QED BY <1>2, <1>3, <1>4, <1>5

\* The nap has paid for the token; the age of the refill counts it again.
LEMMA TokenArrivesStep ==
  ASSUME LimiterInv, NEW w \in Workers, TokenArrives(w)
  PROVE  LimiterInv'
<1> USE CapacityFacts DEF LimiterInv
<1>1. \A v \in Workers : Asleep(v) => v = w
  BY Alone DEF TokenArrives, Asleep
<1>2. LimiterFields'
  BY DEF LimiterFields, TokenArrives, Start
<1>3. \A v \in Workers : ~Asleep(v)'
  BY <1>1 DEF TokenArrives, Start, Asleep, LimiterFields
<1>4. LockKept' /\ DelayInv'
  BY <1>3 DEF LockKept, DelayInv, Asleep
<1>5. RateInv'
  <2>1. CASE Limited
    <3>1. allowance >= TokenTime + sinceRefill
      BY <2>1 DEF TokenArrives, RateInv, LimiterFields
    <3>2. /\ allowance' = allowance - TokenTime
          /\ tokens' = 0
          /\ sinceRefill' = sinceRefill
      BY <2>1 DEF TokenArrives, Start
    <3>3. Refilled' <= sinceRefill
      BY <3>2 DEF Refilled, Least, LimiterFields, Capacity
    <3>4. Refilled' \in Int
      BY <3>2 DEF Refilled, Least, LimiterFields, Capacity
    <3>5. allowance' >= Refilled'
      BY <3>1, <3>2, <3>3, <3>4 DEF LimiterFields
    <3>6. QED BY <3>5, <1>3 DEF RateInv, Asleep
  <2>2. CASE ~Limited
    BY <2>2 DEF RateInv, Limited
  <2>3. QED BY <2>1, <2>2
<1>6. QED BY <1>2, <1>4, <1>5

\* Joining the line and ending a job move nobody who sleeps.
LEMMA OutsideStep ==
  ASSUME LimiterInv, NEW w \in Workers, Join(w) \/ Finish(w)
  PROVE  LimiterInv'
<1> USE CapacityFacts DEF LimiterInv, Join, Finish, clockVars
<1>1. LimiterFields'
  BY DEF LimiterFields
<1>2. \A v \in Workers :
        /\ (at'[v] = "delayed") <=> (at[v] = "delayed")
        /\ (at'[v] = "starved") <=> (at[v] = "starved")
  BY DEF LimiterFields
<1>3. LockKept' /\ DelayInv'
  BY <1>2 DEF LockKept, DelayInv, Asleep
<1>4. RateInv'
  BY <1>2 DEF RateInv, Refilled, Limited, Capacity
<1>5. QED BY <1>1, <1>3, <1>4

\* A tick shortens every nap by as much as it ages the two times.
LEMMA TickStep ==
  ASSUME LimiterInv, LimiterTick
  PROVE  LimiterInv'
<1> USE CapacityFacts DEF LimiterInv, LimiterTick
<1>1. LimiterFields'
  BY DEF LimiterFields, Least
<1>2. LockKept'
  BY DEF LockKept, Asleep
<1>3. DelayInv'
  BY DEF DelayInv, LimiterFields, Least
<1>4. RateInv'
  <2> SUFFICES ASSUME Limited PROVE RateInv'
    BY DEF RateInv, Limited
  <2>1. ASSUME \A v \in Workers : at[v] # "starved"
        PROVE  (allowance >= Refilled)'
    BY <2>1 DEF RateInv, LimiterFields, Refilled, Least, Capacity
  <2>2. ASSUME NEW v \in Workers, at[v] = "starved"
        PROVE  (nap[v] <= TokenTime /\ allowance >= TokenTime - nap[v] + sinceRefill)'
    <3>1. nap[v] <= TokenTime /\ allowance >= TokenTime - nap[v] + sinceRefill
      BY <2>2 DEF RateInv
    <3>2. nap[v] \in Nat /\ nap'[v] = IF nap[v] > 0 THEN nap[v] - 1 ELSE 0
      BY DEF LimiterFields
    <3>3. QED BY <3>1, <3>2 DEF LimiterFields, Least
  <2>3. QED BY <2>1, <2>2 DEF RateInv
<1>5. QED BY <1>1, <1>2, <1>3, <1>4

-----------------------------------------------------------------------------
\* Every step of the system preserves the invariant.
LEMMA NextInv == LimiterInv /\ [Next]_vars => LimiterInv'
<1> SUFFICES ASSUME LimiterInv, [LimiterNext]_limiterVars PROVE LimiterInv'
  BY StepOfLimiter
<1>1. CASE LimiterTick
  BY <1>1, TickStep
<1>2. ASSUME NEW w \in Workers, LimiterStep(w) PROVE LimiterInv'
  BY <1>2, OutsideStep, AwaitDelayStep, TakeTokenStep, AwaitTokenStep, TokenArrivesStep
     DEF LimiterStep, Proceed
<1>3. CASE UNCHANGED limiterVars
  BY <1>3 DEF limiterVars, clockVars, LimiterInv, LimiterFields, LockKept, DelayInv,
     RateInv, Asleep, Refilled, Limited, Capacity
<1>4. QED BY <1>1, <1>2, <1>3 DEF LimiterNext

\* The fields of the limiter have their types, sleeping is done under the lock,
\* and no sleep is shorter than its purpose asks.
THEOREM InvariantHolds == Spec => []LimiterInv
BY InitInv, NextInv, PTL DEF Spec

\* For every pool and all settings: two LLM jobs never start within the
\* minimum delay (step 1 of _apply_rate_limit()).
THEOREM DelayIsKept == Spec => DelayBetweenStarts
<1>1. LimiterInv /\ [Next]_vars =>
        [\A w \in Workers : Starts(w) => sinceRequest = MinDelay]_limiterVars
  <2> SUFFICES ASSUME LimiterInv, LimiterNext, NEW w \in Workers, Starts(w)
               PROVE  sinceRequest = MinDelay
    BY StepOfLimiter
  <2> USE DEF LimiterInv
  <2>1. CASE TakeToken(w)
    BY <2>1, NobodyStarved DEF TakeToken
  <2>2. CASE TokenArrives(w)
    BY <2>2 DEF TokenArrives, DelayInv
  <2>3. CASE LimiterTick
    BY <2>3 DEF LimiterTick, Starts
  <2>4. ASSUME NEW v \in Workers, LimiterStep(v), ~TakeToken(w), ~TokenArrives(w)
        PROVE  FALSE
    BY <2>4 DEF LimiterStep, Proceed, Join, AwaitDelay, TakeToken, AwaitToken,
       TokenArrives, Finish, Start, Starts, LimiterFields
  <2>5. QED BY <2>1, <2>2, <2>3, <2>4 DEF LimiterNext
<1>2. QED BY <1>1, InvariantHolds, PTL DEF Spec, DelayBetweenStarts

\* For every pool and all settings: the pool starts no more LLM jobs than a
\* token bucket of twice the configured rate and one token more would let it.
THEOREM RateIsKept == Spec => []AtMostTwiceTheRate
<1>1. LimiterInv => AtMostTwiceTheRate
  <2> SUFFICES ASSUME LimiterInv, Limited PROVE allowance >= 0
    BY DEF AtMostTwiceTheRate
  <2> USE CapacityFacts DEF LimiterInv
  <2>1. CASE \A w \in Workers : at[w] # "starved"
    BY <2>1, RefilledFacts DEF RateInv, LimiterFields
  <2>2. ASSUME NEW w \in Workers, at[w] = "starved" PROVE allowance >= 0
    BY <2>2 DEF RateInv, LimiterFields
  <2>3. QED BY <2>1, <2>2
<1>2. QED BY <1>1, InvariantHolds, PTL

-----------------------------------------------------------------------------
(***************************************************************************)
(* The cache of robots.txt.                                                *)
(***************************************************************************)
\* What a crawler does is a record with these fields.
CrawlFields ==
  /\ crawl = [c \in Crawlers |-> crawl[c]]
  /\ \A c \in Crawlers : {"at", "site"} \subseteq DOMAIN crawl[c]

RobotsInv == CrawlFields /\ RobotsReadOnce

\* A crawler's step keeps it: who asks holds the lock, and while one asks
\* no other crawler reads or fills the cache.
LEMMA CrawlStepRobots ==
  ASSUME RobotsInv, NEW c \in Crawlers, CrawlStep(c)
  PROVE  RobotsInv'
<1> USE DEF RobotsInv, CrawlFields, RobotsReadOnce, Domain, robotsVars, MayEnter
<1>1. ASSUME NEW d \in Domains, BeginCrawl(c, d) PROVE RobotsInv'
  BY <1>1 DEF BeginCrawl
<1>2. CASE KnownRobots(c)
  BY <1>2 DEF KnownRobots
<1>3. CASE AskRobots(c)
  BY <1>3 DEF AskRobots
<1>4. CASE RobotsAnswer(c)
  BY <1>4 DEF RobotsAnswer
<1>5. ASSUME NEW delay \in PageDelays, Wait(c, delay) PROVE RobotsInv'
  BY <1>5 DEF Wait
<1>6. CASE FetchPage(c) \/ NextPage(c) \/ EndCrawl(c)
  BY <1>6 DEF FetchPage, NextPage, EndCrawl
<1>7. QED BY <1>1, <1>2, <1>3, <1>4, <1>5, <1>6 DEF CrawlStep

\* For any number of crawlers and domains: a robots.txt that was read is never
\* fetched again (can_crawl() looks it up and stores it under one lock).
THEOREM RobotsCached == Spec => []RobotsReadOnce
<1>1. Init => RobotsInv
  BY DEF Init, CrawlInit, Away, RobotsInv, CrawlFields, RobotsReadOnce
<1>2. RobotsInv /\ [Next]_vars => RobotsInv'
  <2> SUFFICES ASSUME RobotsInv, [Next]_vars PROVE RobotsInv'
    OBVIOUS
  <2>1. CASE Tick
    BY <2>1 DEF Tick, CrawlTick, RobotsInv, CrawlFields, RobotsReadOnce, Domain, robotsVars
  <2>2. ASSUME NEW w \in Workers, RunCrawlJob(w) PROVE RobotsInv'
    BY <2>2, CrawlStepRobots, SamePool DEF RunCrawlJob
  <2>3. CASE UNCHANGED crawlVars
    BY <2>3 DEF crawlVars, robotsVars, RobotsInv, CrawlFields, RobotsReadOnce, Domain
  <2>4. QED BY <2>1, <2>2, <2>3 DEF Next, vars, RunLLMJob
<1>3. QED BY <1>1, <1>2, PTL DEF Spec, RobotsInv
-----------------------------------------------------------------------------
(***************************************************************************)
(* The sums of a history.  UpTo() is defined by recursion, so that what it *)
(* is has to be found by induction.                                        *)
(***************************************************************************)
\* Every set of numbers has a least one.
LEMMA LeastNumber ==
  ASSUME NEW T, T \subseteq Nat, T # {}
  PROVE  \E m \in T : \A k \in T : m <= k
<1>1. IsWellFoundedOn(OpToRel(<, Nat), Nat)
  BY NatLessThanWellFounded
<1>2. PICK m \in T : \A k \in T : <<k, m>> \notin OpToRel(<, Nat)
  BY <1>1, WFMin, Zenon
<1>3. \A k \in T : ~(k < m)
  BY <1>2, Zenon DEF OpToRel
<1>4. QED BY <1>3

\* A set with 0 and with the successor of each of its numbers has them all.
LEMMA Induction ==
  ASSUME NEW S, 0 \in S, \A k \in Nat : k \in S => k + 1 \in S
  PROVE  Nat \subseteq S
<1>1. SUFFICES ASSUME Nat \ S # {} PROVE FALSE
  OBVIOUS
<1>2. PICK m \in Nat \ S : \A k \in Nat \ S : m <= k
  BY <1>1, LeastNumber
<1>3. m # 0 /\ m - 1 \in Nat
  BY <1>2
<1>4. QED BY <1>2, <1>3

\* A finite set of numbers has a bound.
LEMMA FiniteIsBounded ==
  ASSUME NEW F \in SUBSET Nat, IsFiniteSet(F)
  PROVE  \E m \in Nat : \A x \in F : x <= m
<1> DEFINE Bounded(T) == \E m \in Nat : \A x \in T : x <= m
           S == {n \in Nat : \A T \in SUBSET F : Cardinality(T) = n => Bounded(T)}
<1>1. ASSUME NEW T \in SUBSET F
      PROVE  /\ IsFiniteSet(T) /\ Cardinality(T) \in Nat
             /\ Cardinality(T) = 0 => T = {}
             /\ \A x \in T : Cardinality(T \ {x}) = Cardinality(T) - 1
  <2>1. IsFiniteSet(T) /\ Cardinality(T) \in Nat
    BY FS_Subset, FS_CardinalityType
  <2>2. QED BY <2>1, FS_EmptySet, FS_RemoveElement
<1>2. 0 \in S
  BY <1>1
<1>3. ASSUME NEW n \in Nat, n \in S PROVE n + 1 \in S
  <2>1. ASSUME NEW T \in SUBSET F, Cardinality(T) = n + 1 PROVE Bounded(T)
    <3>1. PICK x \in T : TRUE
      <4>1. T # {}
        BY <2>1, FS_EmptySet
      <4>2. QED BY <4>1
    <3>2. T \ {x} \in SUBSET F /\ Cardinality(T \ {x}) = n
      BY <1>1, <2>1
    <3>3. PICK m \in Nat : \A y \in T \ {x} : y <= m
      BY <1>3, <3>2
    <3>4. CASE x <= m
      BY <3>3, <3>4
    <3>5. CASE ~(x <= m)
      <4>1. x \in Nat /\ \A y \in T : y \in Nat
        OBVIOUS
      <4>2. \A y \in T : y <= x
        BY <3>3, <3>5, <4>1
      <4>3. QED BY <4>1, <4>2
    <3>6. QED BY <3>4, <3>5
  <2> HIDE DEF Bounded
  <2>2. QED BY <2>1
<1>4. Cardinality(F) \in S
  BY <1>1, <1>2, <1>3, Induction
<1>5. QED BY <1>4

LEMMA DelayFacts ==
  /\ Shortest \in Nat \ {0}
  /\ \A delay \in PageDelays : delay \in Nat /\ Shortest <= delay
  /\ Longest \in Nat
<1>1. PageDelays \in SUBSET Nat /\ PageDelays # {} /\ 0 \notin PageDelays
  BY CrawlAssumption
<1>2. \E x \in PageDelays : \A y \in PageDelays : x <= y
  BY <1>1, LeastNumber
<1>3. Shortest \in PageDelays /\ \A y \in PageDelays : Shortest <= y
  BY <1>2, Zenon DEF Shortest, Min
<1>4. \E x \in PageDelays : \A y \in PageDelays : x >= y
  <2> DEFINE Bounds == {m \in Nat : \A y \in PageDelays : y <= m}
  <2>1. Bounds # {}
    BY <1>1, FiniteIsBounded, CrawlAssumption
  <2>2. PICK m \in Bounds : \A n \in Bounds : m <= n
    BY <2>1, LeastNumber
  <2>3. m \in PageDelays
    <3>1. SUFFICES ASSUME m \notin PageDelays PROVE FALSE
      OBVIOUS
    <3>2. PICK y \in PageDelays : TRUE
      BY <1>1
    <3>3. \A x \in PageDelays : x \in Nat /\ x <= m - 1
      BY <1>1, <2>2, <3>1
    <3>4. m - 1 \in Nat /\ ~(m <= m - 1)
      BY <2>2, <3>2, <3>3
    <3>5. QED BY <2>2, <3>3, <3>4
  <2>4. \A y \in PageDelays : m >= y
    BY <1>1, <2>2
  <2>5. QED BY <2>3, <2>4
<1>5. Longest \in PageDelays
  BY <1>4, Zenon DEF Longest, Max
<1>6. QED BY <1>1, <1>3, <1>5

\* The recursion of UpTo() has a solution: up to any age there is one.
LEMMA Sums ==
  ASSUME NEW r \in [Window -> Nat]
  PROVE  /\ UpTo(r)[0] = r[0]
         /\ \A age \in Window : age # 0 => UpTo(r)[age] = r[age] + UpTo(r)[age - 1]
         /\ \A age \in Window : UpTo(r)[age] \in Nat
<1> DEFINE Sum(f, age) == r[age] + IF age = 0 THEN 0 ELSE f[age - 1]
           Upto(m) == {f \in [0..m -> Nat] : \A age \in 0..m : f[age] = Sum(f, age)}
           S == {m \in Nat : m \in Window => Upto(m) # {}}
<1>1. /\ Shortest \in Nat \ {0} /\ Window = 0..(Shortest - 1) /\ 0 \in Window
      /\ \A age \in Window : age \in Nat /\ r[age] \in Nat
      /\ \A age \in Window : age # 0 => age - 1 \in Window
  BY DelayFacts DEF Window
<1>2. 0 \in S
  <2> DEFINE f == [age \in 0..0 |-> r[0]]
  <2>1. \A age \in 0..0 : age = 0
    OBVIOUS
  <2>2. f \in [0..0 -> Nat] /\ \A age \in 0..0 : f[age] = Sum(f, age)
    BY <1>1, <2>1
  <2>3. QED BY <2>2
<1>3. ASSUME NEW m \in Nat, m \in S PROVE m + 1 \in S
  <2> SUFFICES ASSUME m + 1 \in Window PROVE m + 1 \in S
    <3> HIDE DEF Upto
    <3> QED OBVIOUS
  <2>1. m \in Window
    BY <1>1
  <2>2. PICK f \in [0..m -> Nat] : \A age \in 0..m : f[age] = Sum(f, age)
    BY <1>3, <2>1
  <2> DEFINE g == [age \in 0..(m + 1) |-> IF age = m + 1 THEN r[m + 1] + f[m] ELSE f[age]]
  <2>3. \A age \in 0..(m + 1) : age = m + 1 \/ age \in 0..m
    OBVIOUS
  <2>4. r[m + 1] + f[m] \in Nat
    BY <1>1, <2>2
  <2>5. g \in [0..(m + 1) -> Nat]
    BY <2>2, <2>3, <2>4
  <2>6. ASSUME NEW age \in 0..(m + 1) PROVE g[age] = Sum(g, age)
    <3>1. CASE age = m + 1
      <4>1. age # 0 /\ age - 1 = m /\ m \in 0..(m + 1) /\ m # m + 1
        BY <3>1
      <4>2. g[age - 1] = f[m]
        BY <4>1
      <4>3. g[age] = r[m + 1] + f[m]
        BY <3>1
      <4>4. QED BY <3>1, <4>1, <4>2, <4>3
    <3>2. CASE age # m + 1
      <4>1. age \in 0..m /\ g[age] = f[age]
        BY <2>3, <3>2
      <4>2. age # 0 => g[age - 1] = f[age - 1]
        BY <4>1
      <4>3. QED BY <2>2, <4>1, <4>2
    <3>3. QED BY <3>1, <3>2
  <2>7. g \in Upto(m + 1)
    BY <2>5, <2>6
  <2> HIDE DEF Upto, g
  <2>8. QED BY <2>7
<1>4. Upto(Shortest - 1) # {}
  <2> HIDE DEF Upto
  <2>1. Shortest - 1 \in Nat /\ Shortest - 1 \in Window
    BY <1>1
  <2>2. QED BY <1>2, <1>3, <2>1, Induction
<1>5. PICK f \in [Window -> Nat] : \A age \in Window : f[age] = Sum(f, age)
  BY <1>1, <1>4
<1>6. f = [age \in Window |-> r[age] + IF age = 0 THEN 0 ELSE f[age - 1]]
  BY <1>5
<1> DEFINE sum == UpTo(r)
<1>7. sum = [age \in Window |-> r[age] + IF age = 0 THEN 0 ELSE sum[age - 1]]
  BY <1>6, Zenon DEF UpTo
<1> HIDE DEF sum
<1>8. \A age \in Window : sum[age] = r[age] + IF age = 0 THEN 0 ELSE sum[age - 1]
  BY <1>7, Zenon
<1> DEFINE D == {m \in Nat : m \in Window => sum[m] \in Nat}
<1>9. 0 \in D
  BY <1>1, <1>8
<1>10. ASSUME NEW m \in Nat, m \in D PROVE m + 1 \in D
  <2>1. ASSUME m + 1 \in Window PROVE sum[m + 1] \in Nat
    <3>1. m \in Window /\ (m + 1) - 1 = m /\ m + 1 # 0
      BY <1>1, <2>1
    <3>2. QED BY <1>1, <1>8, <1>10, <2>1, <3>1
  <2>2. QED BY <2>1
<1>11. \A age \in Window : sum[age] \in Nat
  BY <1>1, <1>9, <1>10, Induction
<1>12. QED BY <1>1, <1>8, <1>11 DEF sum

\* One fetch more now is at most one more up to any age.
LEMMA OneFetchMore ==
  ASSUME NEW r \in [Window -> Nat], NEW q \in [Window -> Nat],
         q[0] <= r[0] + 1, \A age \in Window : age # 0 => q[age] = r[age],
         NEW age \in Window
  PROVE  UpTo(q)[age] <= UpTo(r)[age] + 1
<1> DEFINE S == {m \in Nat : m \in Window => UpTo(q)[m] <= UpTo(r)[m] + 1}
<1>1. Window = 0..(Shortest - 1) /\ 0 \in Window /\ age \in Nat /\ Shortest \in Nat
  BY DelayFacts DEF Window
<1>2. 0 \in S
  BY <1>1, Sums
<1>3. ASSUME NEW m \in Nat, m \in S PROVE m + 1 \in S
  <2>1. ASSUME m + 1 \in Window PROVE UpTo(q)[m + 1] <= UpTo(r)[m + 1] + 1
    <3>1. m \in Window /\ (m + 1) - 1 = m /\ m + 1 # 0
      BY <1>1, <2>1
    <3>2. /\ UpTo(q)[m + 1] = q[m + 1] + UpTo(q)[m]
          /\ UpTo(r)[m + 1] = r[m + 1] + UpTo(r)[m]
          /\ UpTo(q)[m] \in Nat /\ UpTo(r)[m] \in Nat
          /\ q[m + 1] = r[m + 1] /\ r[m + 1] \in Nat
      BY <2>1, <3>1, Sums
    <3>3. QED BY <1>3, <3>1, <3>2
  <2>2. QED BY <2>1
<1>4. QED BY <1>1, <1>2, <1>3, Induction

\* Fetches that grow older by one tick.
LEMMA FetchesAge ==
  ASSUME NEW r \in [Window -> Nat], NEW q \in [Window -> Nat],
         q[0] = 0, \A age \in Window : age # 0 => q[age] = r[age - 1],
         NEW age \in Window
  PROVE  UpTo(q)[age] = IF age = 0 THEN 0 ELSE UpTo(r)[age - 1]
<1> DEFINE S == {m \in Nat : m \in Window =>
                   UpTo(q)[m] = IF m = 0 THEN 0 ELSE UpTo(r)[m - 1]}
<1>1. Window = 0..(Shortest - 1) /\ 0 \in Window /\ age \in Nat /\ Shortest \in Nat
  BY DelayFacts DEF Window
<1>2. 0 \in S
  BY <1>1, Sums
<1>3. ASSUME NEW m \in Nat, m \in S PROVE m + 1 \in S
  <2>1. ASSUME m + 1 \in Window PROVE UpTo(q)[m + 1] = UpTo(r)[m]
    <3>1. m \in Window /\ (m + 1) - 1 = m /\ m + 1 # 0
      BY <1>1, <2>1
    <3>2. /\ UpTo(q)[m + 1] = q[m + 1] + UpTo(q)[m]
          /\ UpTo(q)[m] \in Nat /\ UpTo(r)[m] \in Nat
          /\ q[m + 1] = r[m] /\ r[m] \in Nat
      BY <2>1, <3>1, Sums
    <3>3. CASE m = 0
      BY <1>3, <3>1, <3>2, <3>3, Sums
    <3>4. CASE m # 0
      <4>1. UpTo(r)[m] = r[m] + UpTo(r)[m - 1]
        BY <3>1, <3>4, Sums
      <4>2. UpTo(q)[m] = UpTo(r)[m - 1]
        BY <1>3, <3>1, <3>4
      <4>3. QED BY <3>2, <4>1, <4>2
    <3>5. QED BY <3>3, <3>4
  <2>2. (m + 1) - 1 = m /\ m + 1 # 0
    OBVIOUS
  <2>3. QED BY <2>1, <2>2
<1>4. QED BY <1>1, <1>2, <1>3, Induction

-----------------------------------------------------------------------------
(***************************************************************************)
(* How many fetches of a domain are begun within its shortest delay.       *)
(***************************************************************************)
Fetches(d, age) == UpTo(recent[d])[age]
Sleepers(d) == {c \in Crawlers : crawl[c].at = "sleeping" /\ Domain(c) = d}
\* Those that may wake up before the shortest delay is over, counted from a
\* moment so long ago.
Soon(d, age) == {c \in Sleepers(d) : crawl[c].nap + age < Shortest}

BurstTypes ==
  /\ crawl = [c \in Crawlers |-> crawl[c]]
  /\ \A c \in Crawlers : /\ {"at", "site", "nap"} \subseteq DOMAIN crawl[c]
                         /\ crawl[c].site \in Domains /\ crawl[c].nap \in Nat
  /\ sinceCall \in [Domains -> Nat]
  /\ recent \in [Domains -> [Window -> Nat]]

\* From a moment on whose call is not yet made, only those fetch that slept
\* then.  The first call since adds one; whoever calls later sleeps until the
\* shortest delay after that moment is over.
BurstInv ==
  /\ BurstTypes
  /\ \A d \in Domains, age \in Window :
       /\ sinceCall[d] > age =>
            Fetches(d, age) + Cardinality(Sleepers(d)) <= Cardinality(Crawlers)
       /\ Fetches(d, age) + Cardinality(Soon(d, age)) <= Cardinality(Crawlers) + 1

LEMMA BurstFacts ==
  ASSUME BurstTypes, NEW d \in Domains, NEW age \in Window
  PROVE  /\ age \in Nat /\ age < Shortest /\ Shortest \in Nat
         /\ Fetches(d, age) \in Nat /\ sinceCall[d] \in Nat
         /\ IsFiniteSet(Crawlers) /\ Cardinality(Crawlers) \in Nat
         /\ \A S \in SUBSET Crawlers : /\ IsFiniteSet(S) /\ Cardinality(S) \in Nat
                                       /\ Cardinality(S) <= Cardinality(Crawlers)
<1>1. age \in Nat /\ age < Shortest /\ Shortest \in Nat
  BY DelayFacts DEF Window
<1>2. Fetches(d, age) \in Nat /\ sinceCall[d] \in Nat
  BY Sums DEF BurstTypes, Fetches
<1>3. IsFiniteSet(Crawlers) /\ Cardinality(Crawlers) \in Nat
  BY CrawlAssumption, FS_CardinalityType
<1>4. ASSUME NEW S \in SUBSET Crawlers
      PROVE  /\ IsFiniteSet(S) /\ Cardinality(S) \in Nat
             /\ Cardinality(S) <= Cardinality(Crawlers)
  BY <1>3, FS_Subset, FS_CardinalityType
<1>5. QED BY <1>1, <1>2, <1>3, <1>4

\* A step of a crawler that is not asleep and does not fall asleep.
LEMMA AwakeBurst ==
  ASSUME BurstInv, NEW c \in Crawlers, BurstTypes',
         \A x \in Crawlers \ {c} : crawl'[x] = crawl[x],
         crawl[c].at # "sleeping", crawl'[c].at # "sleeping",
         UNCHANGED <<sinceCall, recent>>
  PROVE  BurstInv'
<1>1. \A x \in Crawlers : crawl[x].at = "sleeping" \/ crawl'[x].at = "sleeping"
                          => crawl'[x] = crawl[x]
  OBVIOUS
<1>2. ASSUME NEW d \in Domains, NEW age \in Window
      PROVE  /\ Sleepers(d)' = Sleepers(d) /\ Soon(d, age)' = Soon(d, age)
             /\ Fetches(d, age)' = Fetches(d, age)
  <2>1. Sleepers(d)' = Sleepers(d)
    BY <1>1 DEF Sleepers, Domain
  <2>2. Soon(d, age)' = Soon(d, age)
    BY <1>1, <2>1 DEF Soon, Sleepers
  <2>3. QED BY <2>1, <2>2 DEF Fetches
<1>3. QED BY <1>2 DEF BurstInv

\* RateLimiter.wait(): the sleep is as long as the last call asks for.
LEMMA WaitBurst ==
  ASSUME BurstInv, NEW c \in Crawlers, NEW delay \in PageDelays, Wait(c, delay)
  PROVE  BurstInv'
<1> DEFINE site == Domain(c)
           since == sinceCall[site]
<1>1. /\ site \in Domains /\ since \in Nat
      /\ delay \in Nat /\ Shortest <= delay /\ Shortest \in Nat
  BY DelayFacts DEF BurstInv, BurstTypes, Domain
<1>2. /\ crawl[c].at = "calling" /\ crawl'[c].at = "sleeping" /\ crawl'[c].site = site
      /\ crawl'[c].nap = IF since < delay THEN delay - since ELSE 0
      /\ {"at", "site", "nap"} \subseteq DOMAIN crawl'[c]
      /\ \A x \in Crawlers \ {c} : crawl'[x] = crawl[x]
      /\ crawl' = [x \in Crawlers |-> crawl'[x]]
      /\ sinceCall' = [sinceCall EXCEPT ![site] = 0] /\ recent' = recent
  BY DEF Wait, BurstInv, BurstTypes, Domain
<1> HIDE DEF site
<1>3. BurstTypes'
  BY <1>1, <1>2 DEF BurstInv, BurstTypes
<1>4. ASSUME NEW d \in Domains, NEW age \in Window
      PROVE  /\ (sinceCall[d] > age =>
                   Fetches(d, age) + Cardinality(Sleepers(d)) <= Cardinality(Crawlers))'
             /\ (Fetches(d, age) + Cardinality(Soon(d, age)) <= Cardinality(Crawlers) + 1)'
  <2>1. /\ sinceCall[d] > age =>
             Fetches(d, age) + Cardinality(Sleepers(d)) <= Cardinality(Crawlers)
        /\ Fetches(d, age) + Cardinality(Soon(d, age)) <= Cardinality(Crawlers) + 1
        /\ BurstTypes /\ sinceCall \in [Domains -> Nat]
    BY DEF BurstInv, BurstTypes
  <2>2. /\ age \in Nat /\ age < Shortest
        /\ Fetches(d, age) \in Nat /\ sinceCall[d] \in Nat /\ Cardinality(Crawlers) \in Nat
        /\ \A S \in SUBSET Crawlers : IsFiniteSet(S) /\ Cardinality(S) \in Nat
    BY <2>1, BurstFacts
  <2>3. Fetches(d, age)' = Fetches(d, age)
    BY <1>2 DEF Fetches
  <2>4. CASE d # site
    <3>1. Sleepers(d)' = Sleepers(d)
      BY <1>2, <2>4 DEF Sleepers, Domain
    <3>2. Soon(d, age)' = Soon(d, age)
      BY <1>2, <2>4, <3>1 DEF Soon, Sleepers, Domain
    <3>3. sinceCall'[d] = sinceCall[d]
      BY <1>2, <2>1, <2>4
    <3>4. QED BY <2>1, <2>3, <3>1, <3>2, <3>3
  <2>5. CASE d = site
    <3>1. ~(sinceCall'[d] > age)
      BY <1>1, <1>2, <2>1, <2>2, <2>5
    <3>2. Sleepers(d)' \subseteq Sleepers(d) \cup {c} /\ Sleepers(d) \subseteq Crawlers
      BY <1>2 DEF Sleepers, Domain
    <3>3. CASE since > age
      <4>1. Soon(d, age)' \in SUBSET (Sleepers(d) \cup {c})
        BY <3>2 DEF Soon
      <4>2. Sleepers(d) \in SUBSET Crawlers /\ Sleepers(d) \cup {c} \in SUBSET Crawlers
        BY <3>2
      <4>3. Cardinality(Sleepers(d) \cup {c}) <= Cardinality(Sleepers(d)) + 1
        BY <2>2, <4>2, FS_AddElement
      <4>4. Cardinality(Soon(d, age)') <= Cardinality(Sleepers(d) \cup {c})
        BY <2>2, <4>1, <4>2, FS_Subset
      <4>5. Soon(d, age)' \in SUBSET Crawlers
        BY <4>1, <4>2
      <4>6. /\ Cardinality(Sleepers(d) \cup {c}) \in Nat /\ Cardinality(Sleepers(d)) \in Nat
            /\ Cardinality(Soon(d, age)') \in Nat
        BY <2>2, <4>2, <4>5
      <4>7. Fetches(d, age) + Cardinality(Sleepers(d)) <= Cardinality(Crawlers)
        BY <2>1, <2>5, <3>3
      <4>8. Fetches(d, age) + Cardinality(Soon(d, age)') <= Cardinality(Crawlers) + 1
        BY <2>2, <4>3, <4>4, <4>6, <4>7
      <4>9. QED BY <2>3, <3>1, <4>8
    <3>4. CASE ~(since > age)
      <4>1. ~(crawl'[c].nap + age < Shortest)
        BY <1>1, <1>2, <2>2, <3>4
      <4>2. Soon(d, age)' = Soon(d, age)
        BY <1>2, <4>1 DEF Soon, Sleepers, Domain
      <4>3. QED BY <2>1, <2>3, <3>1, <4>2
    <3>5. QED BY <3>3, <3>4
  <2>6. QED BY <2>4, <2>5
<1>5. QED BY <1>3, <1>4 DEF BurstInv

\* A crawler wakes up and fetches: one sleeper less, one fetch more.
LEMMA FetchBurst ==
  ASSUME BurstInv, NEW c \in Crawlers, FetchPage(c)
  PROVE  BurstInv'
<1> DEFINE site == Domain(c)
<1>1. site \in Domains /\ Window = 0..(Shortest - 1) /\ 0 \in Window /\ Most \in Nat
  BY DelayFacts, CrawlAssumption, FS_CardinalityType DEF BurstInv, BurstTypes, Domain, Window, Most
<1>2. /\ crawl[c].at = "sleeping" /\ crawl[c].nap = 0
      /\ crawl'[c].at = "fetching" /\ crawl'[c].site = site /\ crawl'[c].nap = 0
      /\ {"at", "site", "nap"} \subseteq DOMAIN crawl'[c]
      /\ \A x \in Crawlers \ {c} : crawl'[x] = crawl[x]
      /\ crawl' = [x \in Crawlers |-> crawl'[x]]
      /\ sinceCall' = sinceCall
  BY DEF FetchPage, BurstInv, BurstTypes, Domain
<1>3. /\ recent \in [Domains -> [Window -> Nat]]
      /\ recent' = [recent EXCEPT ![site][0] = IF @ < Most THEN @ + 1 ELSE @]
  BY DEF FetchPage, BurstInv, BurstTypes
<1> HIDE DEF site
<1>4. /\ recent' \in [Domains -> [Window -> Nat]]
      /\ \A d \in Domains : d # site => recent'[d] = recent[d]
      /\ recent'[site][0] <= recent[site][0] + 1
      /\ \A age \in Window : age # 0 => recent'[site][age] = recent[site][age]
  <2> DEFINE r == recent[site]
             n == IF r[0] < Most THEN r[0] + 1 ELSE r[0]
  <2>1. recent' = [recent EXCEPT ![site] = [r EXCEPT ![0] = n]]
    BY <1>3
  <2>2. r \in [Window -> Nat] /\ r[0] \in Nat
    BY <1>1, <1>3
  <2>3. n \in Nat /\ n <= r[0] + 1
    BY <1>1, <2>2
  <2> HIDE DEF n
  <2>4. /\ [r EXCEPT ![0] = n] \in [Window -> Nat]
        /\ [r EXCEPT ![0] = n][0] = n
        /\ \A age \in Window : age # 0 => [r EXCEPT ![0] = n][age] = r[age]
    BY <1>1, <2>2, <2>3
  <2>5. recent'[site] = [r EXCEPT ![0] = n]
    BY <1>1, <1>3, <2>1
  <2>6. recent' \in [Domains -> [Window -> Nat]]
    BY <1>1, <1>3, <2>1, <2>4
  <2>7. QED BY <1>3, <2>1, <2>3, <2>4, <2>5, <2>6
<1>5. BurstTypes'
  BY <1>1, <1>2, <1>4 DEF BurstInv, BurstTypes
<1>6. ASSUME NEW d \in Domains, NEW age \in Window
      PROVE  /\ (sinceCall[d] > age =>
                   Fetches(d, age) + Cardinality(Sleepers(d)) <= Cardinality(Crawlers))'
             /\ (Fetches(d, age) + Cardinality(Soon(d, age)) <= Cardinality(Crawlers) + 1)'
  <2>1. /\ sinceCall[d] > age =>
             Fetches(d, age) + Cardinality(Sleepers(d)) <= Cardinality(Crawlers)
        /\ Fetches(d, age) + Cardinality(Soon(d, age)) <= Cardinality(Crawlers) + 1
        /\ BurstTypes
    BY DEF BurstInv
  <2>2. /\ age \in Nat /\ age < Shortest /\ Shortest \in Nat
        /\ Fetches(d, age) \in Nat /\ Cardinality(Crawlers) \in Nat
        /\ \A S \in SUBSET Crawlers : IsFiniteSet(S) /\ Cardinality(S) \in Nat
    BY <2>1, BurstFacts
  <2>3. CASE d # site
    <3>1. Sleepers(d)' = Sleepers(d)
      BY <1>2, <2>3 DEF Sleepers, Domain, site
    <3>2. Soon(d, age)' = Soon(d, age)
      BY <1>2, <2>3, <3>1 DEF Soon, Sleepers, Domain, site
    <3>3. Fetches(d, age)' = Fetches(d, age)
      BY <1>4, <2>3 DEF Fetches
    <3>4. QED BY <1>2, <2>1, <3>1, <3>2, <3>3
  <2>4. CASE d = site
    <3>1. /\ c \in Sleepers(d) /\ Sleepers(d)' = Sleepers(d) \ {c}
          /\ Sleepers(d) \in SUBSET Crawlers
      BY <1>2, <2>4 DEF Sleepers, Domain, site
    <3>2. /\ c \in Soon(d, age) /\ Soon(d, age)' = Soon(d, age) \ {c}
          /\ Soon(d, age) \in SUBSET Crawlers
      BY <1>2, <2>2, <3>1 DEF Soon, Sleepers
    <3>3. Fetches(d, age)' <= Fetches(d, age) + 1
      <4>1. recent[d] \in [Window -> Nat] /\ recent'[d] \in [Window -> Nat]
        BY <1>3, <1>4
      <4>2. UpTo(recent'[d])[age] <= UpTo(recent[d])[age] + 1
        BY <1>4, <2>4, <4>1, OneFetchMore
      <4>3. QED BY <4>2 DEF Fetches
    <3>4. Fetches(d, age)' \in Nat
      BY <1>4, Sums DEF Fetches
    <3>5. /\ Cardinality(Sleepers(d)') = Cardinality(Sleepers(d)) - 1
          /\ Cardinality(Soon(d, age)') = Cardinality(Soon(d, age)) - 1
          /\ Cardinality(Sleepers(d)) \in Nat /\ Cardinality(Soon(d, age)) \in Nat
      BY <2>2, <3>1, <3>2, FS_RemoveElement
    <3>6. QED BY <1>2, <2>1, <2>2, <3>3, <3>4, <3>5
  <2>5. QED BY <2>3, <2>4
<1>7. QED BY <1>5, <1>6 DEF BurstInv

\* Sleeps get shorter and fetches older by one tick.
LEMMA TickBurst ==
  ASSUME BurstInv, CrawlTick
  PROVE  BurstInv'
<1>1. Shortest \in Nat \ {0} /\ Longest \in Nat /\ Window = 0..(Shortest - 1) /\ 0 \in Window
  BY DelayFacts DEF Window
<1>2. ASSUME NEW c \in Crawlers
      PROVE  /\ crawl'[c].at = crawl[c].at /\ crawl'[c].site = crawl[c].site
             /\ crawl'[c].nap = IF crawl[c].nap > 0 THEN crawl[c].nap - 1 ELSE 0
             /\ {"at", "site", "nap"} \subseteq DOMAIN crawl'[c]
             /\ crawl[c].nap \in Nat
  BY DEF CrawlTick, BurstInv, BurstTypes
<1>3. crawl' = [c \in Crawlers |-> crawl'[c]]
  BY DEF CrawlTick
<1>4. /\ sinceCall \in [Domains -> Nat] /\ sinceCall' \in [Domains -> Nat]
      /\ \A d \in Domains : sinceCall'[d] = IF sinceCall[d] < Longest THEN sinceCall[d] + 1
                                            ELSE Longest
  BY <1>1 DEF CrawlTick, BurstInv, BurstTypes
<1>5. /\ recent \in [Domains -> [Window -> Nat]] /\ recent' \in [Domains -> [Window -> Nat]]
      /\ \A d \in Domains : /\ recent'[d][0] = 0
                            /\ \A age \in Window : age # 0 => recent'[d][age] = recent[d][age - 1]
  <2>1. /\ recent \in [Domains -> [Window -> Nat]]
        /\ recent' = [d \in Domains |->
                        [age \in Window |-> IF age = 0 THEN 0 ELSE recent[d][age - 1]]]
    BY DEF CrawlTick, BurstInv, BurstTypes
  <2>2. \A age \in Window : age # 0 => age - 1 \in Window
    BY <1>1
  <2>3. QED BY <1>1, <2>1, <2>2
<1>6. BurstTypes'
  BY <1>2, <1>3, <1>4, <1>5 DEF BurstInv, BurstTypes
<1>7. ASSUME NEW d \in Domains, NEW age \in Window
      PROVE  /\ (sinceCall[d] > age =>
                   Fetches(d, age) + Cardinality(Sleepers(d)) <= Cardinality(Crawlers))'
             /\ (Fetches(d, age) + Cardinality(Soon(d, age)) <= Cardinality(Crawlers) + 1)'
  <2>1. BurstTypes
    BY DEF BurstInv
  <2>2. /\ age \in Nat /\ age < Shortest
        /\ Cardinality(Crawlers) \in Nat
        /\ \A S \in SUBSET Crawlers : /\ IsFiniteSet(S) /\ Cardinality(S) \in Nat
                                      /\ Cardinality(S) <= Cardinality(Crawlers)
    BY <2>1, BurstFacts
  <2>3. Sleepers(d)' = Sleepers(d) /\ Sleepers(d) \in SUBSET Crawlers
    BY <1>2 DEF Sleepers, Domain
  <2>4. Soon(d, age)' \in SUBSET Crawlers
    BY <2>3 DEF Soon
  <2>5. Fetches(d, age)' = IF age = 0 THEN 0 ELSE Fetches(d, age - 1)
    BY <1>5, FetchesAge DEF Fetches
  <2>6. CASE age = 0
    <3>1. Fetches(d, age)' = 0
      BY <2>5, <2>6
    <3>2. QED BY <2>2, <2>3, <2>4, <3>1
  <2>7. CASE age # 0
    <3>1. age - 1 \in Window /\ age - 1 \in Nat
      BY <1>1, <2>7
    <3>2. /\ sinceCall[d] > age - 1 =>
               Fetches(d, age - 1) + Cardinality(Sleepers(d)) <= Cardinality(Crawlers)
          /\ Fetches(d, age - 1) + Cardinality(Soon(d, age - 1)) <= Cardinality(Crawlers) + 1
          /\ Fetches(d, age - 1) \in Nat
      BY <2>1, <3>1, BurstFacts DEF BurstInv
    <3>3. sinceCall'[d] > age => sinceCall[d] > age - 1
      BY <1>1, <1>4, <2>2
    <3>4. Soon(d, age)' \subseteq Soon(d, age - 1)
      BY <1>1, <1>2, <2>2, <2>3 DEF Soon, Sleepers
    <3>5. /\ Soon(d, age - 1) \in SUBSET Crawlers
          /\ Cardinality(Soon(d, age)') <= Cardinality(Soon(d, age - 1))
      <4>1. Soon(d, age - 1) \in SUBSET Crawlers
        BY <2>3 DEF Soon
      <4>2. QED BY <2>2, <3>4, <4>1, FS_Subset
    <3>6. /\ Cardinality(Soon(d, age)') \in Nat /\ Cardinality(Soon(d, age - 1)) \in Nat
          /\ Cardinality(Sleepers(d)) \in Nat
      BY <2>2, <2>3, <2>4, <3>5
    <3>7. QED BY <2>2, <2>3, <2>5, <2>7, <3>2, <3>3, <3>5, <3>6
  <2>8. QED BY <2>6, <2>7
<1>8. QED BY <1>6, <1>7 DEF BurstInv

LEMMA CrawlStepBurst ==
  ASSUME BurstInv, NEW c \in Crawlers, CrawlStep(c)
  PROVE  BurstInv'
<1> DEFINE Awake == /\ BurstTypes'
                    /\ \A x \in Crawlers \ {c} : crawl'[x] = crawl[x]
                    /\ crawl[c].at # "sleeping" /\ crawl'[c].at # "sleeping"
                    /\ UNCHANGED <<sinceCall, recent>>
<1>1. ASSUME NEW d \in Domains, BeginCrawl(c, d) PROVE Awake
  BY <1>1, CrawlAssumption DEF BeginCrawl, BurstInv, BurstTypes
<1>2. ASSUME KnownRobots(c) PROVE Awake
  BY <1>2 DEF KnownRobots, MayEnter, BurstInv, BurstTypes
<1>3. ASSUME AskRobots(c) PROVE Awake
  BY <1>3 DEF AskRobots, BurstInv, BurstTypes
<1>4. ASSUME RobotsAnswer(c) PROVE Awake
  BY <1>4 DEF RobotsAnswer, MayEnter, BurstInv, BurstTypes
<1>5. ASSUME NextPage(c) \/ EndCrawl(c) PROVE Awake
  BY <1>5 DEF NextPage, EndCrawl, BurstInv, BurstTypes
<1>6. Awake => BurstInv'
  BY AwakeBurst
<1> HIDE DEF Awake
<1>7. QED BY <1>1, <1>2, <1>3, <1>4, <1>5, <1>6, WaitBurst, FetchBurst DEF CrawlStep

LEMMA InitBurst == Init => BurstInv
<1> SUFFICES ASSUME CrawlInit PROVE BurstInv
  BY DEF Init
<1>1. BurstTypes
  BY DelayFacts DEF CrawlInit, Away, BurstTypes
<1>2. ASSUME NEW d \in Domains, NEW age \in Window
      PROVE  Fetches(d, age) = 0 /\ Sleepers(d) = {} /\ Soon(d, age) = {}
  <2>1. recent[d] = [a \in Window |-> 0] /\ recent[d] \in [Window -> Nat]
    BY DEF CrawlInit
  <2>2. Fetches(d, age) = 0
    <3> DEFINE S == {m \in Nat : m \in Window => UpTo(recent[d])[m] = 0}
    <3>1. Window = 0..(Shortest - 1) /\ 0 \in Window /\ Shortest \in Nat /\ age \in Nat
      BY DelayFacts DEF Window
    <3>2. 0 \in S
      BY <2>1, <3>1, Sums
    <3>3. ASSUME NEW m \in Nat, m \in S PROVE m + 1 \in S
      <4>1. ASSUME m + 1 \in Window PROVE UpTo(recent[d])[m + 1] = 0
        <5>1. m \in Window /\ (m + 1) - 1 = m /\ m + 1 # 0
          BY <3>1, <4>1
        <5>2. UpTo(recent[d])[m + 1] = recent[d][m + 1] + UpTo(recent[d])[m]
          BY <2>1, <4>1, <5>1, Sums
        <5>3. QED BY <2>1, <3>3, <4>1, <5>1, <5>2
      <4>2. QED BY <4>1
    <3>4. QED BY <3>1, <3>2, <3>3, Induction DEF Fetches
  <2>3. Sleepers(d) = {}
    BY DEF CrawlInit, Away, Sleepers
  <2>4. QED BY <2>2, <2>3 DEF Soon
<1>3. QED BY <1>1, <1>2, BurstFacts, FS_EmptySet DEF BurstInv

\* For any number of crawlers and domains and any page delays: within the
\* shortest delay the crawls of a domain begin at most one fetch each and one
\* more (RateLimiter.wait() records the time of the call and sleeps without
\* the lock).
THEOREM BurstsAreBounded == Spec => []BurstBounded
<1>1. BurstInv /\ [Next]_vars => BurstInv'
  <2> SUFFICES ASSUME BurstInv, [Next]_vars PROVE BurstInv'
    OBVIOUS
  <2>1. CASE Tick
    BY <2>1, TickBurst DEF Tick
  <2>2. ASSUME NEW w \in Workers, RunCrawlJob(w) PROVE BurstInv'
    BY <2>2, CrawlStepBurst, SamePool DEF RunCrawlJob
  <2>3. CASE UNCHANGED crawlVars
    BY <2>3 DEF crawlVars, robotsVars, BurstInv, BurstTypes, Fetches, Sleepers, Soon, Domain
  <2>4. QED BY <2>1, <2>2, <2>3 DEF Next, vars, RunLLMJob
<1>2. BurstInv => BurstBounded
  <2> SUFFICES ASSUME BurstInv, NEW d \in Domains
               PROVE  UpTo(recent[d])[Shortest - 1] <= Cardinality(Crawlers) + 1
    BY DEF BurstBounded
  <2> DEFINE age == Shortest - 1
  <2>1. age \in Window
    BY DelayFacts DEF Window
  <2> HIDE DEF age
  <2>2. /\ Fetches(d, age) + Cardinality(Soon(d, age)) <= Cardinality(Crawlers) + 1
        /\ Soon(d, age) \in SUBSET Crawlers /\ BurstTypes
    BY <2>1 DEF BurstInv, Soon, Sleepers
  <2>3. /\ Fetches(d, age) \in Nat /\ Cardinality(Crawlers) \in Nat
        /\ Cardinality(Soon(d, age)) \in Nat
    BY <2>1, <2>2, BurstFacts
  <2>4. Fetches(d, age) <= Cardinality(Crawlers) + 1
    BY <2>2, <2>3
  <2>5. QED BY <2>4 DEF Fetches, age
<1>3. QED BY <1>1, <1>2, InitBurst, PTL DEF Spec
=============================================================================
