---------------------------- MODULE CrawlLimiter ----------------------------
(***************************************************************************)
(* How the crawler spaces the pages it fetches (app/services/              *)
(* crawler_service.py): can_crawl() once, then RateLimiter.wait() before   *)
(* the main page and before each subpage.  One crawler service, with its   *)
(* limiter and its cache of robots.txt, serves all workers.                *)
(*                                                                         *)
(* The lock of wait() is released before the sleep, and what is recorded   *)
(* for the domain is the time of the call, not of the fetch that follows.  *)
(* The lock of can_crawl() is held while robots.txt is fetched, which no   *)
(* limiter spaces.                                                         *)
(***************************************************************************)
EXTENDS Integers, FiniteSets, FiniteSetsExt

CONSTANTS
  Crawlers,
  Domains,
  PageDelays,    \* 1 / rate_limit of the sources, in ticks
  RespectRobots  \* settings.crawler_respect_robots

ASSUME CrawlAssumption ==
  /\ IsFiniteSet(Crawlers)
  /\ IsFiniteSet(PageDelays) /\ PageDelays # {}
  /\ PageDelays \subseteq Nat \ {0}
  /\ RespectRobots \in BOOLEAN

VARIABLES
  crawl,       \* what each crawler does: the domain, where it is, its sleep
  sinceCall,   \* age of last_request[domain]
  known,       \* domains in _robots_cache
  asker,       \* holds _robots_lock
  recent       \* history: fetches begun, per domain of the crawl and age

robotsVars == <<known, asker>>
crawlVars == <<crawl, sinceCall, robotsVars, recent>>

Shortest == Min(PageDelays)
Longest == Max(PageDelays)
Window == 0..(Shortest - 1)

\* Counts are of no interest past what the property forbids.
Most == Cardinality(Crawlers) + 2

CrawlTypeOK ==
  /\ crawl \in [Crawlers -> [at : {"away", "robots", "asking", "calling",
                                  "sleeping", "fetching"},
                             site : Domains, nap : 0..Longest]]
  /\ sinceCall \in [Domains -> 0..Longest]
  /\ known \subseteq Domains
  /\ asker \in SUBSET Crawlers
  /\ recent \in [Domains -> [Window -> 0..Most]]

Away(d) == [at |-> "away", site |-> d, nap |-> 0]

CrawlInit ==
  /\ crawl \in [Crawlers -> {Away(d) : d \in Domains}]
  /\ sinceCall = [d \in Domains |-> Longest]
  /\ known = {}
  /\ asker = {}
  /\ recent = [d \in Domains |-> [a \in Window |-> 0]]

-----------------------------------------------------------------------------
Domain(c) == crawl[c].site

\* crawl_url() has found the domain.
BeginCrawl(c, d) ==
  /\ crawl[c].at = "away"
  /\ crawl' = [crawl EXCEPT ![c] =
       [at |-> IF RespectRobots THEN "robots" ELSE "calling", site |-> d, nap |-> 0]]
  /\ UNCHANGED <<sinceCall, robotsVars, recent>>

\* The rules allow the page or the crawl ends here.
MayEnter(c) ==
  \E next \in {"calling", "away"} : crawl' = [crawl EXCEPT ![c].at = next]

\* can_crawl() with the rules in the cache.
KnownRobots(c) ==
  /\ crawl[c].at = "robots"
  /\ asker = {}
  /\ Domain(c) \in known
  /\ MayEnter(c)
  /\ UNCHANGED <<sinceCall, robotsVars, recent>>

\* mutant: the lock is not held while robots.txt is fetched
MutAskRobots(c) ==
  /\ crawl[c].at = "robots"
  /\ asker = {}
  /\ Domain(c) \notin known
  /\ crawl' = [crawl EXCEPT ![c].at = "asking"]
  /\ UNCHANGED <<sinceCall, robotsVars, recent>>

AskRobots(c) ==
  /\ crawl[c].at = "robots"
  /\ asker = {}
  /\ Domain(c) \notin known
  /\ asker' = {c}
  /\ crawl' = [crawl EXCEPT ![c].at = "asking"]
  /\ UNCHANGED <<sinceCall, known, recent>>

\* Only a file that is found is kept; without one, or after an error,
\* everything is allowed and the next crawl asks again.
RobotsAnswer(c) ==
  /\ crawl[c].at = "asking"
  /\ asker' = {}
  /\ \/ /\ known' = known \cup {Domain(c)}
        /\ MayEnter(c)
     \/ /\ known' = known
        /\ crawl' = [crawl EXCEPT ![c].at = "calling"]
  /\ UNCHANGED <<sinceCall, recent>>

\* mutant: only the first request of a domain is recorded
MutWait(c, delay) ==
  /\ crawl[c].at = "calling"
  /\ crawl' = [crawl EXCEPT ![c].at = "sleeping",
                            ![c].nap = IF sinceCall[Domain(c)] < delay
                                       THEN delay - sinceCall[Domain(c)] ELSE 0]
  /\ UNCHANGED <<sinceCall, robotsVars, recent>>

\* RateLimiter.wait(): how long to sleep is decided under the lock.
Wait(c, delay) ==
  /\ crawl[c].at = "calling"
  /\ crawl' = [crawl EXCEPT ![c].at = "sleeping",
                            ![c].nap = IF sinceCall[Domain(c)] < delay
                                       THEN delay - sinceCall[Domain(c)] ELSE 0]
  /\ sinceCall' = [sinceCall EXCEPT ![Domain(c)] = 0]
  /\ UNCHANGED <<robotsVars, recent>>

FetchPage(c) ==
  /\ crawl[c].at = "sleeping" /\ crawl[c].nap = 0
  /\ crawl' = [crawl EXCEPT ![c].at = "fetching"]
  /\ recent' = [recent EXCEPT ![Domain(c)][0] = IF @ < Most THEN @ + 1 ELSE @]
  /\ UNCHANGED <<sinceCall, robotsVars>>

\* One more subpage.  A link of the main page stays on its domain; one of the
\* additional_urls may lead elsewhere and is spaced as if it did not.
NextPage(c) ==
  /\ crawl[c].at = "fetching"
  /\ crawl' = [crawl EXCEPT ![c].at = "calling"]
  /\ UNCHANGED <<sinceCall, robotsVars, recent>>

\* No page is left, or the main page could not be fetched.
EndCrawl(c) ==
  /\ crawl[c].at = "fetching"
  /\ crawl' = [crawl EXCEPT ![c].at = "away"]
  /\ UNCHANGED <<sinceCall, robotsVars, recent>>

CrawlTick ==
  /\ crawl' = [c \in Crawlers |->
                 [crawl[c] EXCEPT !.nap = IF @ > 0 THEN @ - 1 ELSE 0]]
  /\ sinceCall' = [d \in Domains |->
                     IF sinceCall[d] < Longest THEN sinceCall[d] + 1 ELSE Longest]
  /\ recent' = [d \in Domains |->
                  [a \in Window |-> IF a = 0 THEN 0 ELSE recent[d][a - 1]]]
  /\ UNCHANGED robotsVars

CrawlStep(c) ==
  \/ \E d \in Domains : BeginCrawl(c, d)
  \/ KnownRobots(c) \/ AskRobots(c) \/ RobotsAnswer(c)
  \/ \E delay \in PageDelays : Wait(c, delay)
  \/ FetchPage(c)
  \/ NextPage(c)
  \/ EndCrawl(c)

-----------------------------------------------------------------------------
(***************************************************************************)
(* Properties                                                              *)
(***************************************************************************)
\* The fetches of a history that are of an age or younger.
UpTo(fetches) ==
  LET sum[age \in Window] == fetches[age] + IF age = 0 THEN 0 ELSE sum[age - 1]
  IN sum

\* Within the shortest page delay the crawls of a domain begin at most one
\* fetch per crawler that was asleep when it began, and one more: of all calls
\* of wait() made since, only the first may be answered at once.
BurstBounded ==
  \A d \in Domains : UpTo(recent[d])[Shortest - 1] <= Cardinality(Crawlers) + 1

\* A robots.txt that was read is never fetched again, however many crawls of
\* the domain ask at the same time: whoever fetches it holds the lock under
\* which it was found missing from the cache.
RobotsReadOnce ==
  \A c \in Crawlers :
    crawl[c].at = "asking" => Domain(c) \notin known /\ asker = {c}
=============================================================================
