---------------------------- MODULE WorkerLimits ----------------------------
(***************************************************************************)
(* The tasks of a worker pool under both limiters: a task runs an LLM job  *)
(* under the semaphore and the pool's limiter, or a crawl job under the    *)
(* crawler's (WorkerPool._worker() in app/worker.py).  Both limiters read  *)
(* the same clock.                                                         *)
(***************************************************************************)
EXTENDS LLMLimiter, CrawlLimiter

ASSUME SamePool == Crawlers = Workers

vars == <<limiterVars, crawlVars>>

TypeOK ==
  /\ LimiterTypeOK
  /\ CrawlTypeOK
  /\ \A w \in Workers : at[w] = "away" \/ crawl[w].at = "away"

Init == LimiterInit /\ CrawlInit

RunLLMJob(w) ==
  /\ crawl[w].at = "away"
  /\ LimiterStep(w)
  /\ UNCHANGED crawlVars

RunCrawlJob(w) ==
  /\ at[w] = "away"
  /\ CrawlStep(w)
  /\ UNCHANGED limiterVars

Tick == LimiterTick /\ CrawlTick

Next == Tick \/ \E w \in Workers : RunLLMJob(w) \/ RunCrawlJob(w)

Spec == Init /\ [][Next]_vars

\* Sleeps end, calls return because the HTTP clients have timeouts.
Fairness ==
  /\ WF_vars(Tick)
  /\ \A w \in Workers : WF_vars((Proceed(w) \/ Finish(w)) /\ UNCHANGED crawlVars)

FairSpec == Spec /\ Fairness
=============================================================================
