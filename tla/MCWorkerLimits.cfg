\* Three tasks, two semaphore places, a bucket of one token worth three
\* ticks, a delay of one tick between jobs and two between pages.
CONSTANTS
  Workers = {w1, w2, w3}
  Crawlers = {w1, w2, w3}
  NoWorker = NoWorker
  MaxConcurrent = 2
  MinDelay = 1
  PerMinute = 1
  TokenTime = 3
  Domains = {d1}
  PageDelays = {2}
  RespectRobots = TRUE
SPECIFICATION FairSpec
INVARIANTS
  RobotsReadOnce
  AtMostTwiceTheRate
  BurstBounded
PROPERTIES
  DelayBetweenStarts
  EveryJobStarts
