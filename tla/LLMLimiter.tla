----------------------------- MODULE LLMLimiter -----------------------------
(***************************************************************************)
(* How the worker pool spaces its LLM jobs (app/worker.py): a semaphore    *)
(* around every LLM job and, inside it, WorkerPool._apply_rate_limit(),    *)
(* which keeps a minimum delay and a token bucket under one asyncio lock.  *)
(*                                                                         *)
(* The lock is held through both sleeps.  Semaphore and lock serve their   *)
(* waiters in the order of arrival, so one line stands for both: its first *)
(* MaxConcurrent members hold the semaphore.                               *)
(*                                                                         *)
(* Time is counted in ticks.  A token is worth TokenTime ticks, the time   *)
(* in which the bucket gains one (60 / requests_per_minute seconds), and   *)
(* the bucket is measured in ticks.  Instants are kept as ages; an age     *)
(* saturates where it makes no difference any more, and "never" is as good *)
(* as long ago.                                                            *)
(***************************************************************************)
EXTENDS Integers, Sequences

CONSTANTS
  Workers,
  NoWorker,
  MaxConcurrent,   \* max_concurrent_llm
  MinDelay,        \* llm_request_delay
  PerMinute,       \* llm_requests_per_minute, 0 for no limit
  TokenTime        \* ticks in which one token is gained

ASSUME LimiterAssumption ==
  /\ MaxConcurrent \in Nat \ {0}
  /\ MinDelay \in Nat
  /\ PerMinute \in Nat
  /\ TokenTime \in Nat \ {0}
  /\ NoWorker \notin Workers

VARIABLES
  line,           \* the workers with an LLM job, in order of arrival
  at,             \* how far each of them has got
  nap,            \* what is left of each worker's sleep
  lock,           \* _request_lock
  tokens,         \* _token_bucket, in ticks
  sinceRefill,    \* age of _last_token_refill
  sinceRequest,   \* age of _last_llm_request_time
  allowance       \* history: a bucket that is filled twice as fast, with room
                  \* for one token more; it may be overdrawn

clockVars == <<nap, sinceRefill, sinceRequest, allowance>>
limiterVars == <<line, at, lock, tokens, clockVars>>

Capacity == PerMinute * TokenTime
Least(a, b) == IF a <= b THEN a ELSE b

Places == {"away", "queued", "delayed", "starved", "calling"}

\* The part of the type invariant that the proofs are about.
LimiterFields ==
  /\ at \in [Workers -> Places]
  /\ nap \in [Workers -> Nat]
  /\ lock \in Workers \cup {NoWorker}
  /\ tokens \in 0..Capacity
  /\ sinceRefill \in 0..Capacity
  /\ sinceRequest \in 0..MinDelay
  /\ allowance \in Int

LimiterTypeOK ==
  /\ LimiterFields
  /\ line \in Seq(Workers)
  /\ \A w \in Workers :
       nap[w] <= (IF MinDelay > TokenTime THEN MinDelay ELSE TokenTime)

LimiterInit ==
  /\ line = <<>>
  /\ at = [w \in Workers |-> "away"]
  /\ nap = [w \in Workers |-> 0]
  /\ lock = NoWorker
  /\ tokens = Capacity
  /\ sinceRefill = 0
  /\ sinceRequest = MinDelay
  /\ allowance = Capacity + TokenTime

-----------------------------------------------------------------------------
Join(w) ==
  /\ at[w] = "away"
  /\ line' = Append(line, w)
  /\ at' = [at EXCEPT ![w] = "queued"]
  /\ UNCHANGED <<lock, tokens, clockVars>>

\* mutant: the last to arrive goes first
MutFirst(w) ==
  \E i \in 1..Len(line) :
    /\ line[i] = w
    /\ i <= MaxConcurrent
    /\ \A k \in (i + 1)..Len(line) : k <= MaxConcurrent => at[line[k]] # "queued"

\* The semaphore has a place for w, and nobody has waited longer for the lock.
First(w) ==
  \E i \in 1..Len(line) :
    /\ line[i] = w
    /\ i <= MaxConcurrent
    /\ \A k \in 1..(i - 1) : at[line[k]] # "queued"

MyTurn(w) == at[w] = "queued" /\ lock = NoWorker /\ First(w)

TooSoon == sinceRequest < MinDelay

\* mutant: the lock is not kept while sleeping
MutAwaitDelay(w) ==
  /\ MyTurn(w)
  /\ TooSoon
  /\ lock' = lock
  /\ at' = [at EXCEPT ![w] = "delayed"]
  /\ nap' = [nap EXCEPT ![w] = MinDelay - sinceRequest]
  /\ UNCHANGED <<line, tokens, sinceRefill, sinceRequest, allowance>>

AwaitDelay(w) ==
  /\ MyTurn(w)
  /\ TooSoon
  /\ lock' = w
  /\ at' = [at EXCEPT ![w] = "delayed"]
  /\ nap' = [nap EXCEPT ![w] = MinDelay - sinceRequest]
  /\ UNCHANGED <<line, tokens, sinceRefill, sinceRequest, allowance>>

\* The delay has been kept, by waiting or without.
DelayKept(w) ==
  \/ MyTurn(w) /\ ~TooSoon
  \/ at[w] = "delayed" /\ nap[w] = 0

Refilled == Least(Capacity, tokens + sinceRefill)

\* With PerMinute = 0 the bucket is left alone.
Limited == PerMinute > 0

\* What every job start does: note the time, leave the lock.
Start(w) ==
  /\ lock' = NoWorker
  /\ at' = [at EXCEPT ![w] = "calling"]
  /\ sinceRequest' = 0
  /\ allowance' = IF Limited THEN allowance - TokenTime ELSE allowance

\* mutant: _last_token_refill stays where it was
MutTakeToken(w) ==
  /\ DelayKept(w)
  /\ Limited => Refilled >= TokenTime
  /\ tokens' = IF Limited THEN Refilled - TokenTime ELSE tokens
  /\ sinceRefill' = sinceRefill
  /\ Start(w)
  /\ UNCHANGED <<line, nap>>

TakeToken(w) ==
  /\ DelayKept(w)
  /\ Limited => Refilled >= TokenTime
  /\ tokens' = IF Limited THEN Refilled - TokenTime ELSE tokens
  /\ sinceRefill' = IF Limited THEN 0 ELSE sinceRefill
  /\ Start(w)
  /\ UNCHANGED <<line, nap>>

AwaitToken(w) ==
  /\ DelayKept(w)
  /\ Limited /\ Refilled < TokenTime
  /\ lock' = w
  /\ at' = [at EXCEPT ![w] = "starved"]
  /\ nap' = [nap EXCEPT ![w] = TokenTime - Refilled]
  /\ tokens' = Refilled
  /\ sinceRefill' = 0
  /\ UNCHANGED <<line, sinceRequest, allowance>>

\* The bucket is set to one token, which is taken.  _last_token_refill stays
\* at the time before the sleep, so the next refill counts the sleep again.
TokenArrives(w) ==
  /\ at[w] = "starved" /\ nap[w] = 0
  /\ tokens' = 0
  /\ Start(w)
  /\ UNCHANGED <<line, nap, sinceRefill>>

\* The job function returns or raises; the semaphore is released.
Finish(w) ==
  /\ at[w] = "calling"
  /\ line' = SelectSeq(line, LAMBDA v : v # w)
  /\ at' = [at EXCEPT ![w] = "away"]
  /\ UNCHANGED <<lock, tokens, clockVars>>

\* A sleep may last longer than asked for: time passes for a nap that is over.
LimiterTick ==
  /\ nap' = [w \in Workers |-> IF nap[w] > 0 THEN nap[w] - 1 ELSE 0]
  /\ sinceRefill' = Least(Capacity, sinceRefill + 1)
  /\ sinceRequest' = Least(MinDelay, sinceRequest + 1)
  /\ allowance' = Least(Capacity + TokenTime, allowance + 2)
  /\ UNCHANGED <<line, at, lock, tokens>>

Proceed(w) == AwaitDelay(w) \/ TakeToken(w) \/ AwaitToken(w) \/ TokenArrives(w)

LimiterStep(w) == Join(w) \/ Proceed(w) \/ Finish(w)

LimiterNext == LimiterTick \/ \E w \in Workers : LimiterStep(w)

LimiterSpec == LimiterInit /\ [][LimiterNext]_limiterVars

-----------------------------------------------------------------------------
(***************************************************************************)
(* Properties                                                              *)
(***************************************************************************)
Starts(w) == at[w] # "calling" /\ at'[w] = "calling"

\* Two LLM jobs of the pool never start within the minimum delay, whichever
\* workers run them and however they waited (worker.py, step 1).
DelayBetweenStarts ==
  [][\A w \in Workers : Starts(w) => sinceRequest = MinDelay]_limiterVars

\* The pool never exceeds twice its configured rate, after a burst of one full
\* bucket and one token: every wait for a token is counted once as the token it
\* ends with and once as time since the last refill, never more often.
AtMostTwiceTheRate == Limited => allowance >= 0

\* Every LLM job that waits for semaphore, delay and token starts in the end.
EveryJobStarts == \A w \in Workers : (at[w] = "queued") ~> (at[w] = "calling")
=============================================================================
