------------------------------ MODULE JobQueue ------------------------------
(***************************************************************************)
(* The Redis-backed job queue (app/services/job_queue.py), the request     *)
(* handlers that fill it and the worker loop that empties it               *)
(* (WorkerPool._worker in app/worker.py).  Redis executes each command     *)
(* atomically; a method of the queue is several commands, so every await   *)
(* between two commands is a place where other processes run, or where     *)
(* this one stops.                                                         *)
(*                                                                         *)
(* Redis holds a hash job:<id> per job, the sorted set job_queue of        *)
(* waiting ids and the counter job_id_counter.  What a job does is left    *)
(* open here: it succeeds or fails.                                        *)
(***************************************************************************)
EXTENDS Integers, FiniteSets

CONSTANTS
  Workers,      \* the tasks of the worker pool
  Clients,      \* processes that enqueue: request handlers, crawl jobs
  Types,        \* the job types in use, a subset of AllTypes
  MaxAttempts,  \* max_attempts, 3 unless a caller says otherwise
  MaxJobs,      \* bound: jobs ever enqueued
  MaxLosses,    \* bound: processes that stop between two commands
  MaxClears     \* bound: administrative clearings of Redis

AllTypes == {"crawl", "extract", "validate", "normalize", "translate", "generate"}

ASSUME QueueAssumption ==
  /\ MaxAttempts \in Nat \ {0}
  /\ MaxJobs \in Nat
  /\ MaxLosses \in Nat
  /\ MaxClears \in Nat
  /\ Types \subseteq AllTypes

\* The priorities that callers of enqueue() give the jobs of a type, and its
\* defaults: the bulk endpoints translate at 20, the translation of a single
\* profile is queued at 30.
Priorities(type) ==
  CASE type = "crawl" -> {100}
    [] type = "extract" -> {50}
    [] type = "validate" -> {45}
    [] type = "normalize" -> {30}
    [] type = "translate" -> {20, 30}
    [] type = "generate" -> {10}
Given == UNION {Priorities(type) : type \in Types}

VARIABLES
  job,             \* job:<id>, the stored hashes
  job_queue,       \* the sorted set: the priority of each waiting id
  job_id_counter,
  client,          \* where each client is in enqueue()
  worker,          \* where each worker is in its loop
  clearing,        \* where clear_stuck_jobs() is
  created,         \* jobs enqueued so far: the serial number of the last one
  runs,            \* how often each job, by serial number, was marked running
  losses, clears

redis == <<job, job_queue, job_id_counter>>
history == <<created, runs, losses, clears>>
vars == <<redis, client, worker, clearing, history>>

Ids == 1..MaxJobs
Serials == 1..MaxJobs
NotQueued == -1
Stored == 0..100              \* 0 where there is none
Scores == {NotQueued} \cup Stored

\* A hash is absent, complete, or partial: a status written by mark_*() on a
\* hash that had been deleted.  `serial' tells apart jobs that reuse an id.
NoHash == [kind |-> "absent", status |-> "none", attempts |-> 0,
           priority |-> 0, serial |-> 0]
Hashes == [kind : {"absent", "partial", "full"},
           status : {"none", "pending", "running", "completed", "failed"},
           attempts : Nat,
           priority : Stored,
           serial : {0} \cup Serials]

\* What a process remembers between two commands.
Idle == [pc |-> "idle", id |-> 0, serial |-> 0, priority |-> 0, attempts |-> 0]
Locals(pcs) == [pc : pcs, id : {0} \cup Ids, serial : {0} \cup Serials,
                priority : Stored, attempts : Nat]
ClientPCs == {"idle", "hset", "zadd"}
WorkerPCs == {"idle", "popped", "loaded", "running", "retrying", "requeue"}

TypeOK ==
  /\ job \in [Ids -> Hashes]
  /\ job_queue \in [Ids -> Scores]
  /\ job_id_counter \in 0..MaxJobs
  /\ client \in [Clients -> Locals(ClientPCs)]
  /\ worker \in [Workers -> Locals(WorkerPCs)]
  /\ clearing \in [step : 0..3, keys : SUBSET Ids]
  /\ created \in 0..MaxJobs
  /\ runs \in [Serials -> Nat]
  /\ losses \in 0..MaxLosses
  /\ clears \in 0..MaxClears

NotClearing == [step |-> 0, keys |-> {}]

Init ==
  /\ job = [i \in Ids |-> NoHash]
  /\ job_queue = [i \in Ids |-> NotQueued]
  /\ job_id_counter = 0
  /\ client = [c \in Clients |-> Idle]
  /\ worker = [w \in Workers |-> Idle]
  /\ clearing = NotClearing
  /\ created = 0
  /\ runs = [s \in Serials |-> 0]
  /\ losses = 0
  /\ clears = 0

-----------------------------------------------------------------------------
(***************************************************************************)
(* The commands                                                            *)
(***************************************************************************)

\* HSET of status fields: on a deleted hash it creates a partial one.
HSetStatus(i, status, attempts) ==
  job' = [job EXCEPT ![i] =
            [@ EXCEPT !.kind = IF job[i].kind = "absent" THEN "partial" ELSE job[i].kind,
                      !.status = status,
                      !.attempts = attempts]]

ZAdd(i, priority) == job_queue' = [job_queue EXCEPT ![i] = priority]

\* BZPOPMIN on negated scores takes a highest priority.  Equal scores are
\* ordered by the id as text, which is no order worth relying on.
Queued == {i \in Ids : job_queue[i] # NotQueued}
First(i) == i \in Queued /\ \A k \in Queued : job_queue[k] <= job_queue[i]

-----------------------------------------------------------------------------
(***************************************************************************)
(* enqueue(): INCR, then HSET of the whole hash, then ZADD.                *)
(***************************************************************************)
NextId(c, priority) ==
  /\ client[c].pc = "idle"
  /\ created < MaxJobs
  /\ created' = created + 1
  /\ job_id_counter' = job_id_counter + 1
  /\ client' = [client EXCEPT ![c] = [pc |-> "hset", id |-> job_id_counter + 1,
                  serial |-> created + 1, priority |-> priority, attempts |-> 0]]
  /\ UNCHANGED <<job, job_queue, worker, clearing, runs, losses, clears>>

StoreJob(c) ==
  /\ client[c].pc = "hset"
  /\ job' = [job EXCEPT ![client[c].id] =
               [kind |-> "full", status |-> "pending", attempts |-> 0,
                priority |-> client[c].priority, serial |-> client[c].serial]]
  /\ client' = [client EXCEPT ![c].pc = "zadd"]
  /\ UNCHANGED <<job_queue, job_id_counter, worker, clearing, history>>

QueueJob(c) ==
  /\ client[c].pc = "zadd"
  /\ ZAdd(client[c].id, client[c].priority)
  /\ client' = [client EXCEPT ![c] = Idle]
  /\ UNCHANGED <<job, job_id_counter, worker, clearing, history>>

-----------------------------------------------------------------------------
(***************************************************************************)
(* get_next_job(): BZPOPMIN, then HGETALL.  A missing hash yields no job,  *)
(* a partial one makes from_dict() raise; either way the worker goes on    *)
(* with the next id.                                                       *)
(***************************************************************************)
\* mutant: the first entry is read, and removed only by mark_running
MutPop(w, i) ==
  /\ worker[w].pc = "idle"
  /\ First(i)
  /\ worker' = [worker EXCEPT ![w] = [Idle EXCEPT !.pc = "popped", !.id = i]]
  /\ UNCHANGED <<redis, client, clearing, history>>

Pop(w, i) ==
  /\ worker[w].pc = "idle"
  /\ First(i)
  /\ ZAdd(i, NotQueued)
  /\ worker' = [worker EXCEPT ![w] = [Idle EXCEPT !.pc = "popped", !.id = i]]
  /\ UNCHANGED <<job, job_id_counter, client, clearing, history>>

Load(w) ==
  LET hash == job[worker[w].id] IN
  /\ worker[w].pc = "popped"
  /\ worker' = [worker EXCEPT ![w] =
       IF hash.kind = "full"
       THEN [@ EXCEPT !.pc = "loaded", !.serial = hash.serial, !.priority = hash.priority]
       ELSE Idle]
  /\ UNCHANGED <<redis, client, clearing, history>>

MarkRunning(w) ==
  LET i == worker[w].id IN
  /\ worker[w].pc = "loaded"
  /\ HSetStatus(i, "running", job[i].attempts)
  /\ worker' = [worker EXCEPT ![w].pc = "running"]
  /\ runs' = [runs EXCEPT ![worker[w].serial] = @ + 1]
  /\ UNCHANGED <<job_queue, job_id_counter, client, clearing, created, losses, clears>>

\* _process_job() returned True.
MarkCompleted(w) ==
  LET i == worker[w].id IN
  /\ worker[w].pc = "running"
  /\ HSetStatus(i, "completed", job[i].attempts)
  /\ worker' = [worker EXCEPT ![w] = Idle]
  /\ UNCHANGED <<job_queue, job_id_counter, client, clearing, history>>

-----------------------------------------------------------------------------
(***************************************************************************)
(* _process_job() returned False: mark_failed() is HGETALL, HSET and, for  *)
(* a retry, ZADD ten below the job's priority.  On a missing or partial    *)
(* hash from_dict() raises and nothing is recorded.                        *)
(***************************************************************************)
FailLoad(w) ==
  LET hash == job[worker[w].id] IN
  /\ worker[w].pc = "running"
  /\ worker' = [worker EXCEPT ![w] =
       IF hash.kind = "full"
       THEN [@ EXCEPT !.pc = "retrying", !.attempts = hash.attempts, !.priority = hash.priority]
       ELSE Idle]
  /\ UNCHANGED <<redis, client, clearing, history>>

\* mutant: one try too many
MutMayRetry(w) == worker[w].attempts + 1 <= MaxAttempts
MayRetry(w) == worker[w].attempts + 1 < MaxAttempts

FailStore(w) ==
  /\ worker[w].pc = "retrying"
  /\ HSetStatus(worker[w].id, IF MayRetry(w) THEN "pending" ELSE "failed",
                worker[w].attempts + 1)
  /\ worker' = [worker EXCEPT ![w] =
                  IF MayRetry(w) THEN [@ EXCEPT !.pc = "requeue"] ELSE Idle]
  /\ UNCHANGED <<job_queue, job_id_counter, client, clearing, history>>

\* mutant: the retry keeps its place in the queue
MutRetryPriority(priority) == priority
RetryPriority(priority) == priority - 10

\* mutant: the retry is never queued again
MutRequeue(w) ==
  /\ worker[w].pc = "requeue"
  /\ worker' = [worker EXCEPT ![w] = Idle]
  /\ UNCHANGED <<redis, client, clearing, history>>

Requeue(w) ==
  /\ worker[w].pc = "requeue"
  /\ ZAdd(worker[w].id, RetryPriority(worker[w].priority))
  /\ worker' = [worker EXCEPT ![w] = Idle]
  /\ UNCHANGED <<job, job_id_counter, client, clearing, history>>

-----------------------------------------------------------------------------
(***************************************************************************)
(* Processes stop: the worker pool is cancelled or killed, a Redis command *)
(* raises and the worker loop drops the job, a request is aborted inside   *)
(* enqueue().  Nothing puts the job back.                                  *)
(***************************************************************************)
LoseWorker(w) ==
  /\ worker[w].pc # "idle"
  /\ losses < MaxLosses
  /\ losses' = losses + 1
  /\ worker' = [worker EXCEPT ![w] = Idle]
  /\ UNCHANGED <<redis, client, clearing, created, runs, clears>>

LoseClient(c) ==
  /\ client[c].pc # "idle"
  /\ losses < MaxLosses
  /\ losses' = losses + 1
  /\ client' = [client EXCEPT ![c] = Idle]
  /\ UNCHANGED <<redis, worker, clearing, created, runs, clears>>

-----------------------------------------------------------------------------
(***************************************************************************)
(* Clearing Redis while the system runs.  clear_stuck_jobs() is KEYS, DEL  *)
(* of those keys, DEL of the queue and SET of the counter; clear_redis()   *)
(* and factory_reset() are one FLUSHDB.                                    *)
(***************************************************************************)
ClearKeys ==
  /\ clearing.step = 0
  /\ clears < MaxClears
  /\ clears' = clears + 1
  /\ clearing' = [step |-> 1, keys |-> {i \in Ids : job[i].kind # "absent"}]
  /\ UNCHANGED <<redis, client, worker, created, runs, losses>>

ClearHashes ==
  /\ clearing.step = 1
  /\ job' = [i \in Ids |-> IF i \in clearing.keys THEN NoHash ELSE job[i]]
  /\ clearing' = [step |-> 2, keys |-> {}]
  /\ UNCHANGED <<job_queue, job_id_counter, client, worker, history>>

ClearQueue ==
  /\ clearing.step = 2
  /\ job_queue' = [i \in Ids |-> NotQueued]
  /\ clearing' = [clearing EXCEPT !.step = 3]
  /\ UNCHANGED <<job, job_id_counter, client, worker, history>>

ClearCounter ==
  /\ clearing.step = 3
  /\ job_id_counter' = 0
  /\ clearing' = NotClearing
  /\ UNCHANGED <<job, job_queue, client, worker, history>>

FlushDb ==
  /\ clears < MaxClears
  /\ clears' = clears + 1
  /\ job' = [i \in Ids |-> NoHash]
  /\ job_queue' = [i \in Ids |-> NotQueued]
  /\ job_id_counter' = 0
  /\ UNCHANGED <<client, worker, clearing, created, runs, losses>>

-----------------------------------------------------------------------------
ClientStep(c) == StoreJob(c) \/ QueueJob(c)
PopNext(w) == \E i \in Ids : Pop(w, i)
WorkerStep(w) ==
  \/ PopNext(w)
  \/ Load(w)
  \/ MarkRunning(w)
  \/ MarkCompleted(w)
  \/ FailLoad(w)
  \/ FailStore(w)
  \/ Requeue(w)

Next ==
  \/ \E c \in Clients :
       \/ \E priority \in Given : NextId(c, priority)
       \/ StoreJob(c)
       \/ QueueJob(c)
       \/ LoseClient(c)
  \/ \E w \in Workers :
       \/ \E i \in Ids : Pop(w, i)
       \/ Load(w)
       \/ MarkRunning(w)
       \/ MarkCompleted(w)
       \/ FailLoad(w)
       \/ FailStore(w)
       \/ Requeue(w)
       \/ LoseWorker(w)
  \/ ClearKeys
  \/ ClearHashes
  \/ ClearQueue
  \/ ClearCounter
  \/ FlushDb

Spec == Init /\ [][Next]_vars

\* A started enqueue() and a running worker loop go on unless they are lost;
\* every job eventually returns a result (its LLM and HTTP calls time out).
Fairness ==
  /\ \A c \in Clients : WF_vars(ClientStep(c))
  /\ \A w \in Workers : WF_vars(WorkerStep(w))

FairSpec == Spec /\ Fairness

-----------------------------------------------------------------------------
(***************************************************************************)
(* Properties                                                              *)
(***************************************************************************)
Holds(w, i) == worker[w].pc # "idle" /\ worker[w].id = i
Fills(c, i) == client[c].pc # "idle" /\ client[c].id = i
IsHeld(i) == \E w \in Workers : Holds(w, i)
IsFilled(i) == \E c \in Clients : Fills(c, i)
IsQueued(i) == job_queue[i] # NotQueued
Settled(i) == job[i].status \in {"completed", "failed"}

\* An id is in one pair of hands at a time: in the sorted set, with one
\* worker, or with the client that is still enqueuing it.  So no job is ever
\* processed by two workers at once.
OneHolder ==
  clears = 0 =>
    \A i \in Ids :
      /\ \A v, w \in Workers : Holds(v, i) /\ Holds(w, i) => v = w
      /\ \A c, d \in Clients : Fills(c, i) /\ Fills(d, i) => c = d
      /\ ~(IsHeld(i) /\ IsQueued(i))
      /\ IsFilled(i) => ~IsHeld(i) /\ ~IsQueued(i)

\* No job is marked running more than max_attempts times, however often
\* workers are lost in between.
AtMostMaxAttempts == clears = 0 => \A s \in Serials : runs[s] <= MaxAttempts

\* As long as no process is lost and Redis is not cleared, a job recorded as
\* pending or running is waiting, with a worker, or still being enqueued.
Accounted ==
  losses = 0 /\ clears = 0 =>
    \A i \in Ids : job[i].status \in {"pending", "running"} =>
                    IsQueued(i) \/ IsHeld(i) \/ IsFilled(i)

\* A job that is retried never goes before fresh work that was given the same
\* priority or a higher one, whatever its type: a worker takes a second try
\* only when every job waiting for its first try was given a lower priority.
\* (A retry may go before fresh work of a lower priority, and with equal
\* places, as of a retried single translation and a fresh bulk one, it may.)
FreshBeforeRetry ==
  [][ \A i \in Ids :
        (IsQueued(i) /\ ~IsQueued(i)' /\ clears' = 0 /\ job[i].attempts > 0) =>
          \A k \in Queued :
            job[k].attempts = 0 => job[k].priority < job[i].priority ]_vars

\* Every enqueued job is eventually completed or has failed max_attempts
\* times, unless a process is lost or Redis cleared.
EveryJobSettles ==
  \A i \in Ids :
    job[i].status = "pending" ~> (Settled(i) \/ losses > 0 \/ clears > 0)

(***************************************************************************)
(* Refinement: the queue delivers jobs as JobDelivery says.                *)
(***************************************************************************)
PhaseOf(i) ==
  IF IsQueued(i) THEN "waiting"
  ELSE IF IsHeld(i) THEN "taken"
  ELSE IF IsFilled(i) \/ i > job_id_counter THEN "absent"
  ELSE IF Settled(i) THEN job[i].status
  ELSE "lost"

\* Between the HSET and the ZADD of a retry the try is already counted.
TriesOf(i) ==
  IF \E w \in Workers : Holds(w, i) /\ worker[w].pc = "requeue"
  THEN job[i].attempts - 1 ELSE job[i].attempts

Delivery == INSTANCE JobDelivery WITH
  Jobs <- Ids,
  phase <- [i \in Ids |-> PhaseOf(i)],
  tries <- [i \in Ids |-> TriesOf(i)]

\* Until Redis is cleared, what becomes of a job is what JobDelivery allows:
\* submitted once, taken by one worker at a time, tried at most max_attempts
\* times, lost only with the process that holds it.
DeliversAsPromised ==
  /\ Delivery!DInit
  /\ [][clears' = 0 => Delivery!DNext]_(Delivery!dvars)

(***************************************************************************)
(* A statement of the source that the code does not keep                   *)
(***************************************************************************)

\* job_queue.py:34 and :46: a job carries its own status history.  A worker
\* that records an outcome records it on the job it ran.
OwnHistory ==
  [][ \A w \in Workers :
        (/\ worker[w].pc = "running" /\ worker'[w].pc = "idle" /\ job' # job
         /\ job[worker[w].id].kind = "full") =>
          job[worker[w].id].serial = worker[w].serial ]_vars
=============================================================================
