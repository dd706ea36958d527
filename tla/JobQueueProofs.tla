--------------------------- MODULE JobQueueProofs ---------------------------
(***************************************************************************)
(* Proofs about the job queue, for any number of workers, clients, jobs,   *)
(* lost processes and clearings of Redis.                                  *)
(***************************************************************************)
EXTENDS JobQueue, TLAPS

\* What a process remembers of a job, and what a complete hash says of it, is
\* a job; the counter never runs ahead of the jobs enqueued.
RealPriorities == 10..100

HandsInv ==
  /\ job_id_counter <= created
  /\ \A i \in Ids : job[i].kind = "full" =>
       job[i].serial \in Serials /\ job[i].priority \in RealPriorities
  /\ \A c \in Clients : client[c].pc # "idle" =>
       /\ client[c].id \in Ids
       /\ client[c].serial \in Serials
       /\ client[c].priority \in RealPriorities
  /\ \A w \in Workers : worker[w].pc # "idle" =>
       /\ worker[w].id \in Ids
       /\ worker[w].pc # "popped" =>
            worker[w].serial \in Serials /\ worker[w].priority \in RealPriorities

TypeInv == TypeOK /\ HandsInv

-----------------------------------------------------------------------------
(***************************************************************************)
(* Types                                                                   *)
(***************************************************************************)
\* Every priority a caller gives leaves room below it for a retry.
LEMMA GivenFacts == Given \subseteq RealPriorities
BY QueueAssumption DEF Given, Priorities, AllTypes, RealPriorities

LEMMA PriorityFacts ==
  ASSUME NEW priority \in RealPriorities
  PROVE  /\ priority \in Scores /\ priority # NotQueued
         /\ RetryPriority(priority) \in Scores /\ RetryPriority(priority) # NotQueued
         /\ priority \in Stored
BY DEF RealPriorities, RetryPriority, Scores, Stored, NotQueued

LEMMA StoredFacts == 0 \in Stored /\ NotQueued \in Scores
BY DEF Stored, Scores, NotQueued

\* The initial states are well typed.
LEMMA InitTypes == Init => TypeInv
BY QueueAssumption, StoredFacts
   DEF Init, TypeInv, TypeOK, HandsInv, Hashes, Locals, ClientPCs, WorkerPCs,
       NoHash, Idle, NotClearing, Ids, Serials

\* The steps of enqueue() keep the types.
LEMMA ClientTypes ==
  ASSUME TypeInv, NEW c \in Clients,
         (\E priority \in Given : NextId(c, priority)) \/ StoreJob(c) \/ QueueJob(c) \/ LoseClient(c)
  PROVE  TypeInv'
<1> USE QueueAssumption, StoredFacts DEF TypeInv
<1>1. ASSUME NEW priority \in Given, NextId(c, priority) PROVE TypeInv'
  <2>1. /\ priority \in RealPriorities /\ priority \in Stored
        /\ job_id_counter + 1 \in Ids /\ created + 1 \in Serials
    BY <1>1, GivenFacts, PriorityFacts DEF NextId, TypeOK, HandsInv, Ids, Serials
  <2>2. TypeOK'
    BY <1>1, <2>1 DEF NextId, TypeOK, Ids, Serials, Locals, ClientPCs
  <2>3. HandsInv'
    BY <1>1, <2>1 DEF NextId, TypeOK, HandsInv, Locals
  <2>4. QED BY <2>2, <2>3
<1>2. CASE StoreJob(c)
  <2>1. /\ client[c].id \in Ids /\ client[c].serial \in Serials
        /\ client[c].priority \in RealPriorities /\ client[c].priority \in Stored
    BY <1>2, PriorityFacts DEF StoreJob, HandsInv
  <2>2. TypeOK'
    BY <1>2, <2>1 DEF StoreJob, TypeOK, Hashes, Locals, ClientPCs, history
  <2>3. HandsInv'
    BY <1>2, <2>1 DEF StoreJob, TypeOK, HandsInv, Hashes, Locals, history
  <2>4. QED BY <2>2, <2>3
<1>3. CASE QueueJob(c)
  <2>1. client[c].id \in Ids /\ client[c].priority \in Scores
    BY <1>3, PriorityFacts DEF QueueJob, HandsInv
  <2>2. TypeOK'
    BY <1>3, <2>1 DEF QueueJob, ZAdd, TypeOK, Locals, ClientPCs, Idle, history
  <2>3. HandsInv'
    BY <1>3, <2>1 DEF QueueJob, TypeOK, HandsInv, Locals, Idle, history
  <2>4. QED BY <2>2, <2>3
<1>4. CASE LoseClient(c)
  <2>1. TypeOK'
    BY <1>4 DEF LoseClient, TypeOK, Locals, ClientPCs, Idle, redis
  <2>2. HandsInv'
    BY <1>4 DEF LoseClient, TypeOK, HandsInv, Locals, Idle, redis
  <2>3. QED BY <2>1, <2>2
<1>5. QED BY <1>1, <1>2, <1>3, <1>4

\* A status field changes nothing else of its hash, and no other hash.
LEMMA HSetFacts ==
  ASSUME TypeInv, NEW i \in Ids, NEW status \in {"pending", "running", "completed", "failed"},
         NEW attempts \in Nat, HSetStatus(i, status, attempts)
  PROVE  /\ job' \in [Ids -> Hashes]
         /\ \A k \in Ids : /\ job'[k].kind = "full" <=> job[k].kind = "full"
                           /\ job'[k].priority = job[k].priority
                           /\ job'[k].serial = job[k].serial
                           /\ k # i => job'[k] = job[k]
         /\ job'[i].status = status
         /\ job'[i].attempts = attempts
<1>1. job \in [Ids -> Hashes] /\ job[i] \in Hashes
  BY DEF TypeInv, TypeOK
<1> DEFINE kind == IF job[i].kind = "absent" THEN "partial" ELSE job[i].kind
           hash == [job[i] EXCEPT !.kind = kind, !.status = status, !.attempts = attempts]
<1>2. job' = [job EXCEPT ![i] = hash]
  BY DEF HSetStatus
<1>3. /\ hash \in Hashes
      /\ hash.kind = "full" <=> job[i].kind = "full"
      /\ hash.priority = job[i].priority
      /\ hash.serial = job[i].serial
      /\ hash.status = status
      /\ hash.attempts = attempts
  BY <1>1 DEF Hashes
<1> HIDE DEF hash
<1>4. QED BY <1>1, <1>2, <1>3

\* What a worker becomes when it takes from a hash what it says of the job.
LEMMA HeldFacts ==
  ASSUME TypeInv, NEW w \in Workers, worker[w].pc # "idle"
  PROVE  /\ worker[w].id \in Ids
         /\ job[worker[w].id] \in Hashes
         /\ worker[w] \in Locals(WorkerPCs)
         /\ job[worker[w].id].attempts \in Nat
         /\ worker[w].attempts \in Nat
BY DEF TypeInv, TypeOK, HandsInv, Locals, Hashes

\* The steps of the worker loop keep the types.
LEMMA WorkerTypes ==
  ASSUME TypeInv, NEW w \in Workers, WorkerStep(w) \/ LoseWorker(w)
  PROVE  TypeInv'
<1> USE QueueAssumption, StoredFacts DEF TypeInv, history
<1>1. ASSUME NEW i \in Ids, Pop(w, i) PROVE TypeInv'
  <2>1. TypeOK'
    BY <1>1 DEF Pop, ZAdd, TypeOK, Locals, WorkerPCs, Idle
  <2>2. HandsInv'
    BY <1>1 DEF Pop, TypeOK, HandsInv, Locals, Idle
  <2>3. QED BY <2>1, <2>2
<1>2. CASE Load(w)
  <2> DEFINE hash == job[worker[w].id]
             next == IF hash.kind = "full"
                     THEN [worker[w] EXCEPT !.pc = "loaded", !.serial = hash.serial,
                                            !.priority = hash.priority]
                     ELSE Idle
  <2>1. /\ worker[w].id \in Ids /\ hash \in Hashes
        /\ worker[w] \in Locals(WorkerPCs)
    BY <1>2, HeldFacts DEF Load
  <2>2. next \in Locals(WorkerPCs)
    BY <2>1 DEF Hashes, Locals, WorkerPCs, Idle
  <2>3. next.pc # "idle" =>
          next.id \in Ids /\ next.serial \in Serials /\ next.priority \in RealPriorities
    BY <2>1 DEF HandsInv, Hashes, Locals, WorkerPCs, Idle
  <2>4. worker' = [worker EXCEPT ![w] = next]
    BY <1>2 DEF Load
  <2> HIDE DEF next
  <2>5. TypeOK'
    BY <1>2, <2>2, <2>4 DEF Load, TypeOK, redis
  <2>6. HandsInv'
    BY <1>2, <2>2, <2>3, <2>4 DEF Load, TypeOK, HandsInv, redis
  <2>7. QED BY <2>5, <2>6
<1>3. CASE MarkRunning(w)
  <2>1. worker[w].id \in Ids /\ worker[w].serial \in Serials
    BY <1>3 DEF MarkRunning, HandsInv
  <2>2. HSetStatus(worker[w].id, "running", job[worker[w].id].attempts)
    BY <1>3 DEF MarkRunning
  <2>3. job[worker[w].id].attempts \in Nat
    BY <1>3, HeldFacts DEF MarkRunning
  <2>4. /\ job' \in [Ids -> Hashes]
        /\ \A k \in Ids : /\ job'[k].kind = "full" <=> job[k].kind = "full"
                          /\ job'[k].priority = job[k].priority
                          /\ job'[k].serial = job[k].serial
    BY <2>1, <2>2, <2>3, HSetFacts
  <2>5. TypeOK'
    <3>1. runs' \in [Serials -> Nat]
      BY <1>3, <2>1 DEF MarkRunning, TypeOK
    <3>2. worker' \in [Workers -> Locals(WorkerPCs)]
      BY <1>3 DEF MarkRunning, TypeOK, Locals, WorkerPCs
    <3>3. QED BY <1>3, <2>4, <3>1, <3>2 DEF MarkRunning, TypeOK
  <2>6. HandsInv'
    <3>1. \A k \in Ids : job'[k].kind = "full" =>
            job'[k].serial \in Serials /\ job'[k].priority \in RealPriorities
      BY <2>4 DEF HandsInv
    <3>2. worker'[w] = [worker[w] EXCEPT !.pc = "running"]
          /\ \A v \in Workers \ {w} : worker'[v] = worker[v]
      BY <1>3 DEF MarkRunning, TypeOK
    <3>3. QED BY <1>3, <3>1, <3>2 DEF MarkRunning, TypeOK, HandsInv, Locals
  <2>7. QED BY <2>5, <2>6
<1>4. CASE MarkCompleted(w)
  <2>1. worker[w].id \in Ids /\ job[worker[w].id].attempts \in Nat
    BY <1>4, HeldFacts DEF MarkCompleted
  <2>2. HSetStatus(worker[w].id, "completed", job[worker[w].id].attempts)
    BY <1>4 DEF MarkCompleted
  <2>3. TypeOK'
    BY <1>4, <2>1, <2>2, HSetFacts DEF MarkCompleted, TypeOK, Locals, WorkerPCs, Idle
  <2>4. HandsInv'
    <3>1. \A k \in Ids : job'[k].kind = "full" =>
            job'[k].serial \in Serials /\ job'[k].priority \in RealPriorities
      BY <2>1, <2>2, HSetFacts DEF HandsInv
    <3>2. worker'[w] = Idle /\ \A v \in Workers \ {w} : worker'[v] = worker[v]
      BY <1>4 DEF MarkCompleted, TypeOK
    <3>3. QED BY <1>4, <3>1, <3>2 DEF MarkCompleted, HandsInv, Idle
  <2>5. QED BY <2>3, <2>4
<1>5. CASE FailLoad(w)
  <2> DEFINE hash == job[worker[w].id]
             next == IF hash.kind = "full"
                     THEN [worker[w] EXCEPT !.pc = "retrying", !.attempts = hash.attempts,
                                            !.priority = hash.priority]
                     ELSE Idle
  <2>1. /\ worker[w].id \in Ids /\ hash \in Hashes
        /\ worker[w] \in Locals(WorkerPCs)
        /\ worker[w].serial \in Serials
    BY <1>5, HeldFacts DEF FailLoad, HandsInv
  <2>2. next \in Locals(WorkerPCs)
    BY <2>1 DEF Hashes, Locals, WorkerPCs, Idle
  <2>3. next.pc # "idle" =>
          next.id \in Ids /\ next.serial \in Serials /\ next.priority \in RealPriorities
    BY <2>1 DEF HandsInv, Hashes, Locals, WorkerPCs, Idle
  <2>4. worker' = [worker EXCEPT ![w] = next]
    BY <1>5 DEF FailLoad
  <2> HIDE DEF next
  <2>5. TypeOK'
    BY <1>5, <2>2, <2>4 DEF FailLoad, TypeOK, redis
  <2>6. HandsInv'
    BY <1>5, <2>2, <2>3, <2>4 DEF FailLoad, TypeOK, HandsInv, redis
  <2>7. QED BY <2>5, <2>6
<1>6. CASE FailStore(w)
  <2> DEFINE status == IF MayRetry(w) THEN "pending" ELSE "failed"
  <2>1. worker[w].id \in Ids /\ worker[w].attempts + 1 \in Nat
    BY <1>6, HeldFacts DEF FailStore
  <2>2. status \in {"pending", "failed"}
    OBVIOUS
  <2>3. HSetStatus(worker[w].id, status, worker[w].attempts + 1)
    BY <1>6 DEF FailStore
  <2> HIDE DEF status
  <2>4. TypeOK'
    BY <1>6, <2>1, <2>2, <2>3, HSetFacts DEF FailStore, TypeOK, Locals, WorkerPCs, Idle
  <2>5. HandsInv'
    BY <1>6, <2>1, <2>2, <2>3, HSetFacts DEF FailStore, TypeOK, HandsInv, Locals, Idle
  <2>6. QED BY <2>4, <2>5
<1>7. CASE Requeue(w)
  <2>1. worker[w].id \in Ids /\ RetryPriority(worker[w].priority) \in Scores
    BY <1>7, PriorityFacts DEF Requeue, HandsInv
  <2>2. TypeOK'
    BY <1>7, <2>1 DEF Requeue, ZAdd, TypeOK, Locals, WorkerPCs, Idle
  <2>3. HandsInv'
    BY <1>7, <2>1 DEF Requeue, TypeOK, HandsInv, Locals, Idle
  <2>4. QED BY <2>2, <2>3
<1>8. CASE LoseWorker(w)
  <2>1. TypeOK'
    BY <1>8 DEF LoseWorker, TypeOK, Locals, WorkerPCs, Idle, redis
  <2>2. HandsInv'
    BY <1>8 DEF LoseWorker, TypeOK, HandsInv, Locals, Idle, redis
  <2>3. QED BY <2>1, <2>2
<1>9. QED BY <1>1, <1>2, <1>3, <1>4, <1>5, <1>6, <1>7, <1>8 DEF WorkerStep, PopNext

Clearing == ClearKeys \/ ClearHashes \/ ClearQueue \/ ClearCounter \/ FlushDb

\* Clearing Redis keeps the types.
LEMMA ClearTypes ==
  ASSUME TypeInv, Clearing
  PROVE  TypeInv'
<1> USE QueueAssumption DEF TypeInv, history, redis
<1>1. CASE ClearKeys
  BY <1>1 DEF ClearKeys, TypeOK, HandsInv
<1>2. CASE ClearHashes
  <2>1. TypeOK'
    BY <1>2, StoredFacts DEF ClearHashes, TypeOK, Hashes, NoHash
  <2>2. HandsInv'
    BY <1>2 DEF ClearHashes, TypeOK, HandsInv, NoHash
  <2>3. QED BY <2>1, <2>2
<1>3. CASE ClearQueue
  BY <1>3, StoredFacts DEF ClearQueue, TypeOK, HandsInv
<1>4. CASE ClearCounter
  BY <1>4 DEF ClearCounter, TypeOK, HandsInv, NotClearing
<1>5. CASE FlushDb
  <2>1. TypeOK'
    BY <1>5, StoredFacts DEF FlushDb, TypeOK, Hashes, NoHash
  <2>2. HandsInv'
    BY <1>5 DEF FlushDb, TypeOK, HandsInv, NoHash
  <2>3. QED BY <2>1, <2>2
<1>6. QED BY <1>1, <1>2, <1>3, <1>4, <1>5 DEF Clearing

\* Next, by who takes the step.
LEMMA NextCases ==
  Next => \/ \E c \in Clients : \/ \E priority \in Given : NextId(c, priority)
                                \/ StoreJob(c) \/ QueueJob(c) \/ LoseClient(c)
          \/ \E w \in Workers : WorkerStep(w) \/ LoseWorker(w)
          \/ Clearing
BY DEF Next, WorkerStep, PopNext, Clearing

\* Every step keeps the types.
LEMMA NextTypes == TypeInv /\ [Next]_vars => TypeInv'
<1>1. CASE Next
  BY <1>1, NextCases, ClientTypes, WorkerTypes, ClearTypes
<1>2. TypeInv /\ UNCHANGED vars => TypeInv'
  BY DEF vars, redis, history, TypeInv, TypeOK, HandsInv
<1>3. QED BY <1>1, <1>2, ClientTypes, WorkerTypes, ClearTypes, NextCases

\* The queue's state keeps its types: no process works on an id or a serial
\* number that is none, whatever is lost or cleared in between.
THEOREM TypeCorrect == Spec => []TypeOK
<1>1. Spec => []TypeInv
  BY InitTypes, NextTypes, PTL DEF Spec
<1>2. QED BY <1>1, PTL DEF TypeInv

-----------------------------------------------------------------------------
(***************************************************************************)
(* One holder.  Until Redis is cleared the counter counts the jobs, so a   *)
(* new id is above every id in use; that is what makes OneHolder           *)
(* inductive.                                                              *)
(***************************************************************************)
InUse(i) == IsQueued(i) \/ IsHeld(i) \/ IsFilled(i)

FreshInv ==
  clears = 0 =>
    /\ clearing.step = 0
    /\ job_id_counter = created
    /\ \A i \in Ids : InUse(i) => i <= job_id_counter

SoleInv == FreshInv /\ OneHolder

(***************************************************************************)
(* At most max_attempts runs.  Until Redis is cleared an id is the serial  *)
(* number of its job, and what the hash counts as tries are the runs that  *)
(* have ended; a run that is under way is one more.                        *)
(***************************************************************************)
Own(i) == job[i].kind = "full" /\ job[i].serial = i /\ job[i].attempts < MaxAttempts

FilledInv(c, i) ==
  /\ client[c].serial = i
  /\ runs[i] = 0
  /\ client[c].pc = "zadd" => Own(i) /\ job[i].attempts = 0

HeldInv(w, i) ==
  /\ Own(i)
  /\ worker[w].pc # "popped" => worker[w].serial = i
  /\ worker[w].pc = "retrying" => worker[w].attempts = job[i].attempts
  /\ runs[i] <= IF worker[w].pc \in {"running", "retrying"}
                THEN job[i].attempts + 1 ELSE job[i].attempts

RunsInv ==
  clears = 0 =>
    \A i \in Ids :
      /\ runs[i] <= MaxAttempts
      /\ i > job_id_counter => runs[i] = 0
      /\ IsQueued(i) => Own(i) /\ runs[i] <= job[i].attempts
      /\ \A c \in Clients : Fills(c, i) => FilledInv(c, i)
      /\ \A w \in Workers : Holds(w, i) => HeldInv(w, i)

QueueInv == TypeInv /\ SoleInv /\ RunsInv

\* The initial states satisfy the invariant.
LEMMA InitQueueInv == Init => QueueInv
<1> SUFFICES ASSUME Init PROVE QueueInv
  OBVIOUS
<1>1. \A i \in Ids : ~InUse(i) /\ \A w \in Workers : ~Holds(w, i)
  BY DEF Init, InUse, IsQueued, IsHeld, IsFilled, Holds, Fills, Idle
<1>2. SoleInv
  BY <1>1 DEF Init, SoleInv, FreshInv, OneHolder, InUse, IsQueued, IsHeld, IsFilled,
              Fills, NotClearing
<1>3. RunsInv
  BY <1>1, QueueAssumption
     DEF Init, RunsInv, InUse, IsQueued, IsFilled, Fills, Ids, Serials
<1>4. QED BY <1>2, <1>3, InitTypes DEF QueueInv

\* A step by which nobody gets hold of an id keeps every id in one place.
LEMMA NobodyTakes ==
  ASSUME SoleInv,
         clears' = clears, clearing' = clearing,
         job_id_counter' = job_id_counter, created' = created,
         \A i \in Ids : /\ IsQueued(i)' => IsQueued(i)
                        /\ \A w \in Workers : Holds(w, i)' => Holds(w, i)
                        /\ \A c \in Clients : Fills(c, i)' => Fills(c, i)
  PROVE  SoleInv'
BY DEF SoleInv, FreshInv, OneHolder, InUse, IsHeld, IsFilled

\* The steps of enqueue() keep every id in one place.
LEMMA ClientSole ==
  ASSUME TypeInv, SoleInv, NEW c \in Clients,
         (\E priority \in Given : NextId(c, priority)) \/ StoreJob(c) \/ QueueJob(c) \/ LoseClient(c)
  PROVE  SoleInv'
<1> USE DEF history
<1>1. ASSUME NEW priority \in Given, NextId(c, priority), clears = 0 PROVE SoleInv'
  <2>1. \A i \in Ids : InUse(i) => i < job_id_counter + 1
    BY <1>1 DEF SoleInv, FreshInv, TypeInv, TypeOK, Ids
  <2>2. /\ \A i \in Ids : IsQueued(i)' <=> IsQueued(i)
        /\ \A i \in Ids, w \in Workers : Holds(w, i)' <=> Holds(w, i)
        /\ \A i \in Ids, d \in Clients :
             Fills(d, i)' <=> IF d = c THEN i = job_id_counter + 1 ELSE Fills(d, i)
    BY <1>1 DEF NextId, IsQueued, Holds, Fills, TypeInv, TypeOK, Locals
  <2>3. FreshInv'
    BY <1>1, <2>1, <2>2 DEF NextId, SoleInv, FreshInv, InUse, IsHeld, IsFilled,
       TypeInv, TypeOK, Ids
  <2>4. \A i \in Ids : i = job_id_counter + 1 => ~InUse(i)
    BY <2>1 DEF TypeInv, TypeOK, Ids
  <2>5. OneHolder'
    BY <1>1, <2>2, <2>4 DEF NextId, SoleInv, OneHolder, InUse, IsHeld, IsFilled
  <2>6. QED BY <2>3, <2>5 DEF SoleInv
<1>2. ASSUME NEW priority \in Given, NextId(c, priority), clears # 0 PROVE SoleInv'
  BY <1>2 DEF NextId, SoleInv, FreshInv, OneHolder
<1>3. CASE StoreJob(c)
  <2>1. \A i \in Ids : /\ IsQueued(i)' <=> IsQueued(i)
                       /\ \A w \in Workers : Holds(w, i)' <=> Holds(w, i)
                       /\ \A d \in Clients : Fills(d, i)' => Fills(d, i)
    BY <1>3 DEF StoreJob, IsQueued, Holds, Fills, TypeInv, TypeOK, Locals
  <2>2. QED BY <1>3, <2>1, NobodyTakes DEF StoreJob
<1>4. CASE QueueJob(c)
  <2> DEFINE k == client[c].id
  <2>1. k \in Ids /\ Fills(c, k)
    BY <1>4 DEF QueueJob, TypeInv, HandsInv, Fills
  <2>2. /\ \A i \in Ids : IsQueued(i)' => IsQueued(i) \/ i = k
        /\ \A i \in Ids, w \in Workers : Holds(w, i)' <=> Holds(w, i)
        /\ \A i \in Ids, d \in Clients : Fills(d, i)' => d # c /\ Fills(d, i)
    BY <1>4 DEF QueueJob, ZAdd, IsQueued, Holds, Fills, Idle, TypeInv, TypeOK
  <2> HIDE DEF k
  <2>3. FreshInv'
    BY <1>4, <2>1, <2>2 DEF QueueJob, SoleInv, FreshInv, InUse, IsHeld, IsFilled
  <2>4. OneHolder'
    BY <1>4, <2>1, <2>2 DEF QueueJob, SoleInv, OneHolder, IsHeld, IsFilled
  <2>5. QED BY <2>3, <2>4 DEF SoleInv
<1>5. CASE LoseClient(c)
  <2>1. \A i \in Ids : /\ IsQueued(i)' <=> IsQueued(i)
                       /\ \A w \in Workers : Holds(w, i)' <=> Holds(w, i)
                       /\ \A d \in Clients : Fills(d, i)' => Fills(d, i)
    BY <1>5 DEF LoseClient, redis, IsQueued, Holds, Fills, Idle, TypeInv, TypeOK
  <2>2. QED BY <1>5, <2>1, NobodyTakes DEF LoseClient, redis
<1>6. QED BY <1>1, <1>2, <1>3, <1>4, <1>5

\* Between Pop and Requeue a worker goes on with the id it has, or drops it.
LEMMA MovesOnItsOwn ==
  ASSUME TypeInv, NEW w \in Workers,
         \/ Load(w) \/ MarkRunning(w) \/ MarkCompleted(w)
         \/ FailLoad(w) \/ FailStore(w) \/ LoseWorker(w)
  PROVE  /\ UNCHANGED <<job_queue, job_id_counter, client, clearing, created, clears>>
         /\ \A v \in Workers : v # w => worker'[v] = worker[v]
         /\ worker[w].pc # "idle"
         /\ worker'[w].pc # "idle" => worker'[w].id = worker[w].id
<1> USE DEF history, redis, TypeInv, TypeOK, Locals
<1>1. CASE Load(w)
  BY <1>1 DEF Load, Idle
<1>2. CASE MarkRunning(w)
  BY <1>2 DEF MarkRunning
<1>3. CASE MarkCompleted(w)
  BY <1>3 DEF MarkCompleted, Idle
<1>4. CASE FailLoad(w)
  BY <1>4 DEF FailLoad, Idle
<1>5. CASE FailStore(w)
  BY <1>5 DEF FailStore, Idle
<1>6. CASE LoseWorker(w)
  BY <1>6 DEF LoseWorker, Idle
<1>7. QED BY <1>1, <1>2, <1>3, <1>4, <1>5, <1>6

\* The steps of the worker loop keep every id in one place: only Pop takes
\* an id, out of the set, and only Requeue puts one back.
LEMMA WorkerSole ==
  ASSUME TypeInv, SoleInv, NEW w \in Workers, WorkerStep(w) \/ LoseWorker(w)
  PROVE  SoleInv'
<1> USE DEF history, redis
<1>1. ASSUME NEW k \in Ids, Pop(w, k) PROVE SoleInv'
  <2>1. IsQueued(k) /\ \A i \in Ids : ~Holds(w, i)
    BY <1>1 DEF Pop, First, Queued, IsQueued, Holds
  <2>2. /\ \A i \in Ids : IsQueued(i)' => IsQueued(i) /\ i # k
        /\ \A i \in Ids, v \in Workers :
             Holds(v, i)' => IF v = w THEN i = k ELSE Holds(v, i)
        /\ \A i \in Ids, c \in Clients : Fills(c, i)' <=> Fills(c, i)
    BY <1>1 DEF Pop, ZAdd, IsQueued, NotQueued, Holds, Fills, Idle, TypeInv, TypeOK
  <2>3. FreshInv'
    BY <1>1, <2>1, <2>2 DEF Pop, SoleInv, FreshInv, InUse, IsHeld, IsFilled
  <2>4. OneHolder'
    BY <1>1, <2>1, <2>2 DEF Pop, SoleInv, OneHolder, IsHeld, IsFilled
  <2>5. QED BY <2>3, <2>4 DEF SoleInv
<1>2. CASE Requeue(w)
  <2> DEFINE k == worker[w].id
  <2>1. k \in Ids /\ Holds(w, k)
    BY <1>2 DEF Requeue, TypeInv, HandsInv, Holds
  <2>2. /\ \A i \in Ids : IsQueued(i)' => IsQueued(i) \/ i = k
        /\ \A i \in Ids, v \in Workers : Holds(v, i)' => v # w /\ Holds(v, i)
        /\ \A i \in Ids, c \in Clients : Fills(c, i)' <=> Fills(c, i)
    BY <1>2 DEF Requeue, ZAdd, IsQueued, Holds, Fills, Idle, TypeInv, TypeOK
  <2> HIDE DEF k
  <2>3. FreshInv'
    BY <1>2, <2>1, <2>2 DEF Requeue, SoleInv, FreshInv, InUse, IsHeld, IsFilled
  <2>4. OneHolder'
    BY <1>2, <2>1, <2>2 DEF Requeue, SoleInv, OneHolder, IsHeld, IsFilled
  <2>5. QED BY <2>3, <2>4 DEF SoleInv
<1>3. CASE \/ Load(w) \/ MarkRunning(w) \/ MarkCompleted(w)
          \/ FailLoad(w) \/ FailStore(w) \/ LoseWorker(w)
  <2>1. /\ UNCHANGED <<job_queue, job_id_counter, client, clearing, created, clears>>
        /\ \A v \in Workers : v # w => worker'[v] = worker[v]
        /\ worker'[w].pc # "idle" => worker[w].pc # "idle" /\ worker'[w].id = worker[w].id
    BY <1>3, MovesOnItsOwn
  <2>2. \A i \in Ids : /\ IsQueued(i)' <=> IsQueued(i)
                       /\ \A v \in Workers : Holds(v, i)' => Holds(v, i)
                       /\ \A c \in Clients : Fills(c, i)' <=> Fills(c, i)
    BY <2>1 DEF IsQueued, Holds, Fills
  <2>3. QED BY <2>1, <2>2, NobodyTakes
<1>4. QED BY <1>1, <1>2, <1>3 DEF WorkerStep, PopNext

\* Once Redis is being cleared nothing is claimed.
LEMMA ClearingClaimsNothing ==
  ASSUME TypeInv, SoleInv, RunsInv, Clearing
  PROVE  SoleInv' /\ RunsInv'
<1>1. clears' # 0
  BY DEF Clearing, ClearKeys, ClearHashes, ClearQueue, ClearCounter, FlushDb, history,
     TypeInv, TypeOK, SoleInv, FreshInv
<1>2. QED BY <1>1 DEF SoleInv, FreshInv, OneHolder, RunsInv

\* The steps of enqueue() start a new job, which has not been run.
LEMMA ClientRuns ==
  ASSUME TypeInv, SoleInv, RunsInv, NEW c \in Clients,
         (\E priority \in Given : NextId(c, priority)) \/ StoreJob(c) \/ QueueJob(c) \/ LoseClient(c)
  PROVE  RunsInv'
<1> SUFFICES ASSUME clears' = 0 PROVE RunsInv'
  BY DEF RunsInv
<1> USE DEF history, redis
<1>0. clears = 0
  BY DEF NextId, StoreJob, QueueJob, LoseClient
<1>1. ASSUME NEW priority \in Given, NextId(c, priority) PROVE RunsInv'
  <2>1. /\ job_id_counter' = job_id_counter + 1
        /\ job_id_counter = created /\ job_id_counter \in Nat
        /\ UNCHANGED <<job, job_queue, worker, runs>>
        /\ client' = [client EXCEPT ![c] = [pc |-> "hset", id |-> job_id_counter + 1,
                       serial |-> created + 1, priority |-> priority, attempts |-> 0]]
    BY <1>0, <1>1 DEF NextId, SoleInv, FreshInv, TypeInv, TypeOK
  <2>2. ASSUME NEW i \in Ids, NEW d \in Clients, Fills(d, i)' PROVE FilledInv(d, i)'
    <3>1. CASE d # c
      BY <1>0, <2>1, <2>2, <3>1 DEF RunsInv, FilledInv, Fills, Own, TypeInv, TypeOK
    <3>2. CASE d = c
      <4>1. /\ client'[c].pc = "hset" /\ client'[c].id = job_id_counter + 1
            /\ client'[c].serial = job_id_counter + 1
        BY <2>1 DEF TypeInv, TypeOK
      <4>2. i = job_id_counter + 1 /\ runs[i] = 0
        BY <1>0, <2>1, <2>2, <3>2, <4>1 DEF RunsInv, Fills, Ids
      <4>3. QED BY <2>1, <3>2, <4>1, <4>2 DEF FilledInv
    <3>3. QED BY <3>1, <3>2
  <2>3. \A i \in Ids : i > job_id_counter' => i > job_id_counter
    BY <2>1 DEF Ids
  <2>4. QED BY <1>0, <2>1, <2>2, <2>3 DEF RunsInv, HeldInv, Holds, Own, IsQueued
<1>2. CASE StoreJob(c)
  <2>0. PICK k \in Ids : k = client[c].id
    BY <1>2 DEF StoreJob, TypeInv, HandsInv
  <2>1. /\ Fills(c, k) /\ client[c].pc = "hset"
        /\ client[c].serial = k /\ runs[k] = 0
    BY <1>0, <1>2, <2>0 DEF StoreJob, Fills, RunsInv, FilledInv
  <2>2. /\ ~IsQueued(k) /\ \A w \in Workers : ~Holds(w, k)
        /\ \A d \in Clients : Fills(d, k) => d = c
    BY <1>0, <2>1 DEF SoleInv, OneHolder, IsHeld, IsFilled
  <2>3. /\ job'[k].kind = "full" /\ job'[k].serial = k /\ job'[k].attempts = 0
        /\ \A i \in Ids : i # k => job'[i] = job[i]
        /\ UNCHANGED <<job_queue, job_id_counter, worker, runs>>
        /\ client'[c].pc = "zadd" /\ client'[c].id = k /\ client'[c].serial = k
        /\ \A d \in Clients : d # c => client'[d] = client[d]
    BY <1>2, <2>0, <2>1 DEF StoreJob, TypeInv, TypeOK, Locals
  <2>4. Own(k)' /\ job'[k].attempts = 0
    BY <2>1, <2>3, QueueAssumption DEF Own
  <2>5. ASSUME NEW i \in Ids
        PROVE  /\ \A d \in Clients : Fills(d, i)' => FilledInv(d, i)'
               /\ \A w \in Workers : Holds(w, i)' => HeldInv(w, i)'
               /\ IsQueued(i)' => Own(i)' /\ runs'[i] <= job'[i].attempts
    <3>1. CASE i = k
      BY <2>1, <2>2, <2>3, <2>4, <3>1 DEF FilledInv, Fills, Holds, IsQueued, Own
    <3>2. CASE i # k
      BY <1>0, <2>3, <3>2 DEF RunsInv, FilledInv, HeldInv, Fills, Holds, IsQueued, Own
    <3>3. QED BY <3>1, <3>2
  <2>6. QED BY <1>0, <2>3, <2>5 DEF RunsInv
<1>3. CASE QueueJob(c)
  <2> DEFINE k == client[c].id
  <2>1. /\ k \in Ids /\ Own(k) /\ job[k].attempts = 0 /\ runs[k] = 0
    BY <1>0, <1>3 DEF QueueJob, TypeInv, HandsInv, Fills, RunsInv, FilledInv
  <2>2. /\ \A i \in Ids : IsQueued(i)' => IsQueued(i) \/ i = k
        /\ UNCHANGED <<job, job_id_counter, worker, runs>>
        /\ \A d \in Clients : IF d = c THEN client'[d].pc = "idle"
                               ELSE client'[d] = client[d]
    BY <1>3 DEF QueueJob, ZAdd, IsQueued, Idle, TypeInv, TypeOK
  <2> HIDE DEF k
  <2>3. QED BY <1>0, <2>1, <2>2 DEF RunsInv, FilledInv, HeldInv, Fills, Holds, Own
<1>4. CASE LoseClient(c)
  <2>1. /\ UNCHANGED <<job, job_queue, job_id_counter, worker, runs>>
        /\ \A d \in Clients : IF d = c THEN client'[d].pc = "idle"
                               ELSE client'[d] = client[d]
    BY <1>4 DEF LoseClient, Idle, TypeInv, TypeOK
  <2>2. QED BY <1>0, <2>1 DEF RunsInv, FilledInv, HeldInv, Fills, Holds, Own, IsQueued
<1>5. QED BY <1>1, <1>2, <1>3, <1>4

\* A worker that moves changes what is counted of its own id alone.
LEMMA OnlyItsOwn ==
  ASSUME TypeInv, SoleInv, RunsInv, clears = 0,
         NEW w \in Workers, NEW k \in Ids, Holds(w, k),
         job_id_counter' = job_id_counter, client' = client,
         \A i \in Ids : i # k => /\ job'[i] = job[i]
                                /\ runs'[i] = runs[i]
                                /\ job_queue'[i] = job_queue[i],
         \A v \in Workers : v # w => worker'[v] = worker[v],
         worker'[w].pc # "idle" => worker'[w].id = k /\ HeldInv(w, k)',
         runs'[k] <= MaxAttempts,
         IsQueued(k)' => Own(k)' /\ runs'[k] <= job'[k].attempts
  PROVE  RunsInv'
<1>1. /\ k <= job_id_counter
      /\ \A v \in Workers : Holds(v, k) => v = w
      /\ \A c \in Clients : ~Fills(c, k)
  BY DEF SoleInv, FreshInv, OneHolder, InUse, IsHeld, IsFilled
<1>2. ASSUME NEW i \in Ids
      PROVE  /\ runs'[i] <= MaxAttempts
             /\ i > job_id_counter' => runs'[i] = 0
             /\ IsQueued(i)' => Own(i)' /\ runs'[i] <= job'[i].attempts
             /\ \A c \in Clients : Fills(c, i)' => FilledInv(c, i)'
             /\ \A v \in Workers : Holds(v, i)' => HeldInv(v, i)'
  <2>1. CASE i = k
    <3>1. ~(i > job_id_counter')
      BY <2>1, <1>1 DEF TypeInv, TypeOK, Ids
    <3>2. \A c \in Clients : ~Fills(c, i)'
      BY <2>1, <1>1 DEF Fills
    <3>3. \A v \in Workers : Holds(v, i)' => v = w
      BY <2>1, <1>1 DEF Holds
    <3>4. \A v \in Workers : Holds(v, i)' => HeldInv(v, i)'
      BY <2>1, <3>3 DEF Holds, HeldInv, Own
    <3>5. runs'[i] <= MaxAttempts /\ (IsQueued(i)' => Own(i)' /\ runs'[i] <= job'[i].attempts)
      BY <2>1 DEF IsQueued, Own
    <3>6. QED BY <3>1, <3>2, <3>4, <3>5
  <2>2. CASE i # k
    BY <2>2 DEF RunsInv, FilledInv, HeldInv, Fills, Holds, IsQueued, Own
  <2>3. QED BY <2>1, <2>2
<1>3. QED BY <1>2 DEF RunsInv

\* The steps of the worker loop: a run is counted when it begins, and its try
\* when it has failed.
LEMMA WorkerRuns ==
  ASSUME TypeInv, SoleInv, RunsInv, NEW w \in Workers, WorkerStep(w) \/ LoseWorker(w)
  PROVE  RunsInv'
<1> SUFFICES ASSUME clears' = 0 PROVE RunsInv'
  BY DEF RunsInv
<1> USE DEF history, redis
<1>0. clears = 0
  BY DEF WorkerStep, PopNext, Pop, Load, MarkRunning, MarkCompleted, FailLoad, FailStore,
     Requeue, LoseWorker
<1>1. ASSUME NEW k \in Ids, Pop(w, k) PROVE RunsInv'
  <2>1. Own(k) /\ runs[k] <= job[k].attempts
    BY <1>0, <1>1 DEF Pop, First, Queued, RunsInv, IsQueued
  <2>2. /\ UNCHANGED <<job, job_id_counter, client, runs>>
        /\ \A i \in Ids : IsQueued(i)' => IsQueued(i)
        /\ \A v \in Workers : v # w => worker'[v] = worker[v]
        /\ worker'[w].pc = "popped" /\ worker'[w].id = k
    BY <1>1 DEF Pop, ZAdd, IsQueued, NotQueued, Idle, TypeInv, TypeOK
  <2>3. QED BY <1>0, <2>1, <2>2 DEF RunsInv, FilledInv, HeldInv, Fills, Holds, Own
<1> SUFFICES ASSUME ~PopNext(w) PROVE RunsInv'
  BY <1>1 DEF PopNext
<1>2. PICK k \in Ids : k = worker[w].id
  BY DEF WorkerStep, Load, MarkRunning, MarkCompleted, FailLoad, FailStore, Requeue,
     LoseWorker, TypeInv, HandsInv
<1>3. Holds(w, k) /\ HeldInv(w, k) /\ runs[k] <= MaxAttempts /\ ~IsQueued(k)
  BY <1>0, <1>2 DEF WorkerStep, Load, MarkRunning, MarkCompleted, FailLoad, FailStore,
     Requeue, LoseWorker, Holds, RunsInv, SoleInv, OneHolder, IsHeld
<1>4. /\ runs[k] \in Nat /\ job[k].attempts \in Nat /\ worker[w].attempts \in Nat
      /\ MaxAttempts \in Nat
  BY QueueAssumption DEF TypeInv, TypeOK, Hashes, Locals, Ids, Serials
<1>5. CASE Load(w)
  <2>1. /\ UNCHANGED <<job, runs>>
        /\ worker'[w].pc = "loaded" => worker'[w].serial = k
        /\ worker'[w].pc \in {"loaded", "idle"}
    BY <1>2, <1>3, <1>5 DEF Load, HeldInv, Own, Idle, TypeInv, TypeOK, Locals
  <2>2. worker'[w].pc # "idle" => HeldInv(w, k)'
    BY <1>3, <1>5, <2>1 DEF HeldInv, Own, Load
  <2>3. QED BY <1>0, <1>2, <1>3, <1>5, <2>1, <2>2, MovesOnItsOwn, OnlyItsOwn DEF IsQueued
<1>6. CASE MarkRunning(w)
  <2>1. worker[w].pc = "loaded" /\ worker[w].serial = k /\ runs[k] < MaxAttempts
    BY <1>3, <1>4, <1>6 DEF MarkRunning, HeldInv, Own
  <2>2. /\ runs' = [runs EXCEPT ![k] = @ + 1]
        /\ worker'[w] = [worker[w] EXCEPT !.pc = "running"]
        /\ HSetStatus(k, "running", job[k].attempts)
    BY <1>2, <1>6, <2>1 DEF MarkRunning, TypeInv, TypeOK
  <2>3. /\ runs'[k] = runs[k] + 1
        /\ \A i \in Ids : i # k => runs'[i] = runs[i]
    BY <2>2 DEF TypeInv, TypeOK, Ids, Serials
  <2>4. /\ worker'[w].pc = "running" /\ worker'[w].serial = k
    BY <2>1, <2>2 DEF TypeInv, TypeOK, Locals
  <2>5. /\ \A i \in Ids : i # k => job'[i] = job[i]
        /\ job'[k].kind = "full" /\ job'[k].serial = k /\ job'[k].attempts = job[k].attempts
    BY <1>3, <1>4, <2>2, HSetFacts DEF HeldInv, Own
  <2>6. HeldInv(w, k)'
    BY <1>3, <1>4, <2>1, <2>3, <2>4, <2>5 DEF HeldInv, Own
  <2>7. runs'[k] <= MaxAttempts
    BY <1>4, <2>1, <2>3
  <2>8. QED BY <1>0, <1>2, <1>3, <1>6, <2>3, <2>5, <2>6, <2>7, MovesOnItsOwn, OnlyItsOwn
            DEF IsQueued
<1>7. CASE MarkCompleted(w)
  <2>1. HSetStatus(k, "completed", job[k].attempts) /\ worker'[w].pc = "idle" /\ runs' = runs
    BY <1>2, <1>7 DEF MarkCompleted, Idle, TypeInv, TypeOK
  <2>2. \A i \in Ids : i # k => job'[i] = job[i]
    BY <1>4, <2>1, HSetFacts
  <2>3. QED BY <1>0, <1>2, <1>3, <1>7, <2>1, <2>2, MovesOnItsOwn, OnlyItsOwn DEF IsQueued
<1>8. CASE FailLoad(w)
  <2>1. /\ worker[w].pc = "running" /\ UNCHANGED <<job, runs>>
        /\ worker'[w].pc = "retrying" /\ worker'[w].attempts = job[k].attempts
        /\ worker'[w].serial = k
    BY <1>2, <1>3, <1>8 DEF FailLoad, HeldInv, Own, TypeInv, TypeOK, Locals
  <2>2. HeldInv(w, k)'
    BY <1>3, <2>1 DEF HeldInv, Own
  <2>3. QED BY <1>0, <1>2, <1>3, <1>8, <2>1, <2>2, MovesOnItsOwn, OnlyItsOwn DEF IsQueued
<1>9. CASE FailStore(w)
  <2> DEFINE status == IF MayRetry(w) THEN "pending" ELSE "failed"
  <2>1. /\ worker[w].pc = "retrying" /\ worker[w].attempts = job[k].attempts
        /\ worker[w].serial = k
        /\ runs' = runs
        /\ HSetStatus(k, status, job[k].attempts + 1)
    BY <1>2, <1>3, <1>9 DEF FailStore, HeldInv
  <2>2. status \in {"pending", "failed"}
    OBVIOUS
  <2> HIDE DEF status
  <2>3. /\ \A i \in Ids : i # k => job'[i] = job[i]
        /\ job'[k].kind = "full" /\ job'[k].serial = k
        /\ job'[k].attempts = job[k].attempts + 1
    BY <1>3, <1>4, <2>1, <2>2, HSetFacts DEF HeldInv, Own
  <2>4. ASSUME worker'[w].pc # "idle"
        PROVE  /\ job[k].attempts + 1 < MaxAttempts
               /\ worker'[w].pc = "requeue" /\ worker'[w].serial = k
    BY <1>9, <2>1, <2>4 DEF FailStore, MayRetry, Idle, TypeInv, TypeOK, Locals
  <2>5. worker'[w].pc # "idle" => HeldInv(w, k)'
    BY <1>3, <1>4, <2>1, <2>3, <2>4 DEF HeldInv, Own
  <2>6. QED BY <1>0, <1>2, <1>3, <1>9, <2>1, <2>3, <2>5, MovesOnItsOwn, OnlyItsOwn
            DEF IsQueued
<1>10. CASE Requeue(w)
  <2>1. /\ worker[w].pc = "requeue" /\ UNCHANGED <<job, runs, job_id_counter, client>>
        /\ \A i \in Ids : i # k => job_queue'[i] = job_queue[i]
        /\ worker'[w].pc = "idle"
        /\ \A v \in Workers : v # w => worker'[v] = worker[v]
    BY <1>2, <1>10 DEF Requeue, ZAdd, Idle, TypeInv, TypeOK
  <2>2. Own(k)' /\ runs'[k] <= job'[k].attempts
    BY <1>3, <2>1 DEF HeldInv, Own
  <2>3. QED BY <1>0, <1>3, <2>1, <2>2, OnlyItsOwn
<1>11. CASE LoseWorker(w)
  <2>1. worker'[w].pc = "idle" /\ UNCHANGED <<job, runs>>
    BY <1>11 DEF LoseWorker, Idle, TypeInv, TypeOK
  <2>2. QED BY <1>0, <1>2, <1>3, <1>11, <2>1, MovesOnItsOwn, OnlyItsOwn DEF IsQueued
<1>12. QED BY <1>5, <1>6, <1>7, <1>8, <1>9, <1>10, <1>11 DEF WorkerStep

-----------------------------------------------------------------------------
\* Every step preserves the invariant.
LEMMA NextQueueInv == QueueInv /\ [Next]_vars => QueueInv'
<1>1. ASSUME QueueInv, Next PROVE SoleInv' /\ RunsInv'
  BY <1>1, NextCases, ClientSole, ClientRuns, WorkerSole, WorkerRuns, ClearingClaimsNothing
     DEF QueueInv
<1>2. ASSUME QueueInv, UNCHANGED vars PROVE SoleInv' /\ RunsInv'
  BY <1>2 DEF QueueInv, SoleInv, RunsInv, FreshInv, OneHolder, InUse, IsQueued, IsHeld,
     IsFilled, Holds, Fills, HeldInv, FilledInv, Own, vars, redis, history
<1>3. QED BY <1>1, <1>2, NextTypes DEF QueueInv

\* For any number of workers, clients and jobs, whatever processes stop, and
\* until Redis is cleared: an id is in the sorted set, with one worker or with
\* the client that enqueues it, and never in two of these places.
THEOREM OneHolderAlways == Spec => []OneHolder
<1>1. Spec => []QueueInv
  BY InitQueueInv, NextQueueInv, PTL DEF Spec
<1>2. QueueInv => OneHolder
  BY DEF QueueInv, SoleInv
<1>3. QED BY <1>1, <1>2, PTL

\* And no job is marked running more than max_attempts times.
THEOREM RunsBounded == Spec => []AtMostMaxAttempts
<1>1. Spec => []QueueInv
  BY InitQueueInv, NextQueueInv, PTL DEF Spec
<1>2. QueueInv => AtMostMaxAttempts
  BY DEF QueueInv, RunsInv, AtMostMaxAttempts, Ids, Serials
<1>3. QED BY <1>1, <1>2, PTL

-----------------------------------------------------------------------------
(***************************************************************************)
(* Nothing is forgotten: who lets go of an id has recorded the outcome of  *)
(* its job or hands it on.  A worker drops an id without a word only when  *)
(* the hash is missing or partial, which QueueInv excludes.                *)
(***************************************************************************)
Unsettled(i) == job[i].status \in {"pending", "running"}

\* The steps of enqueue() forget nothing.
LEMMA ClientAccounts ==
  ASSUME TypeInv, Accounted, NEW c \in Clients,
         (\E priority \in Given : NextId(c, priority)) \/ StoreJob(c) \/ QueueJob(c) \/ LoseClient(c)
  PROVE  Accounted'
<1> SUFFICES ASSUME losses' = 0, clears' = 0, NEW i \in Ids, Unsettled(i)'
             PROVE  InUse(i)'
  BY DEF Accounted, InUse, Unsettled
<1> USE DEF history, redis
<1>0. losses = 0 /\ clears = 0 /\ ~LoseClient(c)
  BY DEF NextId, StoreJob, QueueJob, LoseClient, TypeInv, TypeOK
<1>1. ASSUME Unsettled(i) PROVE InUse(i)
  BY <1>0, <1>1 DEF Accounted, Unsettled, InUse
<1>2. ASSUME NEW priority \in Given, NextId(c, priority) PROVE InUse(i)'
  <2>1. Unsettled(i) /\ \A d \in Clients : Fills(d, i) => Fills(d, i)'
    BY <1>2 DEF NextId, Unsettled, Fills, TypeInv, TypeOK
  <2>2. QED BY <1>1, <1>2, <2>1 DEF NextId, InUse, IsQueued, IsHeld, IsFilled, Holds
<1>3. CASE StoreJob(c)
  <2>1. \A d \in Clients : client'[d].pc # "idle" <=> client[d].pc # "idle"
    BY <1>3 DEF StoreJob, TypeInv, TypeOK, Locals
  <2>2. \A d \in Clients : client'[d].id = client[d].id
    BY <1>3 DEF StoreJob, TypeInv, TypeOK, Locals
  <2>3. CASE client[c].id = i
    BY <1>3, <2>1, <2>2, <2>3 DEF StoreJob, InUse, IsFilled, Fills
  <2>4. CASE client[c].id # i
    BY <1>1, <1>3, <2>1, <2>2, <2>4
       DEF StoreJob, Unsettled, InUse, IsQueued, IsHeld, IsFilled, Holds, Fills, TypeInv, TypeOK
  <2>5. QED BY <2>3, <2>4
<1>4. CASE QueueJob(c)
  <2>1. CASE client[c].id = i
    <3>1. client[c].priority # NotQueued
      BY <1>4, PriorityFacts DEF QueueJob, TypeInv, HandsInv
    <3>2. QED BY <1>4, <2>1, <3>1 DEF QueueJob, ZAdd, InUse, IsQueued, TypeInv, TypeOK
  <2>2. CASE client[c].id # i
    <3>1. /\ Unsettled(i)
          /\ IsQueued(i) => IsQueued(i)'
          /\ \A d \in Clients : Fills(d, i) => Fills(d, i)'
      BY <1>4, <2>2 DEF QueueJob, ZAdd, Unsettled, IsQueued, Fills, TypeInv, TypeOK
    <3>2. QED BY <1>1, <1>4, <3>1 DEF QueueJob, InUse, IsHeld, IsFilled, Holds
  <2>3. QED BY <2>1, <2>2
<1>5. QED BY <1>0, <1>2, <1>3, <1>4

\* The steps of the worker loop forget nothing.
LEMMA WorkerAccounts ==
  ASSUME QueueInv, Accounted, NEW w \in Workers, WorkerStep(w) \/ LoseWorker(w)
  PROVE  Accounted'
<1> SUFFICES ASSUME losses' = 0, clears' = 0, NEW i \in Ids, Unsettled(i)'
             PROVE  InUse(i)'
  BY DEF Accounted, InUse, Unsettled
<1> USE DEF history, redis, QueueInv
<1>0. losses = 0 /\ clears = 0 /\ ~LoseWorker(w)
  <2>1. CASE LoseWorker(w)
    BY <2>1 DEF LoseWorker, TypeInv, TypeOK
  <2>2. CASE WorkerStep(w) /\ ~LoseWorker(w)
    BY <2>2 DEF WorkerStep, PopNext, Pop, Load, MarkRunning, MarkCompleted, FailLoad,
       FailStore, Requeue
  <2>3. QED BY <2>1, <2>2
<1>1. ASSUME Unsettled(i) PROVE InUse(i)
  BY <1>0, <1>1 DEF Accounted, Unsettled, InUse
<1>2. ASSUME NEW k \in Ids, Pop(w, k) PROVE InUse(i)'
  <2>1. /\ Unsettled(i)
        /\ Holds(w, k)'
        /\ i # k => (IsQueued(i) => IsQueued(i)')
        /\ \A v \in Workers : Holds(v, i) => Holds(v, i)'
    BY <1>2 DEF Pop, ZAdd, Unsettled, IsQueued, Holds, Idle, TypeInv, TypeOK
  <2>2. CASE i = k
    BY <2>1, <2>2 DEF InUse, IsHeld, Holds
  <2>3. CASE i # k
    BY <1>1, <1>2, <2>1, <2>3 DEF Pop, InUse, IsHeld, IsFilled, Fills
  <2>4. QED BY <2>2, <2>3
<1>3. CASE Requeue(w)
  <2>1. CASE worker[w].id = i
    <3>1. RetryPriority(worker[w].priority) # NotQueued
      BY <1>3, PriorityFacts DEF Requeue, TypeInv, HandsInv
    <3>2. QED BY <1>3, <2>1, <3>1 DEF Requeue, ZAdd, InUse, IsQueued, TypeInv, TypeOK
  <2>2. CASE worker[w].id # i
    <3>1. /\ Unsettled(i)
          /\ IsQueued(i) => IsQueued(i)'
          /\ \A v \in Workers : Holds(v, i) => Holds(v, i)'
      BY <1>3, <2>2 DEF Requeue, ZAdd, Unsettled, IsQueued, Holds, TypeInv, TypeOK
    <3>2. QED BY <1>1, <1>3, <3>1 DEF Requeue, InUse, IsHeld, IsFilled, Fills
  <2>3. QED BY <2>1, <2>2
<1>4. CASE Load(w) \/ MarkRunning(w) \/ MarkCompleted(w) \/ FailLoad(w) \/ FailStore(w)
  <2>1. PICK k \in Ids : k = worker[w].id
    BY <1>4 DEF Load, MarkRunning, MarkCompleted, FailLoad, FailStore, TypeInv, HandsInv
  <2>2. Own(k)
    BY <1>0, <1>4, <2>1 DEF Load, MarkRunning, MarkCompleted, FailLoad, FailStore, RunsInv,
       HeldInv, Holds
  <2>3. /\ i # k => job'[i] = job[i]
        /\ i = k => worker'[w].pc # "idle"
    <3>1. /\ job[k].attempts \in Nat /\ worker[w].attempts + 1 \in Nat
      BY DEF TypeInv, TypeOK, Hashes, Locals
    <3>2. CASE Load(w)
      BY <2>1, <2>2, <3>2 DEF Load, Own, TypeInv, TypeOK, Locals
    <3>3. CASE MarkRunning(w)
      BY <2>1, <3>1, <3>3, HSetFacts DEF MarkRunning, TypeInv, TypeOK, Locals
    <3>4. CASE MarkCompleted(w)
      BY <2>1, <3>1, <3>4, HSetFacts DEF MarkCompleted, Unsettled
    <3>5. CASE FailLoad(w)
      BY <2>1, <2>2, <3>5 DEF FailLoad, Own, TypeInv, TypeOK, Locals
    <3>6. CASE FailStore(w)
      <4>1. CASE MayRetry(w)
        <5>1. HSetStatus(k, "pending", worker[w].attempts + 1)
          BY <2>1, <3>6, <4>1 DEF FailStore
        <5>2. worker'[w].pc = "requeue"
          BY <3>6, <4>1 DEF FailStore, TypeInv, TypeOK, Locals
        <5>3. QED BY <3>1, <5>1, <5>2, HSetFacts
      <4>2. CASE ~MayRetry(w)
        <5>1. HSetStatus(k, "failed", worker[w].attempts + 1)
          BY <2>1, <3>6, <4>2 DEF FailStore
        <5>2. QED BY <3>1, <5>1, HSetFacts DEF Unsettled
      <4>3. QED BY <4>1, <4>2
    <3>7. QED BY <1>4, <3>2, <3>3, <3>4, <3>5, <3>6
  <2>4. /\ UNCHANGED <<job_queue, client>>
        /\ \A v \in Workers : v # w => worker'[v] = worker[v]
        /\ worker'[w].pc # "idle" => worker'[w].id = k
    BY <1>4, <2>1, MovesOnItsOwn
  <2>5. CASE i = k
    BY <2>3, <2>4, <2>5 DEF InUse, IsHeld, Holds
  <2>6. CASE i # k
    <3>1. \A v \in Workers : Holds(v, i) => Holds(v, i)'
      BY <2>1, <2>4, <2>6 DEF Holds
    <3>2. Unsettled(i)
      BY <2>3, <2>6 DEF Unsettled
    <3>3. QED BY <1>1, <2>4, <3>1, <3>2 DEF InUse, IsQueued, IsHeld, IsFilled, Fills
  <2>7. QED BY <2>5, <2>6
<1>5. QED BY <1>0, <1>2, <1>3, <1>4 DEF WorkerStep, PopNext

\* For any number of workers, clients and jobs: as long as no process is lost
\* and Redis is not cleared, no job recorded as pending or running is
\* forgotten.
THEOREM NothingForgotten == Spec => []Accounted
<1>1. Init => QueueInv /\ Accounted
  <2>1. Init => Accounted
    BY DEF Init, Accounted, NoHash
  <2>2. QED BY <2>1, InitQueueInv
<1>2. QueueInv /\ Accounted /\ [Next]_vars => QueueInv' /\ Accounted'
  <2> SUFFICES ASSUME QueueInv, Accounted, [Next]_vars PROVE Accounted'
    BY NextQueueInv
  <2>1. CASE Clearing
    <3>1. clears' # 0
      BY <2>1 DEF Clearing, ClearKeys, ClearHashes, ClearQueue, ClearCounter, FlushDb,
         history, QueueInv, TypeInv, TypeOK, SoleInv, FreshInv
    <3>2. QED BY <3>1 DEF Accounted
  <2>2. CASE UNCHANGED vars
    BY <2>2 DEF Accounted, IsQueued, IsHeld, IsFilled, Holds, Fills, vars, redis, history
  <2>3. QED BY <2>1, <2>2, NextCases, ClientAccounts, WorkerAccounts DEF QueueInv
<1>3. QED BY <1>1, <1>2, PTL DEF Spec

-----------------------------------------------------------------------------
(***************************************************************************)
(* Fresh work first: until Redis is cleared, the place of a waiting id is  *)
(* that its job was given, ten lower when the job has been tried; what a   *)
(* process remembers of the priority is what the hash says.                *)
(***************************************************************************)
Place(i) ==
  IF job[i].attempts = 0 THEN job[i].priority ELSE RetryPriority(job[i].priority)

PlaceOK(i) ==
  /\ IsQueued(i) => job_queue[i] = Place(i)
  /\ \A c \in Clients : Fills(c, i) /\ client[c].pc = "zadd" => client[c].priority = job[i].priority
  /\ \A w \in Workers : Holds(w, i) /\ worker[w].pc \in {"retrying", "requeue"} =>
       /\ worker[w].priority = job[i].priority
       /\ worker[w].pc = "requeue" => job[i].attempts > 0

PlaceInv == clears = 0 => \A i \in Ids : PlaceOK(i)

\* The steps of enqueue() queue a job at its place.
LEMMA ClientPlaces ==
  ASSUME QueueInv, PlaceInv, NEW c \in Clients,
         (\E priority \in Given : NextId(c, priority)) \/ StoreJob(c) \/ QueueJob(c) \/ LoseClient(c)
  PROVE  PlaceInv'
<1> SUFFICES ASSUME clears' = 0, NEW i \in Ids PROVE PlaceOK(i)'
  BY DEF PlaceInv
<1> USE DEF history, redis, QueueInv
<1>1. clears = 0 /\ PlaceOK(i) /\ UNCHANGED worker
  BY DEF NextId, StoreJob, QueueJob, LoseClient, PlaceInv
<1>2. ASSUME NEW priority \in Given, NextId(c, priority) PROVE PlaceOK(i)'
  BY <1>1, <1>2 DEF NextId, PlaceOK, Place, IsQueued, Fills, Holds, TypeInv, TypeOK
<1>3. CASE StoreJob(c)
  <2>1. /\ client[c].id \in Ids /\ client[c].pc = "hset"
        /\ UNCHANGED job_queue
        /\ client' = [client EXCEPT ![c].pc = "zadd"]
    BY <1>3 DEF StoreJob, TypeInv, HandsInv
  <2>2. /\ client'[c].id = client[c].id /\ client'[c].priority = client[c].priority
        /\ \A d \in Clients \ {c} : client'[d] = client[d]
    BY <2>1 DEF TypeInv, TypeOK, Locals
  <2>3. CASE client[c].id = i
    <3>1. /\ job'[i].priority = client[c].priority
          /\ ~IsQueued(i) /\ ~IsHeld(i) /\ \A d \in Clients : Fills(d, i) => d = c
      BY <1>1, <1>3, <2>1, <2>3 DEF StoreJob, SoleInv, OneHolder, IsFilled, Fills, TypeInv, TypeOK
    <3>2. QED BY <1>1, <2>1, <2>2, <2>3, <3>1 DEF PlaceOK, IsQueued, IsHeld, Holds, Fills
  <2>4. CASE client[c].id # i
    <3>1. job'[i] = job[i]
      BY <1>3, <2>1, <2>4 DEF StoreJob, TypeInv, TypeOK
    <3>2. QED BY <1>1, <2>1, <2>2, <2>4, <3>1 DEF PlaceOK, Place, IsQueued, Holds, Fills
  <2>5. QED BY <2>3, <2>4
<1>4. CASE QueueJob(c)
  <2>1. /\ client[c].id \in Ids /\ client[c].pc = "zadd" /\ UNCHANGED job
        /\ client'[c].pc = "idle" /\ \A d \in Clients \ {c} : client'[d] = client[d]
        /\ job_queue' = [job_queue EXCEPT ![client[c].id] = client[c].priority]
    BY <1>4 DEF QueueJob, ZAdd, Idle, TypeInv, TypeOK, HandsInv
  <2>2. CASE client[c].id = i
    <3>1. job[i].attempts = 0 /\ client[c].priority = job[i].priority
      BY <1>1, <2>1, <2>2 DEF RunsInv, FilledInv, Fills, PlaceOK
    <3>2. job_queue'[i] = job[i].priority
      BY <2>1, <2>2, <3>1 DEF TypeInv, TypeOK
    <3>3. QED BY <1>1, <2>1, <3>1, <3>2 DEF PlaceOK, Place, Holds, Fills
  <2>3. CASE client[c].id # i
    <3>1. job_queue'[i] = job_queue[i]
      BY <2>1, <2>3 DEF TypeInv, TypeOK
    <3>2. QED BY <1>1, <2>1, <3>1 DEF PlaceOK, Place, IsQueued, Holds, Fills
  <2>4. QED BY <2>2, <2>3
<1>5. CASE LoseClient(c)
  <2>1. UNCHANGED <<job, job_queue>> /\ client' = [client EXCEPT ![c] = Idle]
    BY <1>5 DEF LoseClient
  <2>2. client'[c].pc = "idle" /\ \A d \in Clients \ {c} : client'[d] = client[d]
    BY <2>1 DEF Idle, TypeInv, TypeOK
  <2>3. QED BY <1>1, <2>1, <2>2 DEF PlaceOK, Place, IsQueued, Holds, Fills
<1>6. QED BY <1>2, <1>3, <1>4, <1>5

\* The steps between Pop and Requeue change no other job, and the
\* priority of none; a worker that has one to retry has counted the try.
LEMMA HeldPlaces ==
  ASSUME QueueInv, PlaceInv, clears = 0, NEW w \in Workers, NEW k \in Ids, k = worker[w].id,
         \/ Load(w) \/ MarkRunning(w) \/ MarkCompleted(w)
         \/ FailLoad(w) \/ FailStore(w) \/ LoseWorker(w)
  PROVE  /\ \A i \in Ids \ {k} : job'[i] = job[i]
         /\ worker'[w].pc \in {"retrying", "requeue"} =>
              /\ worker'[w].priority = job'[k].priority
              /\ worker'[w].pc = "requeue" => job'[k].attempts > 0
<1> USE DEF history, redis, QueueInv
<1>0. /\ job[k].attempts \in Nat /\ worker[w].attempts + 1 \in Nat
      /\ worker[w].attempts + 1 > 0 /\ PlaceOK(k)
  BY DEF TypeInv, TypeOK, Hashes, Locals, PlaceInv
<1>1. CASE Load(w)
  BY <1>1 DEF Load, Idle, TypeInv, TypeOK, Locals
<1>2. CASE MarkRunning(w)
  BY <1>0, <1>2, HSetFacts DEF MarkRunning, TypeInv, TypeOK, Locals
<1>3. CASE MarkCompleted(w)
  BY <1>0, <1>3, HSetFacts DEF MarkCompleted, Idle, TypeInv, TypeOK
<1>4. CASE FailLoad(w)
  BY <1>4 DEF FailLoad, Idle, TypeInv, TypeOK, Locals
<1>5. CASE FailStore(w)
  <2> DEFINE status == IF MayRetry(w) THEN "pending" ELSE "failed"
  <2>1. status \in {"pending", "failed"} /\ HSetStatus(k, status, worker[w].attempts + 1)
    BY <1>5 DEF FailStore
  <2> HIDE DEF status
  <2>2. /\ \A i \in Ids \ {k} : job'[i] = job[i]
        /\ job'[k].priority = job[k].priority /\ job'[k].attempts = worker[w].attempts + 1
    BY <1>0, <2>1, HSetFacts
  <2>3. worker[w].priority = job[k].priority
    BY <1>0, <1>5 DEF FailStore, PlaceOK, Holds
  <2>4. worker'[w].pc = "requeue" => worker'[w].priority = worker[w].priority
    BY <1>5 DEF FailStore, Idle, TypeInv, TypeOK, Locals
  <2>5. worker'[w].pc # "retrying"
    BY <1>5 DEF FailStore, Idle, TypeInv, TypeOK, Locals
  <2>6. QED BY <1>0, <2>2, <2>3, <2>4, <2>5
<1>6. CASE LoseWorker(w)
  BY <1>6 DEF LoseWorker, Idle, TypeInv, TypeOK
<1>7. QED BY <1>1, <1>2, <1>3, <1>4, <1>5, <1>6

\* The steps of the worker loop put a retry at its place.
LEMMA WorkerPlaces ==
  ASSUME QueueInv, PlaceInv, NEW w \in Workers, WorkerStep(w) \/ LoseWorker(w)
  PROVE  PlaceInv'
<1> SUFFICES ASSUME clears' = 0, NEW i \in Ids PROVE PlaceOK(i)'
  BY DEF PlaceInv
<1> USE DEF history, redis, QueueInv
<1>1. clears = 0 /\ PlaceOK(i) /\ UNCHANGED client
  BY DEF WorkerStep, PopNext, Pop, Load, MarkRunning, MarkCompleted, FailLoad, FailStore,
     Requeue, LoseWorker, PlaceInv
<1>2. ASSUME NEW k \in Ids, Pop(w, k) PROVE PlaceOK(i)'
  <2>1. /\ UNCHANGED job /\ worker'[w].pc = "popped"
        /\ \A v \in Workers \ {w} : worker'[v] = worker[v]
        /\ IsQueued(i)' => job_queue'[i] = job_queue[i]
    BY <1>2 DEF Pop, ZAdd, Idle, IsQueued, NotQueued, TypeInv, TypeOK
  <2>2. QED BY <1>1, <2>1 DEF PlaceOK, Place, IsQueued, Holds, Fills
<1>3. CASE Requeue(w)
  <2>1. /\ worker[w].id \in Ids /\ worker[w].pc = "requeue" /\ UNCHANGED job
        /\ worker'[w].pc = "idle" /\ \A v \in Workers \ {w} : worker'[v] = worker[v]
        /\ job_queue' = [job_queue EXCEPT ![worker[w].id] = RetryPriority(worker[w].priority)]
    BY <1>3 DEF Requeue, ZAdd, Idle, TypeInv, TypeOK, HandsInv
  <2>2. CASE worker[w].id = i
    <3>1. job[i].attempts # 0 /\ worker[w].priority = job[i].priority
      BY <1>1, <2>1, <2>2 DEF PlaceOK, Holds
    <3>2. job_queue'[i] = RetryPriority(job[i].priority)
      BY <2>1, <2>2, <3>1 DEF TypeInv, TypeOK
    <3>3. QED BY <1>1, <2>1, <3>1, <3>2 DEF PlaceOK, Place, Holds, Fills
  <2>3. CASE worker[w].id # i
    <3>1. job_queue'[i] = job_queue[i]
      BY <2>1, <2>3 DEF TypeInv, TypeOK
    <3>2. QED BY <1>1, <2>1, <3>1 DEF PlaceOK, Place, IsQueued, Holds, Fills
  <2>4. QED BY <2>2, <2>3
<1>4. CASE \/ Load(w) \/ MarkRunning(w) \/ MarkCompleted(w)
           \/ FailLoad(w) \/ FailStore(w) \/ LoseWorker(w)
  <2>1. /\ UNCHANGED <<job_queue, client>>
        /\ \A v \in Workers : v # w => worker'[v] = worker[v]
        /\ worker[w].pc # "idle"
        /\ worker'[w].pc # "idle" => worker'[w].id = worker[w].id
    BY <1>4, MovesOnItsOwn
  <2>2. PICK k \in Ids : k = worker[w].id
    BY <2>1 DEF TypeInv, HandsInv
  <2>3. /\ \A j \in Ids \ {k} : job'[j] = job[j]
        /\ worker'[w].pc \in {"retrying", "requeue"} =>
             /\ worker'[w].priority = job'[k].priority
             /\ worker'[w].pc = "requeue" => job'[k].attempts > 0
    BY <1>1, <1>4, <2>2, HeldPlaces
  <2>4. CASE i = k
    <3>1. /\ ~IsQueued(i) /\ ~IsFilled(i)
          /\ \A v \in Workers : Holds(v, i) => v = w
      BY <1>1, <2>1, <2>2, <2>4 DEF SoleInv, OneHolder, IsHeld, Holds
    <3>2. ~IsQueued(i)' /\ (\A c \in Clients : ~Fills(c, i)')
          /\ \A v \in Workers : Holds(v, i)' => v = w
      BY <2>1, <3>1 DEF IsQueued, IsFilled, Fills, Holds
    <3>3. QED BY <2>3, <2>4, <3>2 DEF PlaceOK
  <2>5. CASE i # k
    BY <1>1, <2>1, <2>2, <2>3, <2>5 DEF PlaceOK, Place, IsQueued, Holds, Fills
  <2>6. QED BY <2>4, <2>5
<1>5. QED BY <1>2, <1>3, <1>4 DEF WorkerStep, PopNext

LEMMA NextPlaces == QueueInv /\ PlaceInv /\ [Next]_vars => PlaceInv'
<1> SUFFICES ASSUME QueueInv, PlaceInv, [Next]_vars PROVE PlaceInv'
  OBVIOUS
<1>1. CASE Clearing
  <2>1. clears' # 0
    BY <1>1 DEF Clearing, ClearKeys, ClearHashes, ClearQueue, ClearCounter, FlushDb,
       history, QueueInv, TypeInv, TypeOK, SoleInv, FreshInv
  <2>2. QED BY <2>1 DEF PlaceInv
<1>2. CASE UNCHANGED vars
  BY <1>2 DEF PlaceInv, PlaceOK, Place, IsQueued, Holds, Fills, vars, redis, history
<1>3. QED BY <1>1, <1>2, NextCases, ClientPlaces, WorkerPlaces

\* Only a worker's Pop takes an id from the sorted set, and it takes a first.
LEMMA OnlyPopTakes ==
  ASSUME QueueInv, Next, clears' = 0, NEW i \in Ids, IsQueued(i), ~IsQueued(i)'
  PROVE  First(i) /\ clears = 0
<1> USE DEF history, redis, QueueInv
<1>1. ASSUME NEW c \in Clients,
             \/ \E priority \in Given : NextId(c, priority)
             \/ StoreJob(c) \/ QueueJob(c) \/ LoseClient(c)
      PROVE  FALSE
  <2>1. CASE QueueJob(c)
    <3>1. client[c].priority # NotQueued
      BY <2>1, PriorityFacts DEF QueueJob, TypeInv, HandsInv
    <3>2. QED BY <2>1, <3>1 DEF QueueJob, ZAdd, IsQueued, TypeInv, TypeOK
  <2>2. CASE ~QueueJob(c)
    BY <1>1, <2>2 DEF NextId, StoreJob, LoseClient, IsQueued
  <2>3. QED BY <2>1, <2>2
<1>2. ~Clearing
  BY DEF Clearing, ClearKeys, ClearHashes, ClearQueue, ClearCounter, FlushDb,
     TypeInv, TypeOK, SoleInv, FreshInv
<1>3. PICK w \in Workers : WorkerStep(w) \/ LoseWorker(w)
  BY <1>1, <1>2, NextCases
<1>4. CASE \E k \in Ids : Pop(w, k)
  BY <1>4 DEF Pop, ZAdd, IsQueued, TypeInv, TypeOK
<1>5. CASE Requeue(w)
  <2>1. RetryPriority(worker[w].priority) # NotQueued
    BY <1>5, PriorityFacts DEF Requeue, TypeInv, HandsInv
  <2>2. QED BY <1>5, <2>1 DEF Requeue, ZAdd, IsQueued, TypeInv, TypeOK
<1>6. CASE \/ Load(w) \/ MarkRunning(w) \/ MarkCompleted(w)
           \/ FailLoad(w) \/ FailStore(w) \/ LoseWorker(w)
  BY <1>6, MovesOnItsOwn DEF IsQueued
<1>7. QED BY <1>3, <1>4, <1>5, <1>6 DEF WorkerStep, PopNext

\* For any number of workers, clients and jobs, whatever processes stop, and
\* until Redis is cleared: a worker takes a retry only when every job that waits
\* for its first try was given a lower priority than the retried one, by
\* whichever caller and of whatever type.
THEOREM FreshWorkFirst == Spec => FreshBeforeRetry
<1>1. Init => PlaceInv
  BY DEF Init, PlaceInv, PlaceOK, Place, IsQueued, Fills, Holds, Idle
<1>2. QueueInv /\ PlaceInv /\ [Next]_vars
        => [ \A i \in Ids :
               (IsQueued(i) /\ ~IsQueued(i)' /\ clears' = 0 /\ job[i].attempts > 0) =>
                 \A k \in Queued :
                   job[k].attempts = 0 => job[k].priority < job[i].priority ]_vars
  <2> SUFFICES ASSUME QueueInv, PlaceInv, Next, NEW i \in Ids,
                      IsQueued(i), ~IsQueued(i)', clears' = 0, job[i].attempts > 0,
                      NEW k \in Queued, job[k].attempts = 0
               PROVE  job[k].priority < job[i].priority
    BY DEF vars
  <2>1. First(i) /\ clears = 0
    BY OnlyPopTakes
  <2>2. k \in Ids /\ IsQueued(k) /\ job_queue[k] <= job_queue[i]
    BY <2>1 DEF First, Queued, IsQueued
  <2>3. job_queue[i] = Place(i) /\ job_queue[k] = Place(k)
    BY <2>1, <2>2 DEF PlaceInv, PlaceOK
  <2>4. /\ job[i].priority \in Int /\ job[k].priority \in Int
        /\ job[i].attempts \in Nat
    BY <2>1, <2>2 DEF QueueInv, TypeInv, TypeOK, Hashes, Stored
  <2>5. job_queue[i] = job[i].priority - 10 /\ job_queue[k] = job[k].priority
    BY <2>3, <2>4 DEF Place, RetryPriority
  <2>6. QED BY <2>2, <2>4, <2>5
<1>3. QED BY <1>1, <1>2, InitQueueInv, NextQueueInv, NextPlaces, PTL DEF Spec, FreshBeforeRetry

-----------------------------------------------------------------------------
(***************************************************************************)
(* The queue in Redis, with the processes that fill and empty it,          *)
(* implements JobDelivery as long as Redis is not cleared, for any number  *)
(* of workers, clients, jobs and lost processes.                           *)
(***************************************************************************)

\* A job in someone's hands is not settled, and one that has not reached the
\* sorted set has not been tried.
MapInv ==
  clears = 0 =>
    \A i \in Ids :
      /\ i > job_id_counter \/ InUse(i) => ~Settled(i)
      /\ i > job_id_counter \/ IsFilled(i) => job[i].attempts = 0

DeliveryInv == QueueInv /\ MapInv

\* Where a job is, as JobDelivery sees it, place by place.
PhasesKnown ==
  \A i \in Ids :
    /\ IsQueued(i) => PhaseOf(i) = "waiting" /\ TriesOf(i) = job[i].attempts
    /\ \A w \in Workers : Holds(w, i) =>
         /\ PhaseOf(i) = "taken"
         /\ TriesOf(i) = IF worker[w].pc = "requeue" THEN job[i].attempts - 1
                         ELSE job[i].attempts
    /\ i > job_id_counter \/ IsFilled(i) => PhaseOf(i) = "absent" /\ TriesOf(i) = 0
    /\ ~InUse(i) /\ i <= job_id_counter =>
         /\ PhaseOf(i) = IF Settled(i) THEN job[i].status ELSE "lost"
         /\ TriesOf(i) = job[i].attempts

LEMMA PhaseFacts == DeliveryInv /\ clears = 0 => PhasesKnown
<1> SUFFICES ASSUME DeliveryInv, clears = 0, NEW i \in Ids
             PROVE  /\ IsQueued(i) => PhaseOf(i) = "waiting" /\ TriesOf(i) = job[i].attempts
                    /\ \A w \in Workers : Holds(w, i) =>
                         /\ PhaseOf(i) = "taken"
                         /\ TriesOf(i) = IF worker[w].pc = "requeue" THEN job[i].attempts - 1
                                         ELSE job[i].attempts
                    /\ i > job_id_counter \/ IsFilled(i) =>
                         PhaseOf(i) = "absent" /\ TriesOf(i) = 0
                    /\ ~InUse(i) /\ i <= job_id_counter =>
                         /\ PhaseOf(i) = IF Settled(i) THEN job[i].status ELSE "lost"
                         /\ TriesOf(i) = job[i].attempts
  BY DEF PhasesKnown
<1> USE DEF DeliveryInv, QueueInv
<1>1. /\ \A v, w \in Workers : Holds(v, i) /\ Holds(w, i) => v = w
      /\ ~(IsHeld(i) /\ IsQueued(i))
      /\ IsFilled(i) => ~IsHeld(i) /\ ~IsQueued(i)
      /\ i > job_id_counter => ~InUse(i)
  <2>1. job_id_counter \in Nat /\ i \in Nat
    BY DEF TypeInv, TypeOK, Ids
  <2>2. QED BY <2>1 DEF SoleInv, OneHolder, FreshInv
<1>2. ~IsHeld(i) => TriesOf(i) = job[i].attempts
  BY DEF TriesOf, IsHeld
<1>3. IsQueued(i) => PhaseOf(i) = "waiting" /\ TriesOf(i) = job[i].attempts
  BY <1>1, <1>2 DEF PhaseOf
<1>4. ASSUME NEW w \in Workers, Holds(w, i)
      PROVE  /\ PhaseOf(i) = "taken"
             /\ TriesOf(i) = IF worker[w].pc = "requeue" THEN job[i].attempts - 1
                             ELSE job[i].attempts
  <2>1. IsHeld(i) /\ ~IsQueued(i)
    BY <1>1, <1>4 DEF IsHeld
  <2>2. (\E v \in Workers : Holds(v, i) /\ worker[v].pc = "requeue")
          <=> worker[w].pc = "requeue"
    BY <1>1, <1>4
  <2>3. QED BY <2>1, <2>2 DEF PhaseOf, TriesOf
<1>5. i > job_id_counter \/ IsFilled(i) => PhaseOf(i) = "absent" /\ TriesOf(i) = 0
  BY <1>1, <1>2 DEF PhaseOf, InUse, MapInv
<1>6. ~InUse(i) /\ i <= job_id_counter =>
        /\ PhaseOf(i) = IF Settled(i) THEN job[i].status ELSE "lost"
        /\ TriesOf(i) = job[i].attempts
  <2>1. ~(i > job_id_counter /\ i <= job_id_counter)
    BY DEF TypeInv, TypeOK, Ids
  <2>2. QED BY <1>2, <2>1 DEF PhaseOf, InUse
<1>7. QED BY <1>3, <1>4, <1>5, <1>6

-----------------------------------------------------------------------------
\* A job is where it was when no process that has it moves.
LEMMA StaysPut ==
  ASSUME NEW i \in Ids,
         job'[i] = job[i], job_queue'[i] = job_queue[i],
         i > job_id_counter' <=> i > job_id_counter,
         \A w \in Workers : /\ Holds(w, i)' <=> Holds(w, i)
                            /\ Holds(w, i) => worker'[w] = worker[w],
         \A c \in Clients : Fills(c, i)' <=> Fills(c, i)
  PROVE  PhaseOf(i)' = PhaseOf(i) /\ TriesOf(i)' = TriesOf(i)
<1>1. /\ IsQueued(i)' <=> IsQueued(i)
      /\ IsHeld(i)' <=> IsHeld(i)
      /\ IsFilled(i)' <=> IsFilled(i)
      /\ Settled(i)' <=> Settled(i)
  BY DEF IsQueued, IsHeld, IsFilled, Settled
<1>2. (\E w \in Workers : Holds(w, i) /\ worker[w].pc = "requeue")'
        <=> \E w \in Workers : Holds(w, i) /\ worker[w].pc = "requeue"
  OBVIOUS
<1>3. PhaseOf(i)' = PhaseOf(i)
  BY <1>1 DEF PhaseOf
<1>4. QED BY <1>2, <1>3 DEF TriesOf

\* What may become of one job in a step.
MayBecome(p, t, q, u) ==
  \/ q = p /\ u = t
  \/ p = "absent" /\ q \in {"waiting", "lost"} /\ u = t
  \/ p = "waiting" /\ q = "taken" /\ u = t
  \/ p = "taken" /\ q \in {"completed", "lost"} /\ u = t
  \/ p = "taken" /\ q \in {"waiting", "lost"} /\ t + 1 < MaxAttempts /\ u = t + 1
  \/ p = "taken" /\ q = "failed" /\ t + 1 = MaxAttempts /\ u = t + 1

\* A step that moves one job, as JobDelivery allows, is a step of it.
LEMMA OneJobMoves ==
  ASSUME NEW k \in Ids,
         \A i \in Ids : i # k => PhaseOf(i)' = PhaseOf(i) /\ TriesOf(i)' = TriesOf(i),
         MayBecome(PhaseOf(k), TriesOf(k), PhaseOf(k)', TriesOf(k)')
  PROVE  [Delivery!DNext]_(Delivery!dvars)
<1> DEFINE phase == [i \in Ids |-> PhaseOf(i)]
           tries == [i \in Ids |-> TriesOf(i)]
<1>1. phase' = [phase EXCEPT ![k] = PhaseOf(k)']
  OBVIOUS
<1>2. tries' = [tries EXCEPT ![k] = TriesOf(k)']
  OBVIOUS
<1>3. phase[k] = PhaseOf(k) /\ tries[k] = TriesOf(k)
  OBVIOUS
<1>4. TriesOf(k)' = TriesOf(k) => UNCHANGED tries
  BY <1>2
<1>5. PhaseOf(k)' = PhaseOf(k) => UNCHANGED phase
  BY <1>1
<1> USE DEF Delivery!DNext, Delivery!dvars
<1> HIDE DEF phase, tries
<1>6. QED
  BY <1>1, <1>2, <1>3, <1>4, <1>5
  DEF MayBecome, Delivery!Submit, Delivery!Take, Delivery!Complete, Delivery!Retry,
      Delivery!GiveUp, Delivery!Lose, Delivery!Move, phase, tries

-----------------------------------------------------------------------------
(***************************************************************************)
(* The steps, as long as Redis is not cleared.                             *)
(***************************************************************************)
\* A client's steps keep MapInv: a new id is unused and the hash it gets new.
LEMMA ClientMap ==
  ASSUME DeliveryInv, clears = 0, NEW c \in Clients,
         (\E priority \in Given : NextId(c, priority)) \/ StoreJob(c) \/ QueueJob(c) \/ LoseClient(c)
  PROVE  MapInv'
<1> USE DEF history, redis, DeliveryInv, QueueInv
<1>1. ASSUME NEW priority \in Given, NextId(c, priority) PROVE MapInv'
  <2>1. /\ job_id_counter' = job_id_counter + 1 /\ job_id_counter \in Nat
        /\ UNCHANGED <<job, job_queue, worker>>
    BY <1>1 DEF NextId, TypeInv, TypeOK
  <2>2. \A i \in Ids, d \in Clients :
          Fills(d, i)' => Fills(d, i) \/ i = job_id_counter + 1
    BY <1>1 DEF NextId, Fills, TypeInv, TypeOK
  <2>3. ASSUME NEW i \in Ids
        PROVE  /\ i > job_id_counter' => i > job_id_counter
               /\ i = job_id_counter + 1 => i > job_id_counter
               /\ InUse(i)' => InUse(i) \/ i > job_id_counter
               /\ IsFilled(i)' => IsFilled(i) \/ i > job_id_counter
               /\ Settled(i)' <=> Settled(i)
    BY <2>1, <2>2 DEF InUse, IsQueued, IsHeld, IsFilled, Holds, Settled, Ids
  <2>4. QED BY <2>1, <2>3 DEF MapInv
<1>2. CASE StoreJob(c)
  <2>0. PICK k \in Ids : k = client[c].id
    BY <1>2 DEF StoreJob, TypeInv, HandsInv
  <2>1. /\ UNCHANGED <<job_queue, job_id_counter, worker>>
        /\ job'[k].status = "pending" /\ job'[k].attempts = 0
        /\ \A i \in Ids : i # k => job'[i] = job[i]
        /\ \A d \in Clients : client'[d].id = client[d].id
        /\ \A d \in Clients : client'[d].pc # "idle" => client[d].pc # "idle"
    BY <1>2, <2>0 DEF StoreJob, TypeInv, TypeOK, Locals
  <2>2. QED BY <2>1 DEF MapInv, InUse, IsQueued, IsHeld, IsFilled, Holds, Fills, Settled,
               StoreJob
<1>3. CASE QueueJob(c)
  <2>0. PICK k \in Ids : k = client[c].id
    BY <1>3 DEF QueueJob, TypeInv, HandsInv
  <2>1. Fills(c, k) /\ InUse(k)
    BY <1>3, <2>0 DEF QueueJob, Fills, InUse, IsFilled
  <2>2. /\ UNCHANGED <<job, job_id_counter, worker>>
        /\ \A i \in Ids : IsQueued(i)' => IsQueued(i) \/ i = k
        /\ \A i \in Ids, d \in Clients : Fills(d, i)' => Fills(d, i)
    BY <1>3, <2>0 DEF QueueJob, ZAdd, IsQueued, Fills, Idle, TypeInv, TypeOK
  <2>3. ASSUME NEW i \in Ids
        PROVE  /\ InUse(i)' => InUse(i)
               /\ IsFilled(i)' => IsFilled(i)
               /\ Settled(i)' <=> Settled(i)
    BY <2>1, <2>2 DEF InUse, IsHeld, IsFilled, Holds, Settled
  <2>4. QED BY <2>2, <2>3 DEF MapInv
<1>4. CASE LoseClient(c)
  <2>1. /\ UNCHANGED <<job, job_queue, job_id_counter, worker>>
        /\ \A i \in Ids, d \in Clients : Fills(d, i)' => Fills(d, i)
    BY <1>4 DEF LoseClient, Fills, Idle, TypeInv, TypeOK
  <2>2. QED BY <2>1 DEF MapInv, InUse, IsQueued, IsHeld, IsFilled, Holds, Settled
<1>5. QED BY <1>1, <1>2, <1>3, <1>4

\* Who works on a job is in no other hands' way, and the hash is complete.
LEMMA AtWork ==
  ASSUME QueueInv, clears = 0, NEW w \in Workers, worker[w].pc # "idle"
  PROVE  \E k \in Ids : /\ k = worker[w].id /\ Holds(w, k) /\ Own(k) /\ HeldInv(w, k)
                        /\ InUse(k) /\ ~IsQueued(k) /\ ~IsFilled(k)
                        /\ \A v \in Workers : Holds(v, k) => v = w
                        /\ k <= job_id_counter
                        /\ worker[w].attempts \in Nat /\ job[k].attempts \in Nat
BY DEF QueueInv, TypeInv, TypeOK, HandsInv, Locals, Hashes, SoleInv, FreshInv, OneHolder,
   RunsInv, HeldInv, Holds, IsHeld, InUse

\* A worker's steps keep MapInv: an outcome is recorded as the id is let go.
LEMMA WorkerMap ==
  ASSUME DeliveryInv, clears = 0, NEW w \in Workers, WorkerStep(w) \/ LoseWorker(w)
  PROVE  MapInv'
<1> USE DEF history, redis, DeliveryInv, QueueInv
<1>1. ASSUME NEW k \in Ids, Pop(w, k) PROVE MapInv'
  <2>1. /\ UNCHANGED <<job, job_id_counter, client>>
        /\ IsQueued(k)
        /\ \A i \in Ids : IsQueued(i)' => IsQueued(i)
        /\ \A i \in Ids, v \in Workers : Holds(v, i)' => Holds(v, i) \/ i = k
    BY <1>1 DEF Pop, ZAdd, First, Queued, IsQueued, NotQueued, Holds, Idle, TypeInv, TypeOK
  <2>2. ASSUME NEW i \in Ids
        PROVE  /\ InUse(i)' => InUse(i)
               /\ IsFilled(i)' <=> IsFilled(i)
               /\ Settled(i)' <=> Settled(i)
    BY <2>1 DEF InUse, IsHeld, IsFilled, Fills, Settled
  <2>3. QED BY <2>1, <2>2 DEF MapInv
<1>2. CASE Requeue(w)
  <2>1. PICK k \in Ids : k = worker[w].id /\ InUse(k)
    BY <1>2, AtWork DEF Requeue
  <2>2. /\ UNCHANGED <<job, job_id_counter, client>>
        /\ \A i \in Ids : IsQueued(i)' => IsQueued(i) \/ i = k
        /\ \A i \in Ids, v \in Workers : Holds(v, i)' => Holds(v, i)
    BY <1>2, <2>1 DEF Requeue, ZAdd, IsQueued, Holds, Idle, TypeInv, TypeOK
  <2>3. ASSUME NEW i \in Ids
        PROVE  /\ InUse(i)' => InUse(i)
               /\ IsFilled(i)' <=> IsFilled(i)
               /\ Settled(i)' <=> Settled(i)
    BY <2>1, <2>2 DEF InUse, IsHeld, IsFilled, Fills, Settled
  <2>4. QED BY <2>2, <2>3 DEF MapInv
<1>3. CASE \/ Load(w) \/ MarkRunning(w) \/ MarkCompleted(w)
          \/ FailLoad(w) \/ FailStore(w) \/ LoseWorker(w)
  <2>1. /\ UNCHANGED <<job_queue, job_id_counter, client>>
        /\ \A v \in Workers : v # w => worker'[v] = worker[v]
        /\ worker[w].pc # "idle"
        /\ worker'[w].pc # "idle" => worker'[w].id = worker[w].id
    BY <1>3, MovesOnItsOwn
  <2>2. PICK k \in Ids : /\ k = worker[w].id /\ Holds(w, k)
                        /\ InUse(k) /\ ~IsQueued(k) /\ ~IsFilled(k)
                        /\ \A v \in Workers : Holds(v, k) => v = w
                        /\ k <= job_id_counter
                        /\ worker[w].attempts \in Nat /\ job[k].attempts \in Nat
    BY <2>1, AtWork
  <2>3. /\ \A i \in Ids : i # k => job'[i] = job[i]
        /\ worker'[w].pc # "idle" => ~Settled(k)'
    <3>1. ~Settled(k) /\ worker[w].attempts + 1 \in Nat
      BY <2>2 DEF MapInv
    <3>2. CASE Load(w) \/ FailLoad(w) \/ LoseWorker(w)
      BY <3>1, <3>2 DEF Load, FailLoad, LoseWorker, Settled
    <3>3. CASE MarkRunning(w)
      BY <2>2, <3>3, HSetFacts DEF MarkRunning, Settled
    <3>4. CASE MarkCompleted(w)
      BY <2>2, <3>4, HSetFacts DEF MarkCompleted, Idle, TypeInv, TypeOK
    <3>5. CASE FailStore(w) /\ MayRetry(w)
      <4>1. HSetStatus(k, "pending", worker[w].attempts + 1)
        BY <2>2, <3>5 DEF FailStore
      <4>2. QED BY <3>1, <4>1, HSetFacts DEF Settled
    <3>6. CASE FailStore(w) /\ ~MayRetry(w)
      <4>1. HSetStatus(k, "failed", worker[w].attempts + 1) /\ worker'[w].pc = "idle"
        BY <2>2, <3>6 DEF FailStore, Idle, TypeInv, TypeOK
      <4>2. QED BY <3>1, <4>1, HSetFacts
    <3>7. QED BY <1>3, <3>2, <3>3, <3>4, <3>5, <3>6
  <2>4. ASSUME NEW i \in Ids
        PROVE  /\ i > job_id_counter' \/ InUse(i)' => ~Settled(i)'
               /\ i > job_id_counter' \/ IsFilled(i)' => job'[i].attempts = 0
    <3>1. CASE i = k
      <4>1. ~(k > job_id_counter)
        BY <2>2 DEF TypeInv, TypeOK, Ids
      <4>2. ~IsQueued(k)' /\ ~IsFilled(k)'
        BY <2>1, <2>2 DEF IsQueued, IsFilled, Fills
      <4>3. IsHeld(k)' => worker'[w].pc # "idle"
        BY <2>1, <2>2 DEF IsHeld, Holds
      <4>4. QED BY <3>1, <2>1, <2>3, <4>1, <4>2, <4>3 DEF InUse
    <3>2. CASE i # k
      <4>1. /\ \A v \in Workers : Holds(v, i)' => Holds(v, i)
            /\ job'[i] = job[i]
        BY <3>2, <2>1, <2>2, <2>3 DEF Holds
      <4>2. QED BY <4>1, <2>1 DEF MapInv, InUse, IsQueued, IsHeld, IsFilled, Fills, Settled
    <3>3. QED BY <3>1, <3>2
  <2>5. QED BY <2>4 DEF MapInv
<1>4. QED BY <1>1, <1>2, <1>3 DEF WorkerStep, PopNext

\* Redis that was not cleared was not cleared before, and is not being.
LEMMA NotCleared ==
  ASSUME TypeInv, SoleInv, [Next]_vars, clears' = 0
  PROVE  clears = 0 /\ (UNCHANGED vars \/ ~Clearing)
<1>1. CASE Clearing
  BY <1>1 DEF Clearing, ClearKeys, ClearHashes, ClearQueue, ClearCounter, FlushDb, history,
     TypeInv, TypeOK, SoleInv, FreshInv
<1>2. ASSUME NEW c \in Clients,
             (\E priority \in Given : NextId(c, priority)) \/ StoreJob(c) \/ QueueJob(c) \/ LoseClient(c)
      PROVE  clears' = clears
  BY <1>2 DEF NextId, StoreJob, QueueJob, LoseClient, history
<1>3. ASSUME NEW w \in Workers, WorkerStep(w) \/ LoseWorker(w)
      PROVE  clears' = clears
  BY <1>3 DEF WorkerStep, PopNext, Pop, Load, MarkRunning, MarkCompleted, FailLoad,
     FailStore, Requeue, LoseWorker, history
<1>4. CASE ~Clearing
  BY <1>2, <1>3, <1>4, NextCases DEF vars, history
<1>5. QED BY <1>1, <1>4

\* Every step preserves the invariant.
LEMMA NextDeliveryInv == DeliveryInv /\ [Next]_vars => DeliveryInv'
<1> SUFFICES ASSUME DeliveryInv, [Next]_vars, clears' = 0 PROVE MapInv'
  BY NextQueueInv DEF DeliveryInv, MapInv
<1>1. CASE UNCHANGED vars
  BY <1>1 DEF DeliveryInv, MapInv, InUse, IsQueued, IsHeld, IsFilled, Holds, Fills, Settled,
     vars, redis, history
<1>2. clears = 0 /\ (UNCHANGED vars \/ ~Clearing)
  BY NotCleared DEF DeliveryInv, QueueInv
<1>3. QED BY <1>1, <1>2, NextCases, ClientMap, WorkerMap

-----------------------------------------------------------------------------
(***************************************************************************)
(* The step simulation.                                                    *)
(***************************************************************************)
\* enqueue() submits the job with its ZADD; before, the job is absent.
LEMMA ClientMaps ==
  ASSUME DeliveryInv, PhasesKnown, DeliveryInv', PhasesKnown', clears = 0, NEW c \in Clients,
         (\E priority \in Given : NextId(c, priority)) \/ StoreJob(c) \/ QueueJob(c) \/ LoseClient(c)
  PROVE  [Delivery!DNext]_(Delivery!dvars)
<1> USE DEF history, redis, DeliveryInv, QueueInv
<1>1. ASSUME NEW priority \in Given, NextId(c, priority) PROVE [Delivery!DNext]_(Delivery!dvars)
  <2>0. PICK k \in Ids : k = job_id_counter + 1
    BY <1>1 DEF NextId, TypeInv, TypeOK, HandsInv, Ids
  <2>1. /\ UNCHANGED <<job, job_queue, worker>>
        /\ job_id_counter' = job_id_counter + 1 /\ job_id_counter \in Nat
        /\ \A i \in Ids : i # k => \A d \in Clients : Fills(d, i)' <=> Fills(d, i)
        /\ Fills(c, k)'
    BY <1>1, <2>0 DEF NextId, Fills, TypeInv, TypeOK
  <2>2. ASSUME NEW i \in Ids, i # k
        PROVE  PhaseOf(i)' = PhaseOf(i) /\ TriesOf(i)' = TriesOf(i)
    <3>1. i > job_id_counter' <=> i > job_id_counter
      BY <2>0, <2>1, <2>2 DEF Ids
    <3>2. \A w \in Workers : Holds(w, i)' <=> Holds(w, i)
      BY <2>1 DEF Holds
    <3>3. QED BY <2>1, <2>2, <3>1, <3>2, StaysPut
  <2>3. /\ PhaseOf(k) = "absent" /\ TriesOf(k) = 0
        /\ PhaseOf(k)' = "absent" /\ TriesOf(k)' = 0
    BY <2>0, <2>1 DEF PhasesKnown, IsFilled, Ids
  <2>4. QED BY <2>2, <2>3, OneJobMoves DEF MayBecome
<1>2. CASE StoreJob(c) \/ QueueJob(c) \/ LoseClient(c)
  <2>0. PICK k \in Ids : k = client[c].id /\ Fills(c, k) /\ IsFilled(k)
    BY <1>2 DEF StoreJob, QueueJob, LoseClient, TypeInv, HandsInv, Fills, IsFilled
  <2>1. /\ UNCHANGED <<job_id_counter, worker>>
        /\ \A i \in Ids : i # k => job'[i] = job[i] /\ job_queue'[i] = job_queue[i]
        /\ \A i \in Ids : i # k => \A d \in Clients : Fills(d, i)' <=> Fills(d, i)
    <3>1. CASE StoreJob(c)
      BY <2>0, <3>1 DEF StoreJob, Fills, TypeInv, TypeOK, Locals
    <3>2. CASE QueueJob(c)
      BY <2>0, <3>2 DEF QueueJob, ZAdd, Fills, Idle, TypeInv, TypeOK
    <3>3. CASE LoseClient(c)
      BY <2>0, <3>3 DEF LoseClient, Fills, Idle, TypeInv, TypeOK
    <3>4. QED BY <1>2, <3>1, <3>2, <3>3
  <2>2. ASSUME NEW i \in Ids, i # k
        PROVE  PhaseOf(i)' = PhaseOf(i) /\ TriesOf(i)' = TriesOf(i)
    <3>1. \A w \in Workers : Holds(w, i)' <=> Holds(w, i)
      BY <2>1 DEF Holds
    <3>2. QED BY <2>1, <2>2, <3>1, StaysPut
  <2>3. PhaseOf(k) = "absent" /\ TriesOf(k) = 0 /\ job[k].attempts = 0
    BY <1>2, <2>0 DEF PhasesKnown, MapInv
  <2>4. CASE StoreJob(c)
    <3>1. IsFilled(k)'
      BY <2>0, <2>4 DEF StoreJob, IsFilled, Fills, TypeInv, TypeOK, Locals
    <3>2. PhaseOf(k)' = "absent" /\ TriesOf(k)' = 0
      BY <3>1 DEF PhasesKnown
    <3>3. QED BY <2>2, <2>3, <3>2, OneJobMoves DEF MayBecome
  <2>5. CASE QueueJob(c)
    <3>1. client[c].priority # NotQueued
      BY <2>5, PriorityFacts DEF QueueJob, TypeInv, HandsInv
    <3>2. IsQueued(k)' /\ job' = job
      BY <2>0, <2>5, <3>1 DEF QueueJob, ZAdd, IsQueued, TypeInv, TypeOK
    <3>3. PhaseOf(k)' = "waiting" /\ TriesOf(k)' = 0
      BY <2>3, <3>2 DEF PhasesKnown
    <3>4. QED BY <2>2, <2>3, <3>3, OneJobMoves DEF MayBecome
  <2>6. CASE LoseClient(c)
    <3>1. /\ ~IsQueued(k) /\ ~IsHeld(k) /\ \A d \in Clients : Fills(d, k) => d = c
          /\ k <= job_id_counter /\ ~Settled(k)
      BY <1>2, <2>0 DEF SoleInv, OneHolder, FreshInv, InUse, MapInv
    <3>2. UNCHANGED <<job, job_queue>> /\ \A d \in Clients : ~Fills(d, k)'
      BY <2>6, <3>1 DEF LoseClient, Fills, Idle, TypeInv, TypeOK
    <3>3. ~InUse(k)' /\ ~Settled(k)' /\ k <= job_id_counter'
      BY <2>1, <3>1, <3>2 DEF InUse, IsQueued, IsHeld, IsFilled, Holds, Settled
    <3>4. PhaseOf(k)' = "lost" /\ TriesOf(k)' = 0
      BY <2>3, <3>2, <3>3 DEF PhasesKnown
    <3>5. QED BY <2>2, <2>3, <3>4, OneJobMoves DEF MayBecome
  <2>7. QED BY <1>2, <2>4, <2>5, <2>6
<1>3. QED BY <1>1, <1>2

\* BZPOPMIN takes the job, the end of its run settles it or the ZADD of a
\* retry puts it back; what a worker does in between does not show.
LEMMA WorkerMaps ==
  ASSUME DeliveryInv, PhasesKnown, DeliveryInv', PhasesKnown', clears = 0, NEW w \in Workers,
         WorkerStep(w) \/ LoseWorker(w)
  PROVE  [Delivery!DNext]_(Delivery!dvars)
<1> USE DEF history, redis, DeliveryInv, QueueInv
<1>1. ASSUME NEW k \in Ids, Pop(w, k) PROVE [Delivery!DNext]_(Delivery!dvars)
  <2>1. /\ UNCHANGED <<job, job_id_counter, client>>
        /\ IsQueued(k) /\ worker[w].pc = "idle"
        /\ \A i \in Ids : i # k => job_queue'[i] = job_queue[i]
        /\ \A v \in Workers : v # w => worker'[v] = worker[v]
        /\ worker'[w].pc = "popped" /\ worker'[w].id = k
    BY <1>1 DEF Pop, ZAdd, First, Queued, IsQueued, Idle, TypeInv, TypeOK
  <2>2. ASSUME NEW i \in Ids, i # k
        PROVE  PhaseOf(i)' = PhaseOf(i) /\ TriesOf(i)' = TriesOf(i)
    <3>1. \A v \in Workers : /\ Holds(v, i)' <=> Holds(v, i)
                             /\ Holds(v, i) => worker'[v] = worker[v]
      BY <2>1, <2>2 DEF Holds
    <3>2. \A c \in Clients : Fills(c, i)' <=> Fills(c, i)
      BY <2>1 DEF Fills
    <3>3. QED BY <2>1, <2>2, <3>1, <3>2, StaysPut
  <2>3. PhaseOf(k) = "waiting" /\ TriesOf(k) = job[k].attempts
    BY <2>1 DEF PhasesKnown
  <2>4. Holds(w, k)'
    BY <2>1 DEF Holds
  <2>5. PhaseOf(k)' = "taken" /\ TriesOf(k)' = job[k].attempts
    BY <2>1, <2>4 DEF PhasesKnown
  <2>6. QED BY <2>2, <2>3, <2>5, OneJobMoves DEF MayBecome
<1> SUFFICES ASSUME ~PopNext(w) PROVE [Delivery!DNext]_(Delivery!dvars)
  BY <1>1 DEF PopNext
<1>2. worker[w].pc # "idle"
  BY DEF WorkerStep, Load, MarkRunning, MarkCompleted, FailLoad, FailStore, Requeue, LoseWorker
<1>3. PICK k \in Ids : /\ k = worker[w].id /\ Holds(w, k) /\ Own(k) /\ HeldInv(w, k)
                      /\ InUse(k) /\ ~IsQueued(k) /\ ~IsFilled(k)
                      /\ \A v \in Workers : Holds(v, k) => v = w
                      /\ k <= job_id_counter
                      /\ worker[w].attempts \in Nat /\ job[k].attempts \in Nat
  BY <1>2, AtWork
<1>4. /\ UNCHANGED <<job_id_counter, client>>
      /\ \A i \in Ids : i # k => job_queue'[i] = job_queue[i]
      /\ \A v \in Workers : v # w => worker'[v] = worker[v]
      /\ worker'[w].pc # "idle" => worker'[w].id = k
  <2>1. CASE Requeue(w)
    BY <1>3, <2>1 DEF Requeue, ZAdd, Idle, TypeInv, TypeOK
  <2>2. CASE ~Requeue(w)
    BY <1>3, <2>2, MovesOnItsOwn DEF WorkerStep
  <2>3. QED BY <2>1, <2>2
<1>5. ASSUME \A i \in Ids : i # k => job'[i] = job[i],
             MayBecome(PhaseOf(k), TriesOf(k), PhaseOf(k)', TriesOf(k)')
      PROVE  [Delivery!DNext]_(Delivery!dvars)
  <2>1. ASSUME NEW i \in Ids, i # k
        PROVE  PhaseOf(i)' = PhaseOf(i) /\ TriesOf(i)' = TriesOf(i)
    <3>1. \A v \in Workers : /\ Holds(v, i)' <=> Holds(v, i)
                             /\ Holds(v, i) => worker'[v] = worker[v]
      BY <1>3, <1>4, <2>1 DEF Holds
    <3>2. \A c \in Clients : Fills(c, i)' <=> Fills(c, i)
      BY <1>4 DEF Fills
    <3>3. QED BY <1>4, <1>5, <2>1, <3>1, <3>2, StaysPut
  <2>2. QED BY <1>5, <2>1, OneJobMoves
<1>6. /\ PhaseOf(k) = "taken"
      /\ TriesOf(k) = IF worker[w].pc = "requeue" THEN job[k].attempts - 1
                      ELSE job[k].attempts
  BY <1>3 DEF PhasesKnown
<1>7. ASSUME worker'[w].pc # "idle"
      PROVE  /\ PhaseOf(k)' = "taken"
             /\ TriesOf(k)' = IF worker'[w].pc = "requeue" THEN job'[k].attempts - 1
                              ELSE job'[k].attempts
  <2>1. Holds(w, k)'
    BY <1>4, <1>7 DEF Holds
  <2>2. QED BY <2>1 DEF PhasesKnown
<1>8. ASSUME worker'[w].pc = "idle", UNCHANGED job_queue
      PROVE  /\ PhaseOf(k)' = IF Settled(k)' THEN job'[k].status ELSE "lost"
             /\ TriesOf(k)' = job'[k].attempts
  <2>1. ~InUse(k)' /\ k <= job_id_counter'
    BY <1>3, <1>4, <1>8 DEF InUse, IsQueued, IsHeld, IsFilled, Holds, Fills
  <2>2. QED BY <2>1 DEF PhasesKnown
<1>9. CASE Load(w) \/ FailLoad(w)
  <2>1. /\ job' = job /\ worker[w].pc # "requeue"
        /\ worker'[w].pc \in {"loaded", "retrying"}
    <3>1. CASE Load(w)
      BY <1>3, <3>1 DEF Load, Own, TypeInv, TypeOK, Locals
    <3>2. CASE FailLoad(w)
      BY <1>3, <3>2 DEF FailLoad, Own, TypeInv, TypeOK, Locals
    <3>3. QED BY <1>9, <3>1, <3>2
  <2>2. QED BY <1>5, <1>6, <1>7, <2>1 DEF MayBecome
<1>10. CASE MarkRunning(w)
  <2>1. /\ worker[w].pc = "loaded" /\ worker'[w].pc = "running"
        /\ HSetStatus(k, "running", job[k].attempts)
    BY <1>3, <1>10 DEF MarkRunning, TypeInv, TypeOK, Locals
  <2>2. /\ \A i \in Ids : i # k => job'[i] = job[i]
        /\ job'[k].attempts = job[k].attempts
    BY <1>3, <2>1, HSetFacts
  <2>3. QED BY <1>5, <1>6, <1>7, <2>1, <2>2 DEF MayBecome
<1>11. CASE MarkCompleted(w)
  <2>1. /\ worker[w].pc = "running" /\ worker'[w].pc = "idle" /\ UNCHANGED job_queue
        /\ HSetStatus(k, "completed", job[k].attempts)
    BY <1>3, <1>11 DEF MarkCompleted, Idle, TypeInv, TypeOK
  <2>2. /\ \A i \in Ids : i # k => job'[i] = job[i]
        /\ job'[k].attempts = job[k].attempts /\ job'[k].status = "completed"
    BY <1>3, <2>1, HSetFacts
  <2>3. PhaseOf(k)' = "completed" /\ TriesOf(k)' = job[k].attempts
    BY <1>8, <2>1, <2>2 DEF Settled
  <2>4. QED BY <1>5, <1>6, <2>1, <2>2, <2>3 DEF MayBecome
<1>12. CASE FailStore(w) /\ MayRetry(w)
  <2>1. /\ worker[w].pc = "retrying" /\ worker'[w].pc = "requeue"
        /\ worker[w].attempts = job[k].attempts
        /\ HSetStatus(k, "pending", job[k].attempts + 1)
    BY <1>3, <1>12 DEF FailStore, HeldInv, TypeInv, TypeOK, Locals
  <2>2. /\ \A i \in Ids : i # k => job'[i] = job[i]
        /\ job'[k].attempts = job[k].attempts + 1
    BY <1>3, <2>1, HSetFacts
  <2>3. TriesOf(k)' = job[k].attempts /\ PhaseOf(k)' = "taken"
    <3>1. PhaseOf(k)' = "taken" /\ TriesOf(k)' = job'[k].attempts - 1
      BY <1>7, <2>1
    <3>2. job[k].attempts \in Nat
      BY <1>3
    <3>3. QED BY <2>2, <3>1, <3>2
  <2>4. QED BY <1>5, <1>6, <2>1, <2>2, <2>3 DEF MayBecome
<1>13. CASE FailStore(w) /\ ~MayRetry(w)
  <2>1. /\ worker[w].pc = "retrying" /\ worker'[w].pc = "idle" /\ UNCHANGED job_queue
        /\ worker[w].attempts = job[k].attempts
        /\ HSetStatus(k, "failed", job[k].attempts + 1)
    BY <1>3, <1>13 DEF FailStore, HeldInv, Idle, TypeInv, TypeOK
  <2>2. /\ \A i \in Ids : i # k => job'[i] = job[i]
        /\ job'[k].attempts = job[k].attempts + 1 /\ job'[k].status = "failed"
    BY <1>3, <2>1, HSetFacts
  <2>3. job[k].attempts + 1 = MaxAttempts
    BY <1>3, <1>13, <2>1, QueueAssumption DEF MayRetry, Own
  <2>4. PhaseOf(k)' = "failed" /\ TriesOf(k)' = job[k].attempts + 1
    BY <1>8, <2>1, <2>2 DEF Settled
  <2>5. QED BY <1>5, <1>6, <2>1, <2>2, <2>3, <2>4 DEF MayBecome
<1>14. CASE Requeue(w)
  <2>1. worker[w].pc = "requeue" /\ job' = job
    BY <1>14 DEF Requeue
  <2>2. RetryPriority(worker[w].priority) # NotQueued
    BY <2>1, PriorityFacts DEF TypeInv, HandsInv
  <2>3. IsQueued(k)'
    BY <1>3, <1>14, <2>2 DEF Requeue, ZAdd, IsQueued, TypeInv, TypeOK
  <2>4. PhaseOf(k)' = "waiting" /\ TriesOf(k)' = job[k].attempts
    BY <2>1, <2>3 DEF PhasesKnown
  <2>5. job[k].attempts < MaxAttempts
    BY <1>3 DEF Own
  <2>6. QED BY <1>3, <1>5, <1>6, <2>1, <2>4, <2>5, QueueAssumption DEF MayBecome
<1>15. CASE LoseWorker(w)
  <2>1. worker'[w].pc = "idle" /\ UNCHANGED <<job, job_queue>>
    BY <1>15 DEF LoseWorker, Idle, TypeInv, TypeOK
  <2>2. ~Settled(k)'
    BY <1>3, <2>1 DEF MapInv, Settled
  <2>3. PhaseOf(k)' = "lost" /\ TriesOf(k)' = job[k].attempts
    BY <1>8, <2>1, <2>2
  <2>4. job[k].attempts < MaxAttempts
    BY <1>3 DEF Own
  <2>5. QED BY <1>3, <1>5, <1>6, <2>1, <2>3, <2>4, QueueAssumption DEF MayBecome
<1>16. QED BY <1>9, <1>10, <1>11, <1>12, <1>13, <1>14, <1>15 DEF WorkerStep

-----------------------------------------------------------------------------
\* For any number of workers, clients, jobs, lost processes and clearings: until
\* Redis is cleared, a job is submitted once, taken by one worker at a time,
\* tried at most max_attempts times and settled once.
THEOREM QueueImplementsDelivery == Spec => DeliversAsPromised
<1>1. Init => DeliveryInv
  BY InitQueueInv DEF DeliveryInv, MapInv, Init, NoHash, Settled
<1>2. Init => Delivery!DInit
  <2> SUFFICES ASSUME Init PROVE \A i \in Ids : PhaseOf(i) = "absent" /\ TriesOf(i) = 0
    BY DEF Delivery!DInit
  <2>1. \A i \in Ids : i > job_id_counter
    BY DEF Init, Ids
  <2>2. clears = 0
    BY DEF Init
  <2>3. PhasesKnown
    BY <1>1, <2>2, PhaseFacts
  <2>4. QED BY <2>1, <2>3 DEF PhasesKnown
<1>3. DeliveryInv /\ DeliveryInv' /\ [Next]_vars
        => [clears' = 0 => Delivery!DNext]_(Delivery!dvars)
  <2> SUFFICES ASSUME DeliveryInv, DeliveryInv', [Next]_vars, clears' = 0
               PROVE  [Delivery!DNext]_(Delivery!dvars)
    OBVIOUS
  <2>1. clears = 0 /\ (clears = 0)' /\ (UNCHANGED vars \/ ~Clearing)
    BY NotCleared DEF DeliveryInv, QueueInv
  <2>2. PhasesKnown /\ PhasesKnown'
    BY <2>1, PhaseFacts, PTL
  <2>3. CASE UNCHANGED vars
    BY <2>3 DEF Delivery!dvars, PhaseOf, TriesOf, IsQueued, IsHeld, IsFilled, Settled, Holds,
       Fills, vars, redis, history
  <2>4. QED BY <2>1, <2>2, <2>3, NextCases, ClientMaps, WorkerMaps
<1>4. QED BY <1>1, <1>2, <1>3, NextDeliveryInv, PTL DEF Spec, DeliversAsPromised
=============================================================================
