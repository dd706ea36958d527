------------------------ MODULE SourcePipelineProofs ------------------------
(***************************************************************************)
(* Proofs that the pipeline keeps its types, that extraction never runs    *)
(* ahead of the crawl and that no extraction outlives its source, for any  *)
(* workers, prompts, jobs and requests, and any number of tries and faults.*)
(***************************************************************************)
EXTENDS SourcePipeline, FiniteSetTheorems, TLAPS

\* A worker has at most one job, no two workers have the same, and the job
\* keeps its kind while its function runs.
CrawlPCs == {"crawling", "crawled", "enqueuing"}
HandsInv ==
  /\ \A w \in Workers : \A i, j \in worker[w].jobs : i = j
  /\ \A v, w \in Workers : \A j \in worker[v].jobs \cap worker[w].jobs : v = w
  /\ \A w \in Workers : \A j \in worker[w].jobs :
       /\ phase[j] = "taken"
       /\ At(w, "extracting") => kind[j] \in Prompts
       /\ worker[w].pc \in CrawlPCs => kind[j] = "crawl"

TypeInv == TypeOK /\ HandsInv

\* The steps of a worker and the requests, as Next lists them.
JobStep(w, j) ==
  \/ TakeJob(w, j) \/ MarkCompleted(w, j) \/ MarkFailed(w, j) \/ Crash(w, j)
  \/ StartCrawl(w, j) \/ StartExtract(w, j) \/ StoreExtraction(w, j)
OwnStep(w) ==
  \/ CrawlFails(w) \/ CrawlSucceeds(w) \/ ReadPrompts(w) \/ EnqueueFails(w)
  \/ MarkExtracting(w) \/ ExtractFails(w) \/ CheckCompletion(w) \/ CompleteSource(w)
BeginStep ==
  \/ CreateSource \/ ReExtract \/ ReExtractAll \/ RetryPending
  \/ RetryFailed \/ RetryExtracting \/ CleanupStuck

\* What Begin does, whichever the request.
LEMMA BeginsRequest ==
  ASSUME BeginStep, TypeOK
  PROVE  \E op \in AllOps, kinds \in SUBSET Kinds, dels \in SUBSET Prompts :
           /\ Begin(op, kinds, dels)
           /\ op = "create" => ops = 0 /\ kinds = {"crawl"}
           /\ kinds \cap Prompts # {} => markdown \/ status \in {"extracting", "completed"}
           /\ op \in {"re_extract", "re_extract_all"} =>
                kinds \subseteq Prompts /\ (markdown \/ status \in {"extracting", "completed"})
           /\ op = "re_extract" => kinds = active
           /\ op # "re_extract_all" => dels = {}
<1>0. AdminOps \subseteq AllOps
  BY PipelineAssumption
<1> USE <1>0 DEF AllOps, Kinds, TypeOK
<1>1. CASE CreateSource
  BY <1>1, PipelineAssumption DEF CreateSource
<1>2. CASE ReExtract
  BY <1>2, PipelineAssumption DEF ReExtract
<1>3. CASE ReExtractAll
  BY <1>3, PipelineAssumption DEF ReExtractAll
<1>4. CASE RetryPending
  BY <1>4, PipelineAssumption DEF RetryPending
<1>5. CASE RetryFailed
  BY <1>5, PipelineAssumption DEF RetryFailed
<1>6. CASE RetryExtracting
  BY <1>6, PipelineAssumption DEF RetryExtracting
<1>7. CASE CleanupStuck
  BY <1>7, PipelineAssumption DEF CleanupStuck
<1>8. QED BY <1>1, <1>2, <1>3, <1>4, <1>5, <1>6, <1>7 DEF BeginStep

-----------------------------------------------------------------------------
(***************************************************************************)
(* Types                                                                   *)
(***************************************************************************)
LEMMA InitTypes == Init => TypeInv
<1> SUFFICES ASSUME Init PROVE TypeInv
  OBVIOUS
<1>1. /\ NoJob \in [pc : WorkerPCs, jobs : SUBSET Jobs, seen : Statuses,
                    todo : SUBSET Prompts, stale : BOOLEAN]
      /\ NoRequest \in [op : AllOps \cup {"none"}, seen : Statuses,
                        todo : SUBSET Kinds, dels : SUBSET Prompts]
      /\ "none" \in Kinds /\ "none" \in Statuses /\ "absent" \in Phases
  BY DEF NoJob, NoRequest, WorkerPCs, Statuses, Kinds, Phases
<1>2. DeliveryTypeOK
  BY <1>1, PipelineAssumption DEF Init, DInit, DeliveryTypeOK
<1>3. kind \in [Jobs -> Kinds] /\ rows \subseteq Prompts /\ active \subseteq Prompts
      /\ owed \subseteq Prompts /\ ops \in 0..MaxOps /\ faults \in 0..MaxFaults
  BY <1>1, PipelineAssumption DEF Init
<1>4. TypeOK
  BY <1>1, <1>2, <1>3 DEF Init, TypeOK
<1>5. HandsInv
  BY DEF Init, HandsInv, NoJob, CrawlPCs
<1>6. QED BY <1>4, <1>5 DEF TypeInv

\* A worker moves on with the job it has, or without one.
LEMMA MovedTypes ==
  ASSUME TypeOK, NEW w \in Workers, NEW pc \in WorkerPCs
  PROVE  LET W == [pc : WorkerPCs, jobs : SUBSET Jobs, seen : Statuses,
                   todo : SUBSET Prompts, stale : BOOLEAN]
             Keeps(r) == r \in W /\ r.pc = pc /\ r.jobs = worker[w].jobs
         IN  /\ Keeps(Moved(w, pc))
             /\ \A now \in Statuses : Keeps([Moved(w, pc) EXCEPT !.seen = now])
<1>1. worker[w] \in [pc : WorkerPCs, jobs : SUBSET Jobs, seen : Statuses,
                     todo : SUBSET Prompts, stale : BOOLEAN]
  BY DEF TypeOK
<1>2. CASE pc \in {"done", "failing"}
  BY <1>1, <1>2 DEF Moved, NoJob, Statuses
<1>3. CASE pc \notin {"done", "failing"}
  BY <1>1, <1>3 DEF Moved
<1>4. QED BY <1>2, <1>3

\* Taking a job, and letting go of it.
LEMMA JobTypes ==
  ASSUME TypeInv, NEW w \in Workers, NEW j \in Jobs, JobStep(w, j)
  PROVE  TypeInv'
<1> DEFINE W == [pc : WorkerPCs, jobs : SUBSET Jobs, seen : Statuses,
                 todo : SUBSET Prompts, stale : BOOLEAN]
<1>0. /\ TypeOK /\ HandsInv /\ worker \in [Workers -> W] /\ tries \in [Jobs -> 0..MaxAttempts]
      /\ phase \in [Jobs -> Phases] /\ kind \in [Jobs -> Kinds] /\ status \in Statuses
      /\ MaxAttempts \in Nat /\ MaxFaults \in Nat
  BY PipelineAssumption DEF TypeInv, TypeOK, DeliveryTypeOK
<1>1. CASE TakeJob(w, j)
  <2>1. /\ worker' = [worker EXCEPT ![w] = [NoJob EXCEPT !.pc = "taken", !.jobs = {j}]]
        /\ phase[j] = "waiting" /\ phase' = [phase EXCEPT ![j] = "taken"]
        /\ UNCHANGED <<tries, kind, source, active, api, owed, ops, faults>>
    BY <1>1 DEF TakeJob, Take, Move
  <2>2. [NoJob EXCEPT !.pc = "taken", !.jobs = {j}] \in W
    BY DEF NoJob, WorkerPCs, Statuses
  <2>3. TypeOK'
    BY <1>0, <2>1, <2>2 DEF TypeOK, DeliveryTypeOK, source, Phases
  <2>4. HandsInv'
    BY <1>0, <2>1 DEF HandsInv, At, NoJob, CrawlPCs
  <2>5. QED BY <2>3, <2>4 DEF TypeInv
<1>2. CASE MarkCompleted(w, j) \/ MarkFailed(w, j) \/ Crash(w, j)
  <2>0. {"waiting", "completed", "failed", "lost"} \subseteq Phases
    BY DEF Phases
  <2>1. /\ j \in worker[w].jobs /\ worker' = [worker EXCEPT ![w] = NoJob]
        /\ \E to \in Phases : phase' = [phase EXCEPT ![j] = to]
        /\ \/ tries' = tries
           \/ tries[j] + 1 <= MaxAttempts /\ tries' = [tries EXCEPT ![j] = @ + 1]
        /\ kind' = kind \/ kind' = [kind EXCEPT ![j] = "none"]
        /\ faults' = faults \/ (faults < MaxFaults /\ faults' = faults + 1)
        /\ UNCHANGED <<source, active, api, owed, ops>>
    <3>1. CASE MarkCompleted(w, j)
      BY <2>0, <3>1 DEF MarkCompleted, MyJob, Complete, Move
    <3>2. CASE MarkFailed(w, j)
      <4>1. Retry(j) \/ GiveUp(j)
        BY <3>2 DEF MarkFailed
      <4>2. /\ \E to \in Phases : phase' = [phase EXCEPT ![j] = to]
            /\ tries[j] + 1 <= MaxAttempts /\ tries' = [tries EXCEPT ![j] = @ + 1]
        BY <1>0, <2>0, <4>1 DEF Retry, GiveUp, Move
      <4>3. QED BY <3>2, <4>2 DEF MarkFailed, MyJob
    <3>3. CASE Crash(w, j)
      <4>1. phase' = [phase EXCEPT ![j] = "lost"]
        BY <3>3 DEF Crash, Lose, Move
      <4>2. QED BY <2>0, <3>3, <4>1 DEF Crash, MyJob
    <3>4. QED BY <1>2, <3>1, <3>2, <3>3
  <2>2. NoJob \in W
    BY DEF NoJob, WorkerPCs, Statuses
  <2>3. tries' \in [Jobs -> 0..MaxAttempts]
    BY <1>0, <2>1
  <2>4. phase' \in [Jobs -> Phases] /\ kind' \in [Jobs -> Kinds] /\ worker' \in [Workers -> W]
    BY <1>0, <2>1, <2>2 DEF Kinds
  <2>5. faults' \in 0..MaxFaults
    BY <1>0, <2>1 DEF TypeOK
  <2>6. TypeOK'
    BY <1>0, <2>1, <2>3, <2>4, <2>5 DEF TypeOK, DeliveryTypeOK, source
  <2>7. HandsInv'
    BY <1>0, <2>1 DEF HandsInv, At, NoJob, CrawlPCs
  <2>8. QED BY <2>6, <2>7 DEF TypeInv
<1>3. CASE StartCrawl(w, j) \/ StartExtract(w, j)
  <2>1. PICK pc \in WorkerPCs :
          /\ j \in worker[w].jobs
          /\ pc = "extracting" => kind[j] \in Prompts
          /\ pc \in CrawlPCs => kind[j] = "crawl"
          /\ worker' = [worker EXCEPT ![w] = [Moved(w, pc) EXCEPT !.seen = status]]
          /\ UNCHANGED <<queue, source, active, api, owed, ops, faults>>
    <3>1. CASE StartCrawl(w, j)
      BY <3>1 DEF StartCrawl, GoToSeeing, MyJob, WorkerPCs, CrawlPCs
    <3>2. CASE StartExtract(w, j)
      BY <3>2 DEF StartExtract, GoToSeeing, MyJob, WorkerPCs, CrawlPCs
    <3>3. QED BY <1>3, <3>1, <3>2
  <2> DEFINE next == [Moved(w, pc) EXCEPT !.seen = status]
  <2>2. next \in W /\ next.pc = pc /\ next.jobs = worker[w].jobs
    BY <1>0, MovedTypes
  <2>3. worker' = [worker EXCEPT ![w] = next] /\ worker' \in [Workers -> W]
    BY <1>0, <2>1, <2>2
  <2> HIDE DEF next
  <2>4. TypeOK'
    BY <1>0, <2>1, <2>3 DEF TypeOK, DeliveryTypeOK, source, queue
  <2>5. HandsInv'
    BY <1>0, <2>1, <2>2, <2>3 DEF HandsInv, CrawlPCs, At, queue
  <2>6. QED BY <2>4, <2>5 DEF TypeInv
<1>4. CASE StoreExtraction(w, j)
  <2>1. PICK pc \in {"stored", "failing"} :
          /\ kind[j] \in Prompts
          /\ worker' = [worker EXCEPT ![w] = Moved(w, pc)]
          /\ rows' \in {rows, rows \cup {kind[j]}} /\ owed' \in {owed, owed \ {kind[j]}}
          /\ UNCHANGED <<queue, status, markdown, active, api, ops, faults>>
    BY <1>0, <1>4 DEF StoreExtraction, GoTo, MyJob, HandsInv
  <2> DEFINE next == Moved(w, pc)
  <2>2. next \in W /\ next.pc = pc /\ next.jobs = worker[w].jobs
    <3>1. pc \in WorkerPCs
      BY DEF WorkerPCs
    <3>2. QED BY <1>0, <3>1, MovedTypes
  <2>3. worker' = [worker EXCEPT ![w] = next]
    BY <2>1
  <2> HIDE DEF next
  <2>4. TypeOK'
    BY <1>0, <2>1, <2>2, <2>3 DEF TypeOK, DeliveryTypeOK, queue
  <2>5. HandsInv'
    BY <1>0, <2>1, <2>2, <2>3 DEF HandsInv, CrawlPCs, At, queue
  <2>6. QED BY <2>4, <2>5 DEF TypeInv
<1>5. QED BY <1>1, <1>2, <1>3, <1>4 DEF JobStep

\* Steps inside a job.
LEMMA OwnTypes ==
  ASSUME TypeInv, NEW w \in Workers, OwnStep(w)
  PROVE  TypeInv'
<1> DEFINE W == [pc : WorkerPCs, jobs : SUBSET Jobs, seen : Statuses,
                 todo : SUBSET Prompts, stale : BOOLEAN]
<1>0. /\ TypeOK /\ HandsInv /\ worker \in [Workers -> W] /\ status \in Statuses
      /\ active \subseteq Prompts /\ markdown \in BOOLEAN
  BY DEF TypeInv, TypeOK
<1>1. PICK pc \in WorkerPCs \ {"extracting"}, now \in Statuses :
        /\ pc \in CrawlPCs => worker[w].pc \in CrawlPCs
        /\ \/ worker' = [worker EXCEPT ![w] = Moved(w, pc)]
           \/ worker' = [worker EXCEPT ![w] = [Moved(w, pc) EXCEPT !.seen = now]]
           \/ worker' = [worker EXCEPT ![w] = [Moved(w, pc) EXCEPT !.todo = active]]
  <2>1. ASSUME NEW pc \in WorkerPCs \ {"extracting"}, GoTo(w, pc)
        PROVE  worker' = [worker EXCEPT ![w] = Moved(w, pc)]
    BY <2>1 DEF GoTo
  <2>2. {"failing", "done", "completing"} \subseteq WorkerPCs \ {"extracting"}
        /\ "none" \in Statuses
        /\ {"failing", "done", "completing"} \cap CrawlPCs = {}
    BY DEF WorkerPCs, Statuses, CrawlPCs
  <2>3. CASE GoTo(w, "failing") \/ GoTo(w, "done") \/ GoTo(w, "completing")
    BY <2>1, <2>2, <2>3
  <2>4. CASE CrawlFails(w) \/ EnqueueFails(w) \/ ExtractFails(w)
    BY <2>3, <2>4 DEF CrawlFails, EnqueueFails, ExtractFails
  <2>5. CASE MarkExtracting(w) \/ CompleteSource(w)
    <3>1. GoTo(w, "failing") \/ GoTo(w, "done")
      BY <2>5 DEF MarkExtracting, CompleteSource
    <3>2. QED BY <2>3, <3>1
  <2>6. CASE CheckCompletion(w)
    <3>1. GoTo(w, "completing") \/ GoTo(w, "done")
      BY <2>6 DEF CheckCompletion
    <3>2. QED BY <2>3, <3>1
  <2>7. CASE CrawlSucceeds(w)
    <3>1. status' \in Statuses
      BY <1>0, <2>7 DEF CrawlSucceeds, Written, Statuses
    <3>2. PICK q \in {"crawled", "failing"} : GoToSeeing(w, q, status')
      BY <2>7 DEF CrawlSucceeds
    <3>3. q \in WorkerPCs \ {"extracting"}
          /\ worker' = [worker EXCEPT ![w] = [Moved(w, q) EXCEPT !.seen = status']]
      BY <3>2 DEF GoToSeeing, WorkerPCs
    <3>4. worker[w].pc \in CrawlPCs
      BY <2>7 DEF CrawlSucceeds, At, CrawlPCs
    <3>5. QED BY <3>1, <3>3, <3>4
  <2>8. CASE ReadPrompts(w)
    <3>1. CASE active = {}
      BY <2>2, <2>8, <3>1 DEF ReadPrompts
    <3>2. CASE active # {}
      <4>1. "enqueuing" \in WorkerPCs \ {"extracting"}
            /\ worker' = [worker EXCEPT ![w] = [Moved(w, "enqueuing") EXCEPT !.todo = active]]
            /\ worker[w].pc \in CrawlPCs
        BY <2>8, <3>2 DEF ReadPrompts, WorkerPCs, At, CrawlPCs
      <4>2. QED BY <2>2, <4>1
    <3>3. QED BY <3>1, <3>2
  <2>9. QED BY <2>4, <2>5, <2>6, <2>7, <2>8 DEF OwnStep
<1>2. /\ status' \in Statuses /\ markdown' \in BOOLEAN
      /\ faults' = faults \/ (faults < MaxFaults /\ faults' = faults + 1)
      /\ UNCHANGED <<queue, rows, active, api, owed, ops>>
  <2> USE <1>0 DEF Statuses, Written, source
  <2>1. CASE CrawlFails(w) \/ MarkExtracting(w) \/ CompleteSource(w)
    BY <2>1 DEF CrawlFails, MarkExtracting, CompleteSource
  <2>2. CASE CrawlSucceeds(w)
    BY <2>2 DEF CrawlSucceeds, Exists
  <2>3. CASE ReadPrompts(w) \/ EnqueueFails(w) \/ ExtractFails(w) \/ CheckCompletion(w)
    BY <2>3 DEF ReadPrompts, EnqueueFails, ExtractFails, CheckCompletion
  <2>4. QED BY <2>1, <2>2, <2>3 DEF OwnStep
<1>3. PICK next \in W : next.pc = pc /\ next.jobs = worker[w].jobs
                        /\ worker' = [worker EXCEPT ![w] = next]
  <2>1. /\ Moved(w, pc) \in W /\ Moved(w, pc).pc = pc /\ Moved(w, pc).jobs = worker[w].jobs
        /\ [Moved(w, pc) EXCEPT !.seen = now] \in W
        /\ [Moved(w, pc) EXCEPT !.seen = now].pc = pc
        /\ [Moved(w, pc) EXCEPT !.seen = now].jobs = worker[w].jobs
    BY <1>0, <1>1, MovedTypes
  <2>2. LET r == [Moved(w, pc) EXCEPT !.todo = active]
        IN  r \in W /\ r.pc = pc /\ r.jobs = worker[w].jobs
    BY <1>0, <2>1
  <2>3. QED BY <1>1, <2>1, <2>2
<1>4. TypeOK'
  BY <1>0, <1>3, <1>2, PipelineAssumption DEF TypeOK, DeliveryTypeOK, queue
<1>5. HandsInv'
  BY <1>0, <1>1, <1>3, <1>2 DEF HandsInv, CrawlPCs, At, queue
<1>6. QED BY <1>4, <1>5 DEF TypeInv

\* A new job is nobody's.
LEMMA EnqueueTypes ==
  ASSUME TypeInv, NEW j \in Jobs, NEW k \in Kinds,
         \/ \E w \in Workers : k \in Prompts /\ EnqueueExtract(w, k, j)
         \/ ApiEnqueue(k, j)
  PROVE  TypeInv'
<1>0. TypeOK /\ HandsInv
  BY DEF TypeInv
<1>1. /\ phase[j] = "absent" /\ phase' = [phase EXCEPT ![j] = "waiting"]
      /\ kind' = [kind EXCEPT ![j] = k]
      /\ UNCHANGED <<tries, source, active, owed, ops, faults>>
  BY DEF EnqueueExtract, ApiEnqueue, Enqueue, Submit, Move
<1>2. /\ worker' = worker \/ \E w \in Workers, p \in Prompts :
                               worker' = [worker EXCEPT ![w].todo = @ \ {p}]
      /\ api' = api \/ api' = [api EXCEPT !.todo = @ \ {k}]
  BY DEF EnqueueExtract, ApiEnqueue
<1>3. TypeOK'
  BY <1>0, <1>1, <1>2 DEF TypeOK, DeliveryTypeOK, source, Phases
<1>4. \A w \in Workers : worker'[w].jobs = worker[w].jobs /\ worker'[w].pc = worker[w].pc
  BY <1>0, <1>2 DEF TypeOK
<1>5. \A w \in Workers : worker[w].jobs \subseteq Jobs \ {j}
  BY <1>0, <1>1 DEF TypeOK, HandsInv
<1>6. \A i \in Jobs \ {j} : phase'[i] = phase[i] /\ kind'[i] = kind[i]
  BY <1>0, <1>1 DEF TypeOK, DeliveryTypeOK
<1>7. HandsInv'
  BY <1>0, <1>4, <1>5, <1>6 DEF HandsInv, CrawlPCs, At
<1>8. QED BY <1>3, <1>7 DEF TypeInv

\* Requests begin and commit.
LEMMA RequestTypes ==
  ASSUME TypeInv, BeginStep \/ ApiCommit
  PROVE  TypeInv'
<1>0. TypeOK /\ HandsInv /\ MaxOps \in Nat
  BY PipelineAssumption DEF TypeInv
<1>1. CASE BeginStep
  <2>1. PICK op \in AllOps, kinds \in SUBSET Kinds, dels \in SUBSET Prompts :
          /\ Begin(op, kinds, dels)
          /\ op \in {"re_extract", "re_extract_all"} => kinds \subseteq Prompts
    BY <1>0, <1>1, BeginsRequest
  <2>2. /\ ops < MaxOps /\ ops' = ops + 1
        /\ api' = [op |-> op, seen |-> status, todo |-> kinds, dels |-> dels]
        /\ UNCHANGED <<queue, source, active, faults>>
        /\ \/ /\ owed' = kinds /\ kinds \subseteq Prompts
              /\ worker' = [w \in Workers |-> [worker[w] EXCEPT !.stale = At(w, "extracting")]]
           \/ UNCHANGED <<owed, worker>>
    BY <2>1 DEF Begin
  <2>3. \A w \in Workers : At(w, "extracting") \in BOOLEAN
    BY DEF At
  <2>4. TypeOK'
    <3> DEFINE W == [pc : WorkerPCs, jobs : SUBSET Jobs, seen : Statuses,
                     todo : SUBSET Prompts, stale : BOOLEAN]
    <3>1. worker \in [Workers -> W] /\ status \in Statuses
      BY <1>0 DEF TypeOK
    <3>2. \A w \in Workers : [worker[w] EXCEPT !.stale = At(w, "extracting")] \in W
      BY <2>3, <3>1
    <3> HIDE DEF W
    <3>3. worker' \in [Workers -> W] /\ owed' \subseteq Prompts
      <4>1. owed \subseteq Prompts
        BY <1>0 DEF TypeOK
      <4>2. CASE worker' = worker
        BY <2>2, <3>1, <4>1, <4>2
      <4>3. CASE worker' = [w \in Workers |-> [worker[w] EXCEPT !.stale = At(w, "extracting")]]
        <5> DEFINE next(w) == [worker[w] EXCEPT !.stale = At(w, "extracting")]
        <5>1. \A w \in Workers : next(w) \in W
          BY <3>2
        <5>2. worker' = [w \in Workers |-> next(w)]
          BY <4>3
        <5> HIDE DEF next
        <5>3. worker' \in [Workers -> W]
          BY <5>1, <5>2
        <5>4. QED BY <2>2, <4>1, <5>3
      <4>4. QED BY <2>2, <4>2, <4>3
    <3>4. ops' \in 0..MaxOps
      BY <1>0, <2>2 DEF TypeOK
    <3>5. api' \in [op : AllOps \cup {"none"}, seen : Statuses,
                    todo : SUBSET Kinds, dels : SUBSET Prompts]
      BY <2>2, <3>1
    <3>6. QED BY <1>0, <2>2, <3>3, <3>4, <3>5 DEF TypeOK, DeliveryTypeOK, source, queue, W
  <2>5. \A w \in Workers : worker'[w].jobs = worker[w].jobs /\ worker'[w].pc = worker[w].pc
    BY <1>0, <2>2 DEF TypeOK
  <2>6. HandsInv'
    BY <1>0, <2>2, <2>5 DEF HandsInv, CrawlPCs, At, queue
  <2>7. QED BY <2>4, <2>6 DEF TypeInv
<1>2. CASE ApiCommit
  <2>1. status' \in Statuses
    BY <1>0, <1>2 DEF ApiCommit, StatusesAfter, Written, Statuses, TypeOK
  <2>2. TypeOK'
    BY <1>0, <1>2, <2>1 DEF ApiCommit, NoRequest, TypeOK, DeliveryTypeOK, queue, Statuses
  <2>3. HandsInv'
    BY <1>0, <1>2 DEF ApiCommit, HandsInv, CrawlPCs, At, queue
  <2>4. QED BY <2>2, <2>3 DEF TypeInv
<1>3. QED BY <1>1, <1>2

LEMMA StepTypes ==
  ASSUME TypeInv, [Next]_vars
  PROVE  TypeInv'
<1>0. TypeOK /\ HandsInv
  BY DEF TypeInv
<1>1. ASSUME NEW w \in Workers, NEW j \in Jobs, JobStep(w, j) PROVE TypeInv'
  BY <1>1, JobTypes
<1>2. ASSUME NEW w \in Workers, OwnStep(w) PROVE TypeInv'
  BY <1>2, OwnTypes
<1>3. ASSUME NEW j \in Jobs, NEW k \in Kinds,
             \/ \E w \in Workers : k \in Prompts /\ EnqueueExtract(w, k, j)
             \/ ApiEnqueue(k, j)
      PROVE  TypeInv'
  BY <1>3, EnqueueTypes
<1>4. CASE BeginStep \/ ApiCommit
  BY <1>4, RequestTypes
<1>5. CASE DeleteSource
  <2>1. ops' \in 0..MaxOps /\ status' \in Statuses
    BY <1>0, <1>5, PipelineAssumption DEF DeleteSource, TypeOK, Statuses
  <2>2. TypeOK'
    BY <1>0, <1>5, <2>1 DEF DeleteSource, TypeOK, DeliveryTypeOK, queue
  <2>3. HandsInv'
    BY <1>0, <1>5 DEF DeleteSource, HandsInv, CrawlPCs, At, queue
  <2>4. QED BY <2>2, <2>3 DEF TypeInv
<1>6. ASSUME NEW p \in Prompts, TogglePrompt(p) PROVE TypeInv'
  BY <1>0, <1>6, PipelineAssumption
  DEF TogglePrompt, TypeInv, TypeOK, DeliveryTypeOK, HandsInv, CrawlPCs, At, queue, source
<1>7. CASE ClearJobs
  BY <1>0, <1>7, PipelineAssumption
  DEF ClearJobs, TypeInv, TypeOK, DeliveryTypeOK, HandsInv, CrawlPCs, At, source, Phases
<1>8. CASE UNCHANGED vars
  BY <1>0, <1>8 DEF vars, TypeInv, TypeOK, DeliveryTypeOK, HandsInv, CrawlPCs, At, source, queue
<1>9. QED
  BY <1>1, <1>2, <1>3, <1>4, <1>5, <1>6, <1>7, <1>8
  DEF Next, JobStep, OwnStep, BeginStep, Kinds

\* The source, its rows, the jobs, the workers and the request keep their
\* types, whatever the number of each.
THEOREM TypeCorrect == Spec => []TypeOK
<1>1. TypeInv /\ [Next]_vars => TypeInv'
  BY StepTypes
<1>2. TypeInv => TypeOK
  BY DEF TypeInv
<1>3. QED BY InitTypes, <1>1, <1>2, PTL DEF Spec

-----------------------------------------------------------------------------
(***************************************************************************)
(* Extraction follows the crawl.                                           *)
(***************************************************************************)
\* Before the source is created nothing is extracted and nothing enqueues
\* extractions; a crawl job that comes too early finds no source.
CreatedOnce ==
  /\ ops = 0 => api.op = "none"
  /\ (ops = 0 \/ api.op = "create") =>
       /\ ~Exists /\ rows = {} /\ api.todo \subseteq {"crawl"}
       /\ \A j \in Jobs : kind[j] \notin Prompts
       /\ \A w \in Workers : worker[w].pc \in {"idle", "taken", "failing"}

\* As long as it has no Markdown, neither a worker nor a request is past the
\* point where extractions are queued, and its status has not moved on.
Bare == Exists /\ ~markdown
BareIsIdle ==
  Bare =>
    /\ status \in {"pending", "failed"} /\ rows = {}
    /\ api.op \notin {"re_extract", "re_extract_all"} /\ api.todo \cap Prompts = {}
    /\ \A j \in Jobs : kind[j] \notin Prompts
    /\ \A w \in Workers :
         worker[w].pc \notin {"crawled", "enqueuing", "extracting", "stored", "completing"}

RowsGone == ~Exists => rows = {}

SourceInv == TypeInv /\ CreatedOnce /\ BareIsIdle /\ RowsGone

LEMMA InitSource == Init => SourceInv
<1> SUFFICES ASSUME Init PROVE SourceInv
  OBVIOUS
<1>1. TypeInv
  BY InitTypes
<1>2. CreatedOnce
  BY PipelineAssumption DEF Init, CreatedOnce, Exists, NoJob, NoRequest
<1>3. BareIsIdle /\ RowsGone
  BY DEF Init, BareIsIdle, RowsGone, Bare, Exists
<1>4. QED BY <1>1, <1>2, <1>3 DEF SourceInv

\* What taking a job, starting, storing and settling it do to worker and source.
LEMMA JobEffect ==
  ASSUME SourceInv, NEW w \in Workers, NEW j \in Jobs, JobStep(w, j)
  PROVE  /\ UNCHANGED <<status, markdown, active, api, ops>>
         /\ \A i \in Jobs : kind'[i] \in {kind[i], "none"}
         /\ \A v \in Workers \ {w} : worker'[v] = worker[v]
         /\ \/ worker'[w].pc \in {"idle", "taken", "failing"}
            \/ Exists /\ worker'[w].pc = "crawling"
            \/ Exists /\ kind[j] \in Prompts /\ worker'[w].pc \in {"extracting", "stored"}
         /\ rows \subseteq rows'
         /\ rows' = rows \/ (Exists /\ kind[j] \in Prompts)
<1>0. /\ TypeOK /\ HandsInv /\ CreatedOnce /\ BareIsIdle /\ RowsGone /\ TypeInv'
      /\ UNCHANGED <<status, markdown, active, api, ops>>
      /\ kind \in [Jobs -> Kinds] /\ DOMAIN worker = Workers /\ rows \subseteq Prompts
  BY JobTypes DEF SourceInv, TypeInv, TypeOK, JobStep, TakeJob, MarkCompleted, MarkFailed, Crash,
     StartCrawl, StartExtract, StoreExtraction, source
<1>1. /\ \A i \in Jobs : kind'[i] \in {kind[i], "none"}
      /\ \A v \in Workers \ {w} : worker'[v] = worker[v]
  BY <1>0 DEF JobStep, TakeJob, MarkCompleted, MarkFailed, Crash, StartCrawl, StartExtract,
     StoreExtraction, GoTo, GoToSeeing, queue
<1>2. /\ \/ worker'[w].pc \in {"idle", "taken", "failing"}
         \/ Exists /\ worker'[w].pc = "crawling"
         \/ Exists /\ kind[j] \in Prompts /\ worker'[w].pc \in {"extracting", "stored"}
      /\ rows' = rows \/ (Exists /\ kind[j] \in Prompts)
  <2>1. CASE TakeJob(w, j) \/ MarkCompleted(w, j) \/ MarkFailed(w, j) \/ Crash(w, j)
    <3>1. NoJob.pc = "idle" /\ [NoJob EXCEPT !.pc = "taken", !.jobs = {j}].pc = "taken"
      BY DEF NoJob
    <3>2. worker'[w].pc \in {"idle", "taken"}
      BY <1>0, <2>1, <3>1 DEF TakeJob, MarkCompleted, MarkFailed, Crash
    <3>3. rows' = rows
      BY <2>1 DEF TakeJob, MarkCompleted, MarkFailed, Crash, source
    <3>4. QED BY <3>2, <3>3
  <2>2. CASE StartCrawl(w, j) \/ StartExtract(w, j)
    <3>1. PICK pc \in WorkerPCs :
            /\ worker' = [worker EXCEPT ![w] = [Moved(w, pc) EXCEPT !.seen = status]]
            /\ \/ pc = "failing"
               \/ Exists /\ pc = "crawling"
               \/ Exists /\ kind[j] \in Prompts /\ pc = "extracting"
      BY <2>2 DEF StartCrawl, StartExtract, GoToSeeing, WorkerPCs
    <3> DEFINE next == [Moved(w, pc) EXCEPT !.seen = status]
    <3>2. next.pc = pc
      <4>1. status \in Statuses
        BY <1>0 DEF TypeOK
      <4>2. QED BY <1>0, <4>1, MovedTypes
    <3> HIDE DEF next
    <3>3. worker' = [worker EXCEPT ![w] = next]
      BY <3>1 DEF next
    <3>4. worker'[w].pc = pc /\ rows' = rows
      BY <1>0, <2>2, <3>2, <3>3 DEF StartCrawl, StartExtract, source
    <3>5. QED BY <3>1, <3>4
  <2>3. CASE StoreExtraction(w, j)
    <3>1. kind[j] \in Prompts
      BY <1>0, <2>3 DEF StoreExtraction, MyJob, HandsInv
    <3>2. PICK pc \in {"stored", "failing"} :
            /\ worker' = [worker EXCEPT ![w] = Moved(w, pc)]
            /\ pc = "stored" => Exists
            /\ rows' = rows \/ Exists
      BY <2>3 DEF StoreExtraction, GoTo
    <3>3. Moved(w, pc).pc = pc
      <4>1. pc \in WorkerPCs
        BY DEF WorkerPCs
      <4>2. QED BY <1>0, <4>1, MovedTypes
    <3>4. QED BY <1>0, <3>1, <3>2, <3>3
  <2>4. QED BY <2>1, <2>2, <2>3 DEF JobStep
<1>3. rows \subseteq rows'
  BY DEF JobStep, TakeJob, MarkCompleted, MarkFailed, Crash, StartCrawl, StartExtract,
     StoreExtraction, source
<1>4. QED BY <1>0, <1>1, <1>2, <1>3

LEMMA JobSource ==
  ASSUME SourceInv, NEW w \in Workers, NEW j \in Jobs, JobStep(w, j)
  PROVE  SourceInv'
<1>0. /\ CreatedOnce /\ BareIsIdle /\ RowsGone /\ TypeInv'
  BY JobTypes DEF SourceInv
<1>1. CreatedOnce'
  BY <1>0, JobEffect, PipelineAssumption DEF CreatedOnce, Exists
<1>2. BareIsIdle'
  BY <1>0, JobEffect, PipelineAssumption DEF BareIsIdle, Bare, Exists
<1>3. RowsGone'
  BY <1>0, JobEffect DEF RowsGone, Exists
<1>4. QED BY <1>0, <1>1, <1>2, <1>3 DEF SourceInv

\* What a step inside a job does to the worker and the source.
LEMMA OwnEffect ==
  ASSUME TypeInv, NEW w \in Workers, OwnStep(w)
  PROVE  /\ \A v \in Workers \ {w} : worker'[v] = worker[v]
         /\ UNCHANGED <<queue, rows, active, api, owed, ops>>
         /\ Exists' = Exists /\ worker'[w].jobs = worker[w].jobs
         /\ \/ /\ worker'[w].pc = "failing" /\ UNCHANGED markdown
               /\ status' = status \/ (At(w, "crawling") /\ status' \in {"none", "failed"})
            \/ /\ CrawlSucceeds(w) /\ worker'[w].pc \in {"crawled", "failing"}
               /\ markdown' = Exists /\ status' \in {status, "crawled"}
            \/ /\ At(w, "crawled") /\ worker'[w].pc \in {"done", "enqueuing"}
               /\ worker'[w].pc = "enqueuing" => worker'[w].todo = active
               /\ UNCHANGED source
            \/ /\ At(w, "enqueuing") /\ worker[w].todo = {}
               /\ worker'[w].pc = "done" /\ UNCHANGED markdown
               /\ status' \in {status, "extracting"}
            \/ /\ At(w, "stored") /\ worker'[w].pc \in {"done", "completing"}
               /\ worker'[w].pc = "completing" => AllExtracted
               /\ UNCHANGED source
            \/ /\ At(w, "completing") /\ worker'[w].pc = "done" /\ UNCHANGED markdown
               /\ status' \in {status, "completed"}
<1>0. TypeOK /\ DOMAIN worker = Workers /\ status \in Statuses
  BY DEF TypeInv, TypeOK
<1>1. ASSUME NEW pc \in WorkerPCs, GoTo(w, pc)
      PROVE  /\ worker'[w].pc = pc /\ worker'[w].jobs = worker[w].jobs
             /\ \A v \in Workers \ {w} : worker'[v] = worker[v]
  BY <1>0, <1>1, MovedTypes DEF GoTo
<1>2. {"failing", "done", "completing", "enqueuing", "crawled"} \subseteq WorkerPCs
  BY DEF WorkerPCs
<1>3. CASE CrawlFails(w)
  BY <1>1, <1>2, <1>3 DEF CrawlFails, Exists
<1>4. CASE EnqueueFails(w) \/ ExtractFails(w)
  BY <1>1, <1>2, <1>4 DEF EnqueueFails, ExtractFails, Exists, source
<1>5. CASE MarkExtracting(w) \/ CompleteSource(w)
  <2>1. CASE Exists
    BY <1>1, <1>2, <1>5, <2>1 DEF MarkExtracting, CompleteSource, Exists, Written
  <2>2. CASE ~Exists
    BY <1>1, <1>2, <1>5, <2>2 DEF MarkExtracting, CompleteSource, Exists
  <2>3. QED BY <2>1, <2>2
<1>6. CASE CheckCompletion(w)
  <2>1. (GoTo(w, "completing") /\ AllExtracted) \/ GoTo(w, "done")
    BY <1>6 DEF CheckCompletion
  <2>2. QED BY <1>1, <1>2, <1>6, <2>1 DEF CheckCompletion, source, Exists
<1>7. CASE CrawlSucceeds(w)
  <2>1. status' \in Statuses /\ Exists' = Exists /\ status' \in {status, "crawled"}
    BY <1>0, <1>7 DEF CrawlSucceeds, Written, Statuses, Exists
  <2>2. PICK q \in {"crawled", "failing"} : GoToSeeing(w, q, status')
    BY <1>7 DEF CrawlSucceeds
  <2> DEFINE next == [Moved(w, q) EXCEPT !.seen = status']
  <2>3. next.pc = q /\ next.jobs = worker[w].jobs
    <3>1. q \in WorkerPCs
      BY DEF WorkerPCs
    <3>2. QED BY <1>0, <2>1, <3>1, MovedTypes
  <2> HIDE DEF next
  <2>4. worker' = [worker EXCEPT ![w] = next]
    BY <2>2 DEF GoToSeeing, next
  <2>5. QED BY <1>0, <1>7, <2>1, <2>3, <2>4 DEF CrawlSucceeds
<1>8. CASE ReadPrompts(w)
  <2>1. CASE active = {}
    BY <1>0, <1>2, <1>8, <2>1, MovedTypes DEF ReadPrompts, source, Exists
  <2>2. CASE active # {}
    <3> DEFINE r == Moved(w, "enqueuing")
    <3>1. /\ r.pc = "enqueuing" /\ r.jobs = worker[w].jobs
          /\ r \in [pc : WorkerPCs, jobs : SUBSET Jobs, seen : Statuses,
                   todo : SUBSET Prompts, stale : BOOLEAN]
      BY <1>0, <1>2, MovedTypes
    <3>2. worker' = [worker EXCEPT ![w] = [r EXCEPT !.todo = active]]
      BY <1>8, <2>2 DEF ReadPrompts
    <3> HIDE DEF r
    <3>3. worker'[w].pc = "enqueuing" /\ worker'[w].todo = active
          /\ worker'[w].jobs = worker[w].jobs /\ \A v \in Workers \ {w} : worker'[v] = worker[v]
      BY <1>0, <3>1, <3>2
    <3>4. QED BY <1>8, <3>3 DEF ReadPrompts, source, Exists
  <2>3. QED BY <2>1, <2>2
<1>9. QED BY <1>3, <1>4, <1>5, <1>6, <1>7, <1>8 DEF OwnStep

LEMMA OwnSource ==
  ASSUME SourceInv, NEW w \in Workers, OwnStep(w)
  PROVE  SourceInv'
<1>0. /\ TypeInv /\ CreatedOnce /\ BareIsIdle /\ RowsGone /\ TypeInv'
  BY OwnTypes DEF SourceInv
<1>1. ~(ops = 0 \/ api.op = "create") \/ worker[w].pc \in {"idle", "taken", "failing"}
  BY <1>0 DEF CreatedOnce
<1>2. ops # 0 /\ api.op # "create"
  BY <1>1 DEF OwnStep, CrawlFails, CrawlSucceeds, ReadPrompts, EnqueueFails, MarkExtracting,
     ExtractFails, CheckCompletion, CompleteSource, At
<1>3. CreatedOnce'
  BY <1>0, <1>2, OwnEffect DEF CreatedOnce
<1>4. BareIsIdle'
  BY <1>0, OwnEffect DEF BareIsIdle, Bare, Exists, At, queue, source
<1>5. RowsGone'
  BY <1>0, OwnEffect DEF RowsGone
<1>6. QED BY <1>0, <1>3, <1>4, <1>5 DEF SourceInv

LEMMA EnqueueSource ==
  ASSUME SourceInv, NEW j \in Jobs, NEW k \in Kinds,
         \/ \E w \in Workers : k \in Prompts /\ EnqueueExtract(w, k, j)
         \/ ApiEnqueue(k, j)
  PROVE  SourceInv'
<1>0. /\ TypeOK /\ CreatedOnce /\ BareIsIdle /\ RowsGone /\ TypeInv'
  BY EnqueueTypes DEF SourceInv, TypeInv
<1>1. /\ kind' = [kind EXCEPT ![j] = k]
      /\ UNCHANGED <<source, active, owed, ops, faults>>
  BY DEF EnqueueExtract, ApiEnqueue, Enqueue
<1>2. /\ \A v \in Workers : worker'[v].pc = worker[v].pc
      /\ api'.op = api.op /\ api'.todo \subseteq api.todo
      /\ k \in api.todo \/ \E w \in Workers : At(w, "enqueuing")
  BY <1>0 DEF EnqueueExtract, ApiEnqueue, TypeOK
<1>3. \A i \in Jobs : kind'[i] \in {kind[i], k}
  BY <1>0, <1>1 DEF TypeOK
<1>4. CreatedOnce'
  BY <1>0, <1>1, <1>2, <1>3, PipelineAssumption DEF CreatedOnce, source, Exists, At
<1>5. BareIsIdle'
  BY <1>0, <1>1, <1>2, <1>3 DEF BareIsIdle, Bare, source, Exists, At
<1>6. RowsGone'
  BY <1>0, <1>1 DEF RowsGone, source, Exists
<1>7. QED BY <1>0, <1>4, <1>5, <1>6 DEF SourceInv

\* A request is refused, or asks for extractions only of a source that has
\* its Markdown; the one that creates the source is the first.
LEMMA RequestSource ==
  ASSUME SourceInv, BeginStep \/ ApiCommit
  PROVE  SourceInv'
<1>0. /\ TypeOK /\ CreatedOnce /\ BareIsIdle /\ RowsGone /\ TypeInv'
      /\ rows \subseteq Prompts /\ ops \in Nat /\ DOMAIN worker = Workers
  BY RequestTypes, PipelineAssumption DEF SourceInv, TypeInv, TypeOK
<1>1. CASE BeginStep
  <2>1. PICK op \in AllOps, kinds \in SUBSET Kinds, dels \in SUBSET Prompts :
          /\ Begin(op, kinds, dels)
          /\ op = "create" => ops = 0 /\ kinds = {"crawl"}
          /\ kinds \cap Prompts # {} => markdown \/ status \in {"extracting", "completed"}
          /\ op \in {"re_extract", "re_extract_all"} =>
               kinds \subseteq Prompts /\ (markdown \/ status \in {"extracting", "completed"})
    BY <1>0, <1>1, BeginsRequest
  <2>2. /\ ops' = ops + 1 /\ api'.op = op /\ api'.todo = kinds
        /\ UNCHANGED <<queue, source, active, faults>>
    BY <2>1 DEF Begin
  <2>3. \A w \in Workers : worker'[w].pc = worker[w].pc
    BY <1>0, <2>1 DEF Begin, TypeOK
  <2>4. CreatedOnce'
    BY <1>0, <2>1, <2>2, <2>3 DEF CreatedOnce, Exists, source, queue
  <2>5. BareIsIdle'
    BY <1>0, <2>1, <2>2, <2>3 DEF BareIsIdle, Bare, Exists, source, queue
  <2>6. RowsGone'
    BY <1>0, <2>2 DEF RowsGone, Exists, source
  <2>7. QED BY <1>0, <2>4, <2>5, <2>6 DEF SourceInv
<1>2. CASE ApiCommit
  <2>1. /\ rows' \subseteq rows /\ api'.op = "none" /\ api'.todo = {}
        /\ UNCHANGED <<queue, markdown, active, worker, owed, ops, faults>>
        /\ ops = 0 => ~Exists
    BY <1>0, <1>2 DEF ApiCommit, NoRequest, CreatedOnce
  <2>2. CASE api.op = "create"
    <3>1. status' \in {"pending", "none"}
      BY <1>2, <2>2 DEF ApiCommit, StatusesAfter
    <3>2. CreatedOnce'
      <4>1. ops # 0
        BY <1>0, <2>2 DEF CreatedOnce
      <4>2. QED BY <2>1, <4>1 DEF CreatedOnce
    <3>3. BareIsIdle'
      BY <1>0, <2>1, <2>2, <3>1 DEF CreatedOnce, BareIsIdle, Bare, Exists, queue
    <3>4. RowsGone'
      BY <1>0, <2>1, <2>2 DEF CreatedOnce, RowsGone
    <3>5. QED BY <1>0, <3>2, <3>3, <3>4 DEF SourceInv
  <2>3. CASE api.op # "create"
    <3>1. /\ Exists' = Exists
          /\ status' = status \/ api.op \in {"re_extract", "re_extract_all"}
             \/ status' \in {"pending", "failed"}
      BY <1>2, <2>3 DEF ApiCommit, StatusesAfter, Written, Exists
    <3>2. CreatedOnce'
      BY <1>0, <2>1, <3>1, PipelineAssumption DEF CreatedOnce, queue
    <3>3. BareIsIdle'
      BY <1>0, <2>1, <3>1 DEF BareIsIdle, Bare, queue
    <3>4. RowsGone'
      BY <1>0, <2>1, <3>1 DEF RowsGone
    <3>5. QED BY <1>0, <3>2, <3>3, <3>4 DEF SourceInv
  <2>4. QED BY <2>2, <2>3
<1>3. QED BY <1>1, <1>2

LEMMA StepSource ==
  ASSUME SourceInv, [Next]_vars
  PROVE  SourceInv'
<1>0. /\ TypeInv /\ TypeOK /\ CreatedOnce /\ BareIsIdle /\ RowsGone /\ TypeInv'
      /\ ops \in Nat
  BY StepTypes, PipelineAssumption DEF SourceInv, TypeInv, TypeOK
<1>1. ASSUME NEW w \in Workers, NEW j \in Jobs, JobStep(w, j) PROVE SourceInv'
  BY <1>1, JobSource
<1>2. ASSUME NEW w \in Workers, OwnStep(w) PROVE SourceInv'
  BY <1>2, OwnSource
<1>3. ASSUME NEW j \in Jobs, NEW k \in Kinds,
             \/ \E w \in Workers : k \in Prompts /\ EnqueueExtract(w, k, j)
             \/ ApiEnqueue(k, j)
      PROVE  SourceInv'
  BY <1>3, EnqueueSource
<1>4. CASE BeginStep \/ ApiCommit
  BY <1>4, RequestSource
<1>5. CASE DeleteSource
  <2>1. CreatedOnce'
    BY <1>0, <1>5 DEF DeleteSource, CreatedOnce
  <2>2. BareIsIdle' /\ RowsGone'
    BY <1>5 DEF DeleteSource, BareIsIdle, RowsGone, Bare, Exists
  <2>3. QED BY <1>0, <2>1, <2>2 DEF SourceInv
<1>6. ASSUME NEW p \in Prompts, TogglePrompt(p) PROVE SourceInv'
  BY <1>0, <1>6
  DEF TogglePrompt, SourceInv, CreatedOnce, BareIsIdle, RowsGone, Bare, Exists, queue, source
<1>7. CASE ClearJobs
  BY <1>0, <1>7
  DEF ClearJobs, SourceInv, CreatedOnce, BareIsIdle, RowsGone, Bare, Exists, source
<1>8. CASE UNCHANGED vars
  BY <1>0, <1>8
  DEF vars, SourceInv, CreatedOnce, BareIsIdle, RowsGone, Bare, Exists, source, queue
<1>9. QED
  BY <1>1, <1>2, <1>3, <1>4, <1>5, <1>6, <1>7, <1>8
  DEF Next, JobStep, OwnStep, BeginStep, Kinds

\* An extraction job exists only for a source that has its Markdown, or has
\* been deleted, whatever requests and workers overlap.
THEOREM ExtractionFollowsCrawl == Spec => []ExtractJobsHaveMarkdown
<1>1. SourceInv /\ [Next]_vars => SourceInv'
  BY StepSource
<1>2. SourceInv => ExtractJobsHaveMarkdown
  BY DEF SourceInv, BareIsIdle, Bare, ExtractJobsHaveMarkdown
<1>3. QED BY InitSource, <1>1, <1>2, PTL DEF Spec

\* No extraction is left of a source that was deleted, or stored for one that
\* was not crawled.
THEOREM RowsBelongToSource == Spec => []NoOrphanRows
<1>1. SourceInv /\ [Next]_vars => SourceInv'
  BY StepSource
<1>2. SourceInv => NoOrphanRows
  BY DEF SourceInv, BareIsIdle, RowsGone, Bare, NoOrphanRows
<1>3. QED BY InitSource, <1>1, <1>2, PTL DEF Spec

-----------------------------------------------------------------------------
(***************************************************************************)
(* With the prompts left as they are and no re-extraction of everything:   *)
(* completed means complete, and work in 'extracting' is owned.            *)
(***************************************************************************)
Steady == AdminOps \cap {"toggle_prompt", "re_extract_all"} = {}

\* Who is about to write 'completed' has seen all rows, and no row goes but
\* with its source.
CompletionInv ==
  /\ active = Prompts
  /\ api.dels = {} /\ api.op # "re_extract_all"
  /\ CompletedHasAllRows
  /\ \A w \in Workers : At(w, "completing") => ~Exists \/ Prompts \subseteq rows

\* A prompt is stored, or a job for it is under way or has failed for good.
Tracked(p) == p \in rows \/ HasJob(p, {"waiting", "taken", "failed"})

\* The crawl job and the request that write 'extracting' have queued a job for
\* every prompt they are done with; an extract job that is about to end has its
\* row.
TrackedInv ==
  (faults = 0 /\ Exists) =>
    /\ status = "extracting" => \A p \in Prompts : Tracked(p)
    /\ \A w \in Workers : At(w, "enqueuing") => \A p \in Prompts \ worker[w].todo : Tracked(p)
    /\ api.op = "re_extract" => \A p \in Prompts \ api.todo : Tracked(p)
    /\ \A w \in Workers : \A j \in worker[w].jobs :
         worker[w].pc \in {"stored", "completing", "done"} /\ kind[j] \in Prompts
           => kind[j] \in rows

WorkInv == SourceInv /\ CompletionInv /\ TrackedInv

LEMMA InitWork == Init => WorkInv
<1> SUFFICES ASSUME Init PROVE WorkInv
  OBVIOUS
<1>1. \A w \in Workers : worker[w].pc = "idle"
  BY DEF Init, NoJob
<1>2. CompletionInv
  BY <1>1 DEF Init, CompletionInv, CompletedHasAllRows, At, NoRequest
<1>3. TrackedInv
  BY DEF Init, TrackedInv, Exists
<1>4. QED BY InitSource, <1>2, <1>3 DEF WorkInv

\* All rows counted are rows of the prompts there are.
LEMMA AllCounted ==
  ASSUME rows \subseteq Prompts, active = Prompts, AllExtracted
  PROVE  Prompts \subseteq rows
<1>1. IsFiniteSet(Prompts) /\ IsFiniteSet(rows)
  BY PipelineAssumption, FS_Subset
<1>2. Cardinality(rows) \in Nat /\ Cardinality(Prompts) \in Nat
      /\ Cardinality(rows) >= Cardinality(Prompts)
  BY <1>1, FS_CardinalityType DEF AllExtracted
<1>3. CASE rows # Prompts
  <2>1. Cardinality(rows) < Cardinality(Prompts)
    BY <1>1, <1>3, FS_Subset, FS_CardinalityType
  <2>2. QED BY <1>2, <2>1
<1>4. QED BY <1>3

LEMMA JobWork ==
  ASSUME WorkInv, NEW w \in Workers, NEW j \in Jobs, JobStep(w, j)
  PROVE  CompletionInv' /\ TrackedInv'
<1>0. /\ SourceInv /\ TypeInv /\ TypeOK /\ HandsInv /\ CompletionInv /\ TrackedInv
      /\ kind \in [Jobs -> Kinds] /\ phase \in [Jobs -> Phases] /\ faults \in Nat
      /\ DOMAIN worker = Workers /\ worker[w].jobs \subseteq Jobs
  BY PipelineAssumption DEF WorkInv, SourceInv, TypeInv, TypeOK, DeliveryTypeOK
<1>1. /\ UNCHANGED <<status, markdown, active, api, ops>> /\ rows \subseteq rows'
      /\ \A v \in Workers \ {w} : worker'[v] = worker[v]
      /\ worker'[w].pc \in {"idle", "taken", "failing", "crawling", "extracting", "stored"}
  BY <1>0, JobEffect
<1>2. CompletionInv'
  BY <1>0, <1>1 DEF CompletionInv, CompletedHasAllRows, At, Exists
<1>3. ASSUME faults' = 0, Exists
      PROVE  /\ faults = 0
             /\ \A p \in Prompts : Tracked(p) => Tracked(p)'
             /\ \A v \in Workers \ {w} : \A i \in worker[v].jobs : kind'[i] = kind[i]
             /\ worker'[w].pc = "stored" =>
                  \A i \in worker'[w].jobs : kind'[i] \in rows'
  <2>1. CASE TakeJob(w, j)
    <3>1. /\ phase' = [phase EXCEPT ![j] = "taken"] /\ phase[j] = "waiting"
          /\ UNCHANGED <<kind, rows, faults>>
          /\ worker'[w].pc = "taken"
      BY <1>0, <2>1 DEF TakeJob, Take, Move, source, NoJob
    <3>2. \A p \in Prompts : Tracked(p) => Tracked(p)'
      BY <1>0, <3>1 DEF Tracked, HasJob
    <3>3. QED BY <1>3, <3>1, <3>2
  <2>2. CASE MarkCompleted(w, j)
    <3>1. /\ phase' = [phase EXCEPT ![j] = "completed"] /\ kind' = [kind EXCEPT ![j] = "none"]
          /\ UNCHANGED <<rows, faults>>
          /\ worker'[w].pc = "idle" /\ worker[w].pc = "done" /\ j \in worker[w].jobs
      BY <1>0, <2>2 DEF MarkCompleted, Complete, Move, source, NoJob, At, MyJob
    <3>2. kind[j] \in Prompts => kind[j] \in rows
      BY <1>0, <1>3, <3>1 DEF TrackedInv
    <3>3. \A p \in Prompts : Tracked(p) => Tracked(p)'
      BY <1>0, <3>1, <3>2 DEF Tracked, HasJob
    <3>4. \A v \in Workers \ {w} : j \notin worker[v].jobs /\ worker[v].jobs \subseteq Jobs
      BY <1>0, <3>1 DEF HandsInv, TypeOK
    <3>5. QED BY <1>0, <1>3, <3>1, <3>3, <3>4
  <2>3. CASE MarkFailed(w, j)
    <3>1. /\ \E to \in {"waiting", "failed"} : phase' = [phase EXCEPT ![j] = to]
          /\ UNCHANGED <<kind, rows, faults>>
          /\ worker'[w].pc = "idle"
      BY <1>0, <2>3 DEF MarkFailed, Retry, GiveUp, Move, source, NoJob
    <3>2. \A p \in Prompts : Tracked(p) => Tracked(p)'
      BY <1>0, <3>1 DEF Tracked, HasJob
    <3>3. QED BY <1>3, <3>1, <3>2
  <2>4. CASE Crash(w, j)
    BY <1>0, <1>3, <2>4 DEF Crash
  <2>5. CASE StartCrawl(w, j) \/ StartExtract(w, j)
    <3>1. UNCHANGED <<phase, kind, rows, faults>> /\ worker'[w].pc # "stored"
      <4>1. UNCHANGED <<phase, kind, rows, faults>>
        BY <2>5 DEF StartCrawl, StartExtract, queue, source
      <4>2. PICK pc \in WorkerPCs \ {"stored"} :
              worker' = [worker EXCEPT ![w] = [Moved(w, pc) EXCEPT !.seen = status]]
        BY <2>5 DEF StartCrawl, StartExtract, GoToSeeing, WorkerPCs
      <4> DEFINE next == [Moved(w, pc) EXCEPT !.seen = status]
      <4>3. next.pc = pc
        <5>1. status \in Statuses
          BY <1>0 DEF TypeOK
        <5>2. QED BY <1>0, <5>1, MovedTypes
      <4>4. worker' = [worker EXCEPT ![w] = next]
        BY <4>2
      <4> HIDE DEF next
      <4>5. QED BY <1>0, <4>1, <4>3, <4>4
    <3>2. QED BY <1>3, <3>1 DEF Tracked, HasJob
  <2>6. CASE StoreExtraction(w, j)
    <3>1. UNCHANGED <<phase, kind, faults>> /\ j \in worker[w].jobs
      BY <2>6 DEF StoreExtraction, queue, MyJob
    <3>2. PICK pc \in {"stored", "failing"} :
            /\ worker' = [worker EXCEPT ![w] = Moved(w, pc)]
            /\ pc = "stored" => kind[j] \in rows'
      BY <2>6 DEF StoreExtraction, GoTo
    <3>3. Moved(w, pc).pc = pc /\ Moved(w, pc).jobs = worker[w].jobs
      <4>1. pc \in WorkerPCs
        BY DEF WorkerPCs
      <4>2. QED BY <1>0, <4>1, MovedTypes
    <3>4. \A i \in worker'[w].jobs : i = j
      BY <1>0, <3>1, <3>2, <3>3 DEF HandsInv
    <3>5. \A p \in Prompts : Tracked(p) => Tracked(p)'
      BY <1>1, <3>1 DEF Tracked, HasJob
    <3>6. QED BY <1>0, <1>3, <3>1, <3>2, <3>3, <3>4, <3>5
  <2>7. QED BY <2>1, <2>2, <2>3, <2>4, <2>5, <2>6 DEF JobStep
<1>4. TrackedInv'
  <2> SUFFICES ASSUME faults' = 0, Exists
               PROVE  TrackedInv'
    BY <1>1 DEF TrackedInv, Exists
  <2>1. /\ status = "extracting" => \A p \in Prompts : Tracked(p)'
        /\ api.op = "re_extract" => \A p \in Prompts \ api.todo : Tracked(p)'
    BY <1>0, <1>3 DEF TrackedInv
  <2>2. ASSUME NEW v \in Workers, At(v, "enqueuing")'
        PROVE  \A p \in Prompts \ worker'[v].todo : Tracked(p)'
    BY <1>0, <1>1, <1>3, <2>2 DEF TrackedInv, At
  <2>3. ASSUME NEW v \in Workers, NEW i \in worker'[v].jobs,
               worker'[v].pc \in {"stored", "completing", "done"}, kind'[i] \in Prompts
        PROVE  kind'[i] \in rows'
    BY <1>0, <1>1, <1>3, <2>3 DEF TrackedInv
  <2>4. QED BY <1>1, <2>1, <2>2, <2>3 DEF TrackedInv
<1>5. QED BY <1>2, <1>4

LEMMA OwnWork ==
  ASSUME WorkInv, NEW w \in Workers, OwnStep(w)
  PROVE  CompletionInv' /\ TrackedInv'
<1>0. /\ SourceInv /\ TypeInv /\ TypeOK /\ HandsInv /\ CompletionInv /\ TrackedInv
      /\ rows \subseteq Prompts /\ faults \in Nat /\ worker[w].jobs \subseteq Jobs
  BY PipelineAssumption DEF WorkInv, SourceInv, TypeInv, TypeOK
<1>1. /\ \A v \in Workers \ {w} : worker'[v] = worker[v]
      /\ UNCHANGED <<phase, kind, rows, active, api>>
      /\ Exists' = Exists /\ worker'[w].jobs = worker[w].jobs
  BY <1>0, OwnEffect DEF queue
<1>2. CASE worker'[w].pc = "failing" /\ status' \in {status, "none", "failed", "crawled"}
  <2>1. CompletionInv'
    BY <1>0, <1>1, <1>2 DEF CompletionInv, CompletedHasAllRows, At
  <2>2. faults' = 0 => faults = 0
    BY <1>0 DEF OwnStep, CrawlFails, CrawlSucceeds, ReadPrompts, EnqueueFails, MarkExtracting,
       ExtractFails, CheckCompletion, CompleteSource
  <2>3. TrackedInv'
    BY <1>0, <1>1, <1>2, <2>2 DEF TrackedInv, Tracked, HasJob, At
  <2>4. QED BY <2>1, <2>3
<1>3. ASSUME worker'[w].pc \in {"crawled", "done", "enqueuing", "completing"} PROVE faults' = faults
  <2>1. ~EnqueueFails(w)
    <3>1. "failing" \in WorkerPCs
      BY DEF WorkerPCs
    <3>2. EnqueueFails(w) => worker'[w].pc = "failing"
      BY <1>0, <3>1, MovedTypes DEF EnqueueFails, GoTo, TypeOK
    <3>3. QED BY <1>3, <3>2
  <2>2. QED BY <2>1 DEF OwnStep, CrawlFails, CrawlSucceeds, ReadPrompts, MarkExtracting,
                        ExtractFails, CheckCompletion, CompleteSource
<1>4. CASE worker'[w].pc \in {"crawled", "enqueuing"} /\ status' \in {status, "crawled"}
           /\ (worker'[w].pc = "enqueuing" => worker'[w].todo = active)
  <2>1. CompletionInv'
    BY <1>0, <1>1, <1>4 DEF CompletionInv, CompletedHasAllRows, At
  <2>2. TrackedInv'
    BY <1>0, <1>1, <1>3, <1>4 DEF TrackedInv, CompletionInv, Tracked, HasJob, At
  <2>3. QED BY <2>1, <2>2
<1>5. CASE At(w, "crawled") /\ worker'[w].pc = "done" /\ status' = status
  <2>1. CompletionInv'
    BY <1>0, <1>1, <1>5 DEF CompletionInv, CompletedHasAllRows, At
  <2>2. \A i \in worker[w].jobs : kind[i] \notin Prompts
    BY <1>0, <1>5, PipelineAssumption DEF HandsInv, CrawlPCs, At
  <2>3. TrackedInv'
    BY <1>0, <1>1, <1>3, <1>5, <2>2 DEF TrackedInv, Tracked, HasJob, At
  <2>4. QED BY <2>1, <2>3
<1>6. CASE At(w, "enqueuing") /\ worker[w].todo = {} /\ worker'[w].pc = "done"
           /\ status' \in {status, "extracting"}
  <2>1. CompletionInv'
    BY <1>0, <1>1, <1>6 DEF CompletionInv, CompletedHasAllRows, At
  <2>2. \A i \in worker[w].jobs : kind[i] \notin Prompts
    BY <1>0, <1>6, PipelineAssumption DEF HandsInv, CrawlPCs, At
  <2>3. faults = 0 /\ Exists => \A p \in Prompts : Tracked(p)
    BY <1>0, <1>6 DEF TrackedInv
  <2>4. TrackedInv'
    BY <1>0, <1>1, <1>3, <1>6, <2>2, <2>3 DEF TrackedInv, Tracked, HasJob, At
  <2>5. QED BY <2>1, <2>4
<1>7. CASE At(w, "stored") /\ worker'[w].pc \in {"done", "completing"} /\ status' = status
           /\ (worker'[w].pc = "completing" => AllExtracted)
  <2>1. CompletionInv'
    BY <1>0, <1>1, <1>7, AllCounted DEF CompletionInv, CompletedHasAllRows, At
  <2>2. TrackedInv'
    BY <1>0, <1>1, <1>3, <1>7 DEF TrackedInv, Tracked, HasJob, At
  <2>3. QED BY <2>1, <2>2
<1>8. CASE At(w, "completing") /\ worker'[w].pc = "done" /\ status' \in {status, "completed"}
  <2>1. CompletionInv'
    BY <1>0, <1>1, <1>8 DEF CompletionInv, CompletedHasAllRows, At, Exists
  <2>2. TrackedInv'
    BY <1>0, <1>1, <1>3, <1>8 DEF TrackedInv, Tracked, HasJob, At
  <2>3. QED BY <2>1, <2>2
<1>9. QED
  BY <1>0, <1>2, <1>4, <1>5, <1>6, <1>7, <1>8, OwnEffect DEF source

LEMMA EnqueueWork ==
  ASSUME WorkInv, NEW j \in Jobs, NEW k \in Kinds,
         \/ \E w \in Workers : k \in Prompts /\ EnqueueExtract(w, k, j)
         \/ ApiEnqueue(k, j)
  PROVE  CompletionInv' /\ TrackedInv'
<1>0. /\ TypeOK /\ HandsInv /\ CompletionInv /\ TrackedInv
      /\ kind \in [Jobs -> Kinds] /\ phase \in [Jobs -> Phases]
  BY DEF WorkInv, SourceInv, TypeInv, TypeOK, DeliveryTypeOK
<1>1. /\ phase[j] = "absent" /\ phase' = [phase EXCEPT ![j] = "waiting"]
      /\ kind' = [kind EXCEPT ![j] = k]
      /\ UNCHANGED <<status, rows, active, faults>>
  BY DEF EnqueueExtract, ApiEnqueue, Enqueue, Submit, Move, source
<1>2. /\ \A v \in Workers : /\ worker'[v].pc = worker[v].pc /\ worker'[v].jobs = worker[v].jobs
                            /\ worker[v].todo \subseteq worker'[v].todo \cup {k}
      /\ api'.op = api.op /\ api'.dels = api.dels /\ api.todo \subseteq api'.todo \cup {k}
  BY <1>0 DEF EnqueueExtract, ApiEnqueue, TypeOK
<1>3. /\ \A p \in Prompts : Tracked(p) => Tracked(p)'
      /\ k \in Prompts => Tracked(k)'
  BY <1>0, <1>1 DEF Tracked, HasJob
<1>4. \A v \in Workers : \A i \in worker[v].jobs : i \in Jobs /\ kind'[i] = kind[i]
  BY <1>0, <1>1 DEF HandsInv, TypeOK
<1>5. CompletionInv'
  BY <1>0, <1>1, <1>2 DEF CompletionInv, CompletedHasAllRows, At, Exists
<1>6. TrackedInv'
  <2> SUFFICES ASSUME faults = 0, Exists PROVE TrackedInv'
    BY <1>1 DEF TrackedInv, Exists
  <2>1. /\ status = "extracting" => \A p \in Prompts : Tracked(p)'
        /\ api.op = "re_extract" => \A p \in Prompts \ api'.todo : Tracked(p)'
    BY <1>0, <1>2, <1>3 DEF TrackedInv
  <2>2. ASSUME NEW v \in Workers, At(v, "enqueuing")
        PROVE  \A p \in Prompts \ worker'[v].todo : Tracked(p)'
    BY <1>0, <1>2, <1>3, <2>2 DEF TrackedInv
  <2>3. ASSUME NEW v \in Workers, NEW i \in worker[v].jobs,
               worker[v].pc \in {"stored", "completing", "done"}, kind'[i] \in Prompts
        PROVE  kind'[i] \in rows
    BY <1>0, <1>4, <2>3 DEF TrackedInv
  <2>4. QED BY <1>1, <1>2, <2>1, <2>2, <2>3 DEF TrackedInv, At
<1>7. QED BY <1>5, <1>6

LEMMA RequestWork ==
  ASSUME WorkInv, Steady, BeginStep \/ ApiCommit
  PROVE  CompletionInv' /\ TrackedInv'
<1>0. /\ TypeOK /\ CreatedOnce /\ CompletionInv /\ TrackedInv
      /\ worker \in [Workers -> [pc : WorkerPCs, jobs : SUBSET Jobs, seen : Statuses,
                               todo : SUBSET Prompts, stale : BOOLEAN]]
  BY DEF WorkInv, SourceInv, TypeInv, TypeOK
<1>1. CASE BeginStep
  <2>1. PICK op \in AllOps, kinds \in SUBSET Kinds, dels \in SUBSET Prompts :
          /\ Begin(op, kinds, dels)
          /\ op = "re_extract" => kinds = active
          /\ op # "re_extract_all" => dels = {}
    BY <1>0, <1>1, BeginsRequest
  <2>2. /\ op # "re_extract_all" /\ dels = {}
        /\ api' = [op |-> op, seen |-> status, todo |-> kinds, dels |-> dels]
        /\ UNCHANGED <<phase, kind, status, rows, active, faults>>
    BY <2>1 DEF Begin, Steady, queue, source
  <2>3. \A w \in Workers : /\ worker'[w].pc = worker[w].pc /\ worker'[w].jobs = worker[w].jobs
                           /\ worker'[w].todo = worker[w].todo
    BY <1>0, <2>1 DEF Begin
  <2>4. CompletionInv'
    BY <1>0, <2>2, <2>3 DEF CompletionInv, CompletedHasAllRows, At, Exists
  <2>5. TrackedInv'
    BY <1>0, <2>1, <2>2, <2>3 DEF TrackedInv, CompletionInv, Tracked, HasJob, At, Exists
  <2>6. QED BY <2>4, <2>5
<1>2. CASE ApiCommit
  <2>1. /\ rows' = rows /\ api'.op = "none" /\ api'.dels = {} /\ api.todo = {}
        /\ UNCHANGED <<phase, kind, active, worker, faults>>
    BY <1>0, <1>2 DEF ApiCommit, NoRequest, CompletionInv, queue
  <2>2. CASE api.op = "create"
    <3>1. status' \in {"pending", "none"}
      BY <1>2, <2>2 DEF ApiCommit, StatusesAfter
    <3>2. \A w \in Workers : worker[w].pc \in {"idle", "taken", "failing"}
      BY <1>0, <2>2 DEF CreatedOnce
    <3>3. CompletionInv'
      BY <1>0, <2>1, <3>1, <3>2 DEF CompletionInv, CompletedHasAllRows, At
    <3>4. TrackedInv'
      BY <2>1, <3>1, <3>2 DEF TrackedInv, At
    <3>5. QED BY <3>3, <3>4
  <2>3. CASE api.op # "create"
    <3>1. /\ Exists' = Exists
          /\ \/ status' = status \/ status' \in {"pending", "failed"}
             \/ api.op = "re_extract" /\ status' = "extracting"
      BY <1>0, <1>2, <2>3 DEF ApiCommit, StatusesAfter, Written, Exists, CompletionInv
    <3>2. CompletionInv'
      BY <1>0, <2>1, <3>1 DEF CompletionInv, CompletedHasAllRows, At
    <3>3. TrackedInv'
      BY <1>0, <2>1, <3>1 DEF TrackedInv, Tracked, HasJob, At
    <3>4. QED BY <3>2, <3>3
  <2>4. QED BY <2>2, <2>3
<1>3. QED BY <1>1, <1>2

LEMMA StepWork ==
  ASSUME WorkInv, Steady, [Next]_vars
  PROVE  WorkInv'
<1>0. /\ SourceInv /\ SourceInv' /\ CompletionInv /\ TrackedInv /\ faults \in Nat
  BY StepSource, PipelineAssumption DEF WorkInv, SourceInv, TypeInv, TypeOK
<1> SUFFICES CompletionInv' /\ TrackedInv'
  BY <1>0 DEF WorkInv
<1>1. ASSUME NEW w \in Workers, NEW j \in Jobs, JobStep(w, j) PROVE CompletionInv' /\ TrackedInv'
  BY <1>1, JobWork
<1>2. ASSUME NEW w \in Workers, OwnStep(w) PROVE CompletionInv' /\ TrackedInv'
  BY <1>2, OwnWork
<1>3. ASSUME NEW j \in Jobs, NEW k \in Kinds,
             \/ \E w \in Workers : k \in Prompts /\ EnqueueExtract(w, k, j)
             \/ ApiEnqueue(k, j)
      PROVE  CompletionInv' /\ TrackedInv'
  BY <1>3, EnqueueWork
<1>4. CASE BeginStep \/ ApiCommit
  BY <1>4, RequestWork
<1>5. CASE DeleteSource
  BY <1>0, <1>5 DEF DeleteSource, CompletionInv, CompletedHasAllRows, TrackedInv, At, Exists
<1>6. ASSUME NEW p \in Prompts, TogglePrompt(p) PROVE FALSE
  BY <1>6 DEF TogglePrompt, Steady
<1>7. CASE ClearJobs
  BY <1>0, <1>7 DEF ClearJobs, CompletionInv, CompletedHasAllRows, TrackedInv, At, Exists, source
<1>8. CASE UNCHANGED vars
  BY <1>0, <1>8 DEF vars, CompletionInv, CompletedHasAllRows, TrackedInv, Tracked, HasJob, At,
     Exists, source, queue
<1>9. QED
  BY <1>1, <1>2, <1>3, <1>4, <1>5, <1>6, <1>7, <1>8
  DEF Next, JobStep, OwnStep, BeginStep, Kinds

\* A completed source has the extraction of every prompt, however jobs are
\* repeated, retried or late.
THEOREM CompletedIsComplete == ASSUME Steady PROVE Spec => []CompletedHasAllRows
<1>1. WorkInv /\ [Next]_vars => WorkInv'
  BY StepWork
<1>2. WorkInv => CompletedHasAllRows
  BY DEF WorkInv, CompletionInv
<1>3. QED BY InitWork, <1>1, <1>2, PTL DEF Spec

\* While nothing is cut short, no prompt of a source in 'extracting' is
\* forgotten.
THEOREM ExtractingIsOwned == ASSUME Steady PROVE Spec => []WorkIsOwned
<1>1. WorkInv /\ [Next]_vars => WorkInv'
  BY StepWork
<1>2. WorkInv => WorkIsOwned
  BY DEF WorkInv, CompletionInv, TrackedInv, WorkIsOwned, Tracked, Exists
<1>3. QED BY InitWork, <1>1, <1>2, PTL DEF Spec

-----------------------------------------------------------------------------
(***************************************************************************)
(* What was asked for anew is done anew, or failed.                        *)
(***************************************************************************)
\* A job will still begin to extract p, or began after the request and has not
\* stored what it found, or has failed for good.
JobAwaits(j, p) ==
  /\ kind[j] = p
  /\ \/ phase[j] \in {"waiting", "failed"}
     \/ \E w \in Workers : /\ j \in worker[w].jobs
                           /\ worker[w].pc \in {"taken", "extracting", "failing"}
                           /\ ~worker[w].stale

Awaited(p) == p \in api.todo \/ \E j \in Jobs : JobAwaits(j, p)

OwedInv ==
  /\ TypeInv
  /\ api.op = "none" => api.todo = {}
  /\ faults = 0 => \A p \in owed : Awaited(p)

\* A job is not late because it moves on.
LEMMA MovedStale ==
  ASSUME TypeOK, NEW w \in Workers, NEW pc \in WorkerPCs
  PROVE  /\ Moved(w, pc).stale => worker[w].stale
         /\ \A now \in Statuses : [Moved(w, pc) EXCEPT !.seen = now].stale => worker[w].stale
<1>1. worker[w] \in [pc : WorkerPCs, jobs : SUBSET Jobs, seen : Statuses,
                     todo : SUBSET Prompts, stale : BOOLEAN]
  BY DEF TypeOK
<1>2. CASE pc \in {"done", "failing"}
  BY <1>1, <1>2 DEF Moved, NoJob, Statuses
<1>3. CASE pc \notin {"done", "failing"}
  BY <1>1, <1>3 DEF Moved
<1>4. QED BY <1>2, <1>3

LEMMA JobOwed ==
  ASSUME OwedInv, NEW w \in Workers, NEW j \in Jobs, JobStep(w, j), faults' = 0
  PROVE  \A p \in owed' : Awaited(p)'
<1>0. /\ TypeInv /\ TypeOK /\ HandsInv /\ faults \in Nat
      /\ kind \in [Jobs -> Kinds] /\ phase \in [Jobs -> Phases] /\ owed \subseteq Prompts
      /\ DOMAIN worker = Workers /\ worker[w].jobs \subseteq Jobs
  BY PipelineAssumption DEF OwedInv, TypeInv, TypeOK, DeliveryTypeOK
<1>1. faults = 0 /\ ~Crash(w, j) /\ UNCHANGED <<api, faults>>
  BY <1>0 DEF JobStep, TakeJob, MarkCompleted, MarkFailed, Crash, StartCrawl, StartExtract,
     StoreExtraction
<1>2. owed' \subseteq owed /\ \A p \in owed : Awaited(p)
  BY <1>1 DEF OwedInv, JobStep, TakeJob, MarkCompleted, MarkFailed, StartCrawl, StartExtract,
     StoreExtraction
<1>3. /\ \A v \in Workers \ {w} : worker'[v] = worker[v]
      /\ \A i \in Jobs \ {j} : kind'[i] = kind[i] /\ phase'[i] = phase[i]
  BY <1>0, <1>1 DEF JobStep, TakeJob, Take, MarkCompleted, Complete, MarkFailed, Retry, GiveUp,
     Move, StartCrawl, StartExtract, StoreExtraction, GoTo, GoToSeeing, queue
<1>4. \/ worker[w].pc = "idle" /\ TakeJob(w, j)
      \/ j \in worker[w].jobs /\ ~TakeJob(w, j)
  BY <1>1 DEF JobStep, TakeJob, MarkCompleted, MarkFailed, StartCrawl, StartExtract,
     StoreExtraction, At, MyJob
<1>5. ASSUME NEW i \in Jobs \ {j}, NEW p, JobAwaits(i, p)
      PROVE  JobAwaits(i, p)'
  <2>1. ASSUME NEW v \in Workers, i \in worker[v].jobs,
               worker[v].pc \in {"taken", "extracting", "failing"}
        PROVE  worker'[v] = worker[v]
    BY <1>0, <1>3, <1>4, <2>1 DEF HandsInv
  <2>2. QED BY <1>3, <1>5, <2>1 DEF JobAwaits
<1>6. ASSUME NEW p \in owed', JobAwaits(j, p)
      PROVE  JobAwaits(j, p)'
  <2>0. p \in Prompts /\ p # "none" /\ p # "crawl" /\ kind[j] = p
    BY <1>0, <1>2, <1>6, PipelineAssumption DEF JobAwaits
  <2>1. CASE TakeJob(w, j)
    <3>1. /\ worker'[w].pc = "taken" /\ worker'[w].jobs = {j} /\ ~worker'[w].stale
          /\ kind'[j] = p
      BY <1>0, <2>0, <2>1 DEF TakeJob, NoJob
    <3>2. QED BY <3>1 DEF JobAwaits
  <2>2. CASE MarkFailed(w, j)
    BY <1>0, <2>0, <2>2 DEF MarkFailed, Retry, GiveUp, Move, JobAwaits
  <2>3. CASE ~TakeJob(w, j) /\ ~MarkFailed(w, j)
    <3>1. /\ j \in worker[w].jobs /\ phase[j] = "taken"
          /\ \A v \in Workers : j \in worker[v].jobs => v = w
      BY <1>0, <1>4, <2>3 DEF HandsInv
    <3>2. worker[w].pc \in {"taken", "extracting", "failing"} /\ ~worker[w].stale
      BY <1>6, <3>1 DEF JobAwaits
    <3>3. StartExtract(w, j) \/ StoreExtraction(w, j)
      BY <1>1, <2>0, <2>3, <3>2 DEF JobStep, MarkCompleted, StartCrawl, At
    <3>4. \E pc \in {"extracting", "failing"} :
            \/ worker' = [worker EXCEPT ![w] = Moved(w, pc)]
            \/ worker' = [worker EXCEPT ![w] = [Moved(w, pc) EXCEPT !.seen = status]]
      <4>1. CASE StartExtract(w, j)
        BY <4>1 DEF StartExtract, GoToSeeing
      <4>2. CASE StoreExtraction(w, j)
        <5>1. ~(Exists /\ p \notin rows)
          BY <1>6, <2>0, <3>2, <4>2 DEF StoreExtraction
        <5>2. QED BY <2>0, <4>2, <5>1 DEF StoreExtraction, GoTo
      <4>3. QED BY <3>3, <4>1, <4>2
    <3>5. PICK pc \in {"extracting", "failing"} :
            \/ worker' = [worker EXCEPT ![w] = Moved(w, pc)]
            \/ worker' = [worker EXCEPT ![w] = [Moved(w, pc) EXCEPT !.seen = status]]
      BY <3>4
    <3> DEFINE next == worker'[w]
    <3>6. pc \in WorkerPCs /\ status \in Statuses
      BY <1>0 DEF WorkerPCs, TypeOK
    <3>7. next = Moved(w, pc) \/ next = [Moved(w, pc) EXCEPT !.seen = status]
      BY <1>0, <3>5
    <3>8. next.pc = pc /\ next.jobs = worker[w].jobs
      BY <1>0, <3>6, <3>7, MovedTypes
    <3>9. ~next.stale
      <4>1. /\ Moved(w, pc).stale => worker[w].stale
            /\ [Moved(w, pc) EXCEPT !.seen = status].stale => worker[w].stale
        BY <1>0, <3>6, MovedStale
      <4>2. QED BY <3>2, <3>7, <4>1
    <3>10. kind'[j] = p
      BY <2>0, <3>3 DEF StartExtract, StoreExtraction, queue
    <3>11. QED BY <3>1, <3>8, <3>9, <3>10 DEF JobAwaits
  <2>4. QED BY <2>1, <2>2, <2>3
<1>7. QED BY <1>1, <1>2, <1>5, <1>6 DEF Awaited

LEMMA OwnOwed ==
  ASSUME OwedInv, NEW w \in Workers, OwnStep(w), faults' = 0
  PROVE  \A p \in owed' : Awaited(p)'
<1>0. TypeInv /\ TypeOK /\ HandsInv /\ faults \in Nat /\ DOMAIN worker = Workers
  BY PipelineAssumption DEF OwedInv, TypeInv, TypeOK
<1>1. /\ \A v \in Workers \ {w} : worker'[v] = worker[v]
      /\ UNCHANGED <<queue, api, owed>> /\ worker'[w].jobs = worker[w].jobs
  BY <1>0, OwnEffect
<1>2. faults = 0 /\ ~EnqueueFails(w)
  BY <1>0 DEF OwnStep, CrawlFails, CrawlSucceeds, ReadPrompts, EnqueueFails, MarkExtracting,
     ExtractFails, CheckCompletion, CompleteSource
<1>3. ASSUME worker[w].pc \in {"taken", "extracting", "failing"}
      PROVE  worker'[w].pc = "failing" /\ ~worker'[w].stale
  <2>1. ExtractFails(w)
    BY <1>2, <1>3 DEF OwnStep, CrawlFails, CrawlSucceeds, ReadPrompts, MarkExtracting,
       CheckCompletion, CompleteSource, At
  <2>2. worker'[w] = Moved(w, "failing")
    BY <1>0, <2>1 DEF ExtractFails, GoTo
  <2>3. QED BY <2>2 DEF Moved, NoJob
<1>4. ASSUME NEW i \in Jobs, NEW p, JobAwaits(i, p)
      PROVE  JobAwaits(i, p)'
  <2>1. ASSUME NEW v \in Workers, i \in worker[v].jobs,
               worker[v].pc \in {"taken", "extracting", "failing"}, ~worker[v].stale
        PROVE  /\ i \in worker'[v].jobs
               /\ worker'[v].pc \in {"taken", "extracting", "failing"} /\ ~worker'[v].stale
    BY <1>1, <1>3, <2>1
  <2>2. QED BY <1>1, <1>4, <2>1 DEF JobAwaits, queue
<1>5. QED BY <1>1, <1>2, <1>4 DEF OwedInv, Awaited

LEMMA EnqueueOwed ==
  ASSUME OwedInv, NEW j \in Jobs, NEW k \in Kinds, faults = 0,
         \/ \E w \in Workers : k \in Prompts /\ EnqueueExtract(w, k, j)
         \/ ApiEnqueue(k, j)
  PROVE  \A p \in owed' : Awaited(p)'
<1>0. /\ TypeInv /\ TypeOK /\ HandsInv
      /\ kind \in [Jobs -> Kinds] /\ phase \in [Jobs -> Phases]
  BY DEF OwedInv, TypeInv, TypeOK, DeliveryTypeOK
<1>1. /\ phase[j] = "absent" /\ phase' = [phase EXCEPT ![j] = "waiting"]
      /\ kind' = [kind EXCEPT ![j] = k] /\ owed' = owed
  BY DEF EnqueueExtract, ApiEnqueue, Enqueue, Submit, Move
<1>2. /\ \A v \in Workers : /\ worker'[v].pc = worker[v].pc /\ worker'[v].jobs = worker[v].jobs
                            /\ worker'[v].stale = worker[v].stale
      /\ api.todo \subseteq api'.todo \cup {k}
  BY <1>0 DEF EnqueueExtract, ApiEnqueue, TypeOK
<1>3. JobAwaits(j, k)'
  BY <1>0, <1>1 DEF JobAwaits
<1>4. ASSUME NEW i \in Jobs, NEW p, JobAwaits(i, p)
      PROVE  JobAwaits(i, p)'
  <2>1. i # j
    BY <1>0, <1>1, <1>4 DEF JobAwaits, HandsInv
  <2>2. QED BY <1>0, <1>1, <1>2, <1>4, <2>1 DEF JobAwaits
<1>5. QED BY <1>1, <1>2, <1>3, <1>4 DEF OwedInv, Awaited

LEMMA StepOwed ==
  ASSUME OwedInv, [Next]_vars
  PROVE  OwedInv'
<1>0. TypeInv /\ TypeOK /\ TypeInv' /\ faults \in Nat
  BY StepTypes, PipelineAssumption DEF OwedInv, TypeInv, TypeOK
<1> SUFFICES /\ api'.op = "none" => api'.todo = {}
             /\ faults' = 0 => \A p \in owed' : Awaited(p)'
  BY <1>0 DEF OwedInv
<1>1. ASSUME NEW w \in Workers, NEW j \in Jobs, JobStep(w, j)
      PROVE  UNCHANGED api /\ (faults' = 0 => \A p \in owed' : Awaited(p)')
  BY <1>1, JobOwed DEF JobStep, TakeJob, MarkCompleted, MarkFailed, Crash, StartCrawl,
     StartExtract, StoreExtraction
<1>2. ASSUME NEW w \in Workers, OwnStep(w)
      PROVE  UNCHANGED api /\ (faults' = 0 => \A p \in owed' : Awaited(p)')
  BY <1>0, <1>2, OwnEffect, OwnOwed
<1>3. ASSUME NEW j \in Jobs, NEW k \in Kinds,
             \/ \E w \in Workers : k \in Prompts /\ EnqueueExtract(w, k, j)
             \/ ApiEnqueue(k, j)
      PROVE  /\ api'.op = "none" => api'.todo = {}
             /\ faults' = 0 => \A p \in owed' : Awaited(p)'
  <2>1. /\ faults' = faults /\ api'.op = api.op /\ api'.todo \subseteq api.todo
    BY <1>0, <1>3 DEF EnqueueExtract, ApiEnqueue, TypeOK
  <2>2. QED BY <1>3, <2>1, EnqueueOwed DEF OwedInv
<1>4. CASE BeginStep
  <2>1. PICK op \in AllOps, kinds \in SUBSET Kinds, dels \in SUBSET Prompts :
          Begin(op, kinds, dels)
    BY <1>0, <1>4, BeginsRequest
  <2>2. /\ api' = [op |-> op, seen |-> status, todo |-> kinds, dels |-> dels]
        /\ op # "none" /\ api.todo = {} /\ UNCHANGED <<phase, kind, faults>>
        /\ \/ owed' = kinds
           \/ UNCHANGED <<owed, worker>>
    BY <2>1 DEF Begin, AllOps, OwedInv, queue
  <2>3. api'.op # "none" /\ api'.todo = kinds
    BY <2>2
  <2>4. QED BY <2>2, <2>3 DEF OwedInv, Awaited, JobAwaits
<1>5. CASE ApiCommit
  <2>1. /\ api.todo = {} /\ api'.todo = {} /\ UNCHANGED <<phase, kind, worker, owed, faults>>
    BY <1>5 DEF ApiCommit, NoRequest, queue
  <2>2. QED BY <2>1 DEF OwedInv, Awaited, JobAwaits
<1>6. CASE DeleteSource
  BY <1>6 DEF DeleteSource, OwedInv
<1>7. ASSUME NEW p \in Prompts, TogglePrompt(p)
      PROVE  UNCHANGED <<phase, kind, worker, api, owed, faults>>
  BY <1>7 DEF TogglePrompt, queue
<1>8. CASE ClearJobs
  BY <1>0, <1>8 DEF ClearJobs, OwedInv
<1>9. CASE UNCHANGED vars
  BY <1>9 DEF vars, queue, OwedInv, Awaited, JobAwaits
<1>10. ASSUME UNCHANGED <<phase, kind, worker, api, owed, faults>>
       PROVE  /\ api'.op = "none" => api'.todo = {}
              /\ faults' = 0 => \A p \in owed' : Awaited(p)'
  BY <1>10 DEF OwedInv, Awaited, JobAwaits
<1>11. QED
  BY <1>1, <1>2, <1>3, <1>4, <1>5, <1>6, <1>7, <1>8, <1>9, <1>10
  DEF Next, JobStep, OwnStep, BeginStep, Kinds, OwedInv

\* Whatever requests come in between and however often jobs are retried: with
\* nothing cut short, no prompt whose extraction was asked for anew is forgotten
\* when the system has come to rest.
THEOREM ReExtractionIsNotForgotten == Spec => []AllReExtracted
<1>1. Init => OwedInv
  BY InitTypes DEF Init, OwedInv, NoRequest
<1>2. OwedInv /\ [Next]_vars => OwedInv'
  BY StepOwed
<1>3. OwedInv => AllReExtracted
  BY DEF OwedInv, Awaited, JobAwaits, AllReExtracted, Quiet, HasJob, At
<1>4. QED BY <1>1, <1>2, <1>3, PTL DEF Spec
=============================================================================
