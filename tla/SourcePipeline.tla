--------------------------- MODULE SourcePipeline ---------------------------
(***************************************************************************)
(* One source on its way through the pipeline: the crawl and extract jobs  *)
(* of the workers (app/worker.py) and the admin requests that start,       *)
(* repeat and repair them (app/api/admin.py, app/recovery_endpoints.py).   *)
(*                                                                         *)
(* Workers and requests share the source's row in PostgreSQL and the job   *)
(* queue in Redis, and no transaction spans the two.  Each loads the row   *)
(* once, keeps what it saw, and commits later; SQLAlchemy writes a column  *)
(* only if its new value differs from the one that was loaded.  The queue  *)
(* is the abstract one of JobDelivery, which JobQueue implements.          *)
(***************************************************************************)
EXTENDS JobDelivery, FiniteSets

CONSTANTS
  Workers,
  Prompts,    \* the prompts of the source's category
  AdminOps,   \* the requests that may come in, a subset of AllOps
  MaxOps,     \* bound: requests served
  MaxFaults   \* bound: crashes, Redis errors and clearings of the queue

AllOps == {"create", "re_extract", "re_extract_all", "retry_pending",
           "retry_failed", "retry_extracting", "cleanup_stuck",
           "delete", "toggle_prompt", "clear_jobs"}

ASSUME PipelineAssumption ==
  /\ MaxAttempts \in Nat \ {0}
  /\ MaxOps \in Nat
  /\ MaxFaults \in Nat
  /\ AdminOps \subseteq AllOps
  /\ IsFiniteSet(Prompts)
  /\ "crawl" \notin Prompts
  /\ "none" \notin Prompts

VARIABLES
  status,     \* sources.status as committed, "none" without a row
  markdown,   \* the source has markdown_content
  rows,       \* prompts with a committed row in extractions
  active,     \* prompts with is_active
  kind,       \* what each job does, "none" before and after its life
  worker,     \* where each worker is in its job
  api,        \* the admin request being served
  owed,       \* prompts whose re-extraction was requested, with no result
              \* stored of a job that began after the request
  ops, faults

queue == <<phase, tries, kind>>
source == <<status, markdown, rows>>
vars == <<queue, source, active, worker, api, owed, ops, faults>>

Statuses == {"none", "pending", "crawled", "extracting", "completed", "failed"}
Kinds == {"none", "crawl"} \cup Prompts

NoJob == [pc |-> "idle", jobs |-> {}, seen |-> "none", todo |-> {}, stale |-> FALSE]
NoRequest == [op |-> "none", seen |-> "none", todo |-> {}, dels |-> {}]
WorkerPCs == {"idle", "taken", "crawling", "crawled", "enqueuing",
              "extracting", "stored", "completing", "done", "failing"}

TypeOK ==
  /\ DeliveryTypeOK
  /\ status \in Statuses
  /\ markdown \in BOOLEAN
  /\ rows \subseteq Prompts
  /\ active \subseteq Prompts
  /\ kind \in [Jobs -> Kinds]
  /\ worker \in [Workers -> [pc : WorkerPCs, jobs : SUBSET Jobs,
                             seen : Statuses, todo : SUBSET Prompts,
                             stale : BOOLEAN]]
  /\ api \in [op : AllOps \cup {"none"}, seen : Statuses,
              todo : SUBSET Kinds, dels : SUBSET Prompts]
  /\ owed \subseteq Prompts
  /\ ops \in 0..MaxOps
  /\ faults \in 0..MaxFaults

Init ==
  /\ DInit
  /\ status = "none"
  /\ markdown = FALSE
  /\ rows = {}
  /\ active = Prompts
  /\ kind = [j \in Jobs |-> "none"]
  /\ worker = [w \in Workers |-> NoJob]
  /\ api = NoRequest
  /\ owed = {}
  /\ ops = 0
  /\ faults = 0

-----------------------------------------------------------------------------
(***************************************************************************)
(* The queue and the row                                                   *)
(***************************************************************************)
Enqueue(j, k) == Submit(j) /\ kind' = [kind EXCEPT ![j] = k]

\* CRAWL outranks EXTRACT, a retry ranks ten below its type.
Rank(j) == (IF kind[j] = "crawl" THEN 100 ELSE 50) - (IF tries[j] > 0 THEN 10 ELSE 0)

At(w, pc) == worker[w].pc = pc
MyJob(w, j) == j \in worker[w].jobs
\* What a session has read is of no use once the job function returns.
Moved(w, pc) ==
  IF pc \in {"done", "failing"}
  THEN [NoJob EXCEPT !.pc = pc, !.jobs = worker[w].jobs]
  ELSE [worker[w] EXCEPT !.pc = pc]
GoTo(w, pc) == worker' = [worker EXCEPT ![w] = Moved(w, pc)]
GoToSeeing(w, pc, now) ==
  worker' = [worker EXCEPT ![w] = [Moved(w, pc) EXCEPT !.seen = now]]

\* An UPDATE of the status by a session that loaded `seen': nothing is sent
\* when the value is the loaded one.
Written(seen, new) == IF seen = new THEN status ELSE new

Exists == status # "none"

-----------------------------------------------------------------------------
(***************************************************************************)
(* The worker loop: take a job, run it, mark it.                           *)
(***************************************************************************)
TakeJob(w, j) ==
  /\ At(w, "idle")
  /\ \A k \in Jobs : phase[k] = "waiting" => Rank(k) <= Rank(j)
  /\ Take(j)
  /\ worker' = [worker EXCEPT ![w] = [NoJob EXCEPT !.pc = "taken", !.jobs = {j}]]
  /\ UNCHANGED <<kind, source, active, api, owed, ops, faults>>

MarkCompleted(w, j) ==
  /\ At(w, "done") /\ MyJob(w, j)
  /\ Complete(j)
  /\ kind' = [kind EXCEPT ![j] = "none"]
  /\ worker' = [worker EXCEPT ![w] = NoJob]
  /\ UNCHANGED <<source, active, api, owed, ops, faults>>

\* mutant: the failure is not recorded in the queue
MutMarkFailed(w, j) ==
  /\ At(w, "failing") /\ MyJob(w, j)
  /\ worker' = [worker EXCEPT ![w] = NoJob]
  /\ UNCHANGED <<queue, source, active, api, owed, ops, faults>>

MarkFailed(w, j) ==
  /\ At(w, "failing") /\ MyJob(w, j)
  /\ Retry(j) \/ GiveUp(j)
  /\ worker' = [worker EXCEPT ![w] = NoJob]
  /\ UNCHANGED <<kind, source, active, api, owed, ops, faults>>

\* The worker is stopped or killed: its open transaction is rolled back and
\* its job is gone.
Crash(w, j) ==
  /\ MyJob(w, j)
  /\ faults < MaxFaults
  /\ faults' = faults + 1
  /\ Lose(j)
  /\ tries' = tries
  /\ kind' = [kind EXCEPT ![j] = "none"]
  /\ worker' = [worker EXCEPT ![w] = NoJob]
  /\ UNCHANGED <<source, active, api, owed, ops>>

-----------------------------------------------------------------------------
(***************************************************************************)
(* _process_crawl_job(): load the source, crawl, commit 'crawled', queue   *)
(* one EXTRACT job per active prompt, and only then commit 'extracting'.   *)
(***************************************************************************)
StartCrawl(w, j) ==
  /\ At(w, "taken") /\ MyJob(w, j) /\ kind[j] = "crawl"
  /\ GoToSeeing(w, IF Exists THEN "crawling" ELSE "failing", status)
  /\ UNCHANGED <<queue, source, active, api, owed, ops, faults>>

\* The URL is empty or the crawler reports no success.
CrawlFails(w) ==
  /\ At(w, "crawling")
  /\ status' = IF Exists THEN "failed" ELSE "none"
  /\ GoTo(w, "failing")
  /\ UNCHANGED <<queue, markdown, rows, active, api, owed, ops, faults>>

\* mutant: no commit before the jobs are queued
MutCrawlSucceeds(w) ==
  /\ At(w, "crawling")
  /\ GoTo(w, IF Exists THEN "crawled" ELSE "failing")
  /\ UNCHANGED <<queue, source, active, api, owed, ops, faults>>

\* update_obj() re-reads the row, so the session now sees what is stored.
\* An UPDATE of a row that was deleted meanwhile raises, the job fails.
CrawlSucceeds(w) ==
  /\ At(w, "crawling")
  /\ status' = IF Exists THEN Written(worker[w].seen, "crawled") ELSE "none"
  /\ markdown' = Exists
  /\ GoToSeeing(w, IF Exists THEN "crawled" ELSE "failing", status')
  /\ UNCHANGED <<queue, rows, active, api, owed, ops, faults>>

ReadPrompts(w) ==
  /\ At(w, "crawled")
  /\ worker' = [worker EXCEPT ![w] =
                  IF active = {} THEN Moved(w, "done")
                  ELSE [Moved(w, "enqueuing") EXCEPT !.todo = active]]
  /\ UNCHANGED <<queue, source, active, api, owed, ops, faults>>

EnqueueExtract(w, p, j) ==
  /\ At(w, "enqueuing") /\ p \in worker[w].todo
  /\ Enqueue(j, p)
  /\ worker' = [worker EXCEPT ![w].todo = @ \ {p}]
  /\ UNCHANGED <<source, active, api, owed, ops, faults>>

\* Redis refuses an enqueue: the exception fails the crawl job half way.
EnqueueFails(w) ==
  /\ At(w, "enqueuing") /\ worker[w].todo # {}
  /\ faults < MaxFaults
  /\ faults' = faults + 1
  /\ GoTo(w, "failing")
  /\ UNCHANGED <<queue, source, active, api, owed, ops>>

\* mutant: 'extracting' is committed while jobs are still being queued
MutMarkExtracting(w) ==
  /\ At(w, "enqueuing")
  /\ status' = IF Exists THEN Written(worker[w].seen, "extracting") ELSE "none"
  /\ GoTo(w, IF Exists THEN "done" ELSE "failing")
  /\ UNCHANGED <<queue, markdown, rows, active, api, owed, ops, faults>>

MarkExtracting(w) ==
  /\ At(w, "enqueuing") /\ worker[w].todo = {}
  /\ status' = IF Exists THEN Written(worker[w].seen, "extracting") ELSE "none"
  /\ GoTo(w, IF Exists THEN "done" ELSE "failing")
  /\ UNCHANGED <<queue, markdown, rows, active, api, owed, ops, faults>>

-----------------------------------------------------------------------------
(***************************************************************************)
(* _process_extract_job(): load the source, run the prompt, insert the row *)
(* and, in a second transaction, look whether the source is complete.      *)
(***************************************************************************)
StartExtract(w, j) ==
  /\ At(w, "taken") /\ MyJob(w, j) /\ kind[j] \in Prompts
  /\ GoToSeeing(w, IF Exists /\ markdown THEN "extracting" ELSE "failing", status)
  /\ UNCHANGED <<queue, source, active, api, owed, ops, faults>>

\* The insert waits for a request that has deleted the row and not committed.
Locked(p) == p \in api.dels

\* mutant: a source deleted meanwhile is not noticed
MutStoreExtraction(w, j) ==
  /\ At(w, "extracting") /\ MyJob(w, j)
  /\ ~Locked(kind[j])
  /\ rows' = rows \cup {kind[j]}
  /\ owed' = IF worker[w].stale THEN owed ELSE owed \ {kind[j]}
  /\ GoTo(w, "stored")
  /\ UNCHANGED <<queue, status, markdown, active, api, ops, faults>>

\* mutant: a row that is already there counts as this job's result
MutKeepExisting(w, j) ==
  LET p == kind[j]
      new == Exists /\ p \notin rows
  IN
  /\ At(w, "extracting") /\ MyJob(w, j)
  /\ ~Locked(p)
  /\ rows' = IF new THEN rows \cup {p} ELSE rows
  /\ owed' = IF new /\ ~worker[w].stale THEN owed \ {p} ELSE owed
  /\ GoTo(w, IF Exists THEN "stored" ELSE "failing")
  /\ UNCHANGED <<queue, status, markdown, active, api, ops, faults>>

\* process_prompt() always inserts.  A row of this source and prompt that is
\* already there violates the unique constraint, a deleted source the foreign
\* key: the job fails.
StoreExtraction(w, j) ==
  LET p == kind[j]
      ok == Exists /\ p \notin rows
  IN
  /\ At(w, "extracting") /\ MyJob(w, j)
  /\ ~Locked(p)
  /\ rows' = IF ok THEN rows \cup {p} ELSE rows
  /\ owed' = IF ok /\ ~worker[w].stale THEN owed \ {p} ELSE owed
  /\ GoTo(w, IF ok THEN "stored" ELSE "failing")
  /\ UNCHANGED <<queue, status, markdown, active, api, ops, faults>>

\* Anything else that raises in there, for instance a quality the table's
\* check constraint refuses.
ExtractFails(w) ==
  /\ At(w, "extracting")
  /\ GoTo(w, "failing")
  /\ UNCHANGED <<queue, source, active, api, owed, ops, faults>>

\* mutant: one row is enough
MutAllExtracted == active # {} /\ rows # {}
\* All rows of the source are counted against the prompts active now.
AllExtracted == active # {} /\ Cardinality(rows) >= Cardinality(active)

CheckCompletion(w) ==
  /\ At(w, "stored")
  /\ GoTo(w, IF Exists /\ AllExtracted THEN "completing" ELSE "done")
  /\ UNCHANGED <<queue, source, active, api, owed, ops, faults>>

\* The source in this session is the one loaded before the LLM calls.
CompleteSource(w) ==
  /\ At(w, "completing")
  /\ status' = IF Exists THEN Written(worker[w].seen, "completed") ELSE "none"
  /\ GoTo(w, IF Exists THEN "done" ELSE "failing")
  /\ UNCHANGED <<queue, markdown, rows, active, api, owed, ops, faults>>

-----------------------------------------------------------------------------
(***************************************************************************)
(* Admin requests: read the row, enqueue, commit, in this order.           *)
(***************************************************************************)
Begin(op, kinds, dels) ==
  /\ api.op = "none"
  /\ op \in AdminOps
  /\ ops < MaxOps
  /\ ops' = ops + 1
  /\ api' = [op |-> op, seen |-> status, todo |-> kinds, dels |-> dels]
  /\ IF op \in {"re_extract", "re_extract_all"}
     THEN /\ owed' = kinds
          /\ worker' = [w \in Workers |-> [worker[w] EXCEPT !.stale = At(w, "extracting")]]
     ELSE UNCHANGED <<owed, worker>>
  /\ UNCHANGED <<queue, source, active, faults>>

\* create_source(): the insert is flushed, and visible only after the commit.
\* (One source is followed: it is created once.)
CreateSource == ops = 0 /\ Begin("create", {"crawl"}, {})

\* re_extract_source(): existing rows are left in place.
ReExtract == Exists /\ markdown /\ active # {} /\ Begin("re_extract", active, {})

\* re_extract_all_sources(): rows are deleted first.
ReExtractAll == status \in {"completed", "extracting"}
                /\ Begin("re_extract_all", active, rows)

\* retry_pending_sources() and requeue_pending_sources().
RetryPending == status = "pending" /\ Begin("retry_pending", {"crawl"}, {})
RetryFailed == status = "failed" /\ Begin("retry_failed", {"crawl"}, {})
RetryExtracting ==
  status = "extracting" /\ active # {} /\ Begin("retry_extracting", active, {})

\* cleanup_stuck_sources(): two hours in 'extracting', while jobs may wait.
CleanupStuck == status = "extracting" /\ Begin("cleanup_stuck", {}, {})

ApiEnqueue(k, j) ==
  /\ k \in api.todo
  /\ Enqueue(j, k)
  /\ api' = [api EXCEPT !.todo = @ \ {k}]
  /\ UNCHANGED <<source, active, worker, owed, ops, faults>>

\* mutant: a status the table's check constraint does not know
MutStatusesAfter ==
  IF api.op = "create" THEN {"pending"}
  ELSE IF api.op = "retry_failed" THEN {"queued"}
  ELSE {status}

\* What a request may leave in the status when it commits.  With no active
\* prompt for the category, re-extract-all returns early if no category has
\* one, and otherwise fails the source.
StatusesAfter ==
  CASE api.op = "create" -> {"pending"}
    [] ~Exists /\ api.op # "create" -> {"none"}
    [] Exists /\ api.op = "re_extract" -> {Written(api.seen, "extracting")}
    [] Exists /\ api.op = "re_extract_all" ->
         IF active = {} THEN {status, "failed"} ELSE {"crawled"}
    [] Exists /\ api.op = "retry_failed" -> {"pending"}
    [] Exists /\ api.op = "cleanup_stuck" -> {"failed"}
    [] OTHER -> {status}

ApiCommit ==
  /\ api.op # "none" /\ api.todo = {}
  /\ status' \in StatusesAfter
  /\ rows' = rows \ api.dels
  /\ api' = NoRequest
  /\ UNCHANGED <<queue, markdown, active, worker, owed, ops, faults>>

\* delete_source(): the row and, by cascade, its extractions; jobs stay.
DeleteSource ==
  /\ "delete" \in AdminOps /\ Exists /\ api.op = "none" /\ ops < MaxOps
  /\ status' = "none"
  /\ markdown' = FALSE
  /\ rows' = {}
  /\ owed' = {}
  /\ ops' = ops + 1
  /\ UNCHANGED <<queue, active, worker, api, faults>>

\* update_prompt() with a new is_active; existing rows stay.
TogglePrompt(p) ==
  /\ "toggle_prompt" \in AdminOps /\ api.op = "none" /\ ops < MaxOps
  /\ active' = IF p \in active THEN active \ {p} ELSE active \cup {p}
  /\ ops' = ops + 1
  /\ UNCHANGED <<queue, source, worker, api, owed, faults>>

\* clear_stuck_jobs(), clear_redis(), or Redis restarting empty: a fault, as
\* far as the source is concerned.
ClearJobs ==
  /\ "clear_jobs" \in AdminOps /\ api.op = "none" /\ faults < MaxFaults
  /\ phase' = [j \in Jobs |-> IF phase[j] = "waiting" THEN "lost" ELSE phase[j]]
  /\ faults' = faults + 1
  /\ UNCHANGED <<tries, kind, source, active, worker, api, owed, ops>>

-----------------------------------------------------------------------------
CrawlStep(w) ==
  \/ \E j \in Jobs : StartCrawl(w, j)
  \/ CrawlFails(w) \/ CrawlSucceeds(w)
  \/ ReadPrompts(w)
  \/ \E p \in Prompts, j \in Jobs : EnqueueExtract(w, p, j)
  \/ MarkExtracting(w)

ExtractStep(w) ==
  \/ \E j \in Jobs : StartExtract(w, j) \/ StoreExtraction(w, j)
  \/ ExtractFails(w)
  \/ CheckCompletion(w)
  \/ CompleteSource(w)

WorkerStep(w) ==
  \/ \E j \in Jobs : TakeJob(w, j) \/ MarkCompleted(w, j) \/ MarkFailed(w, j)
  \/ CrawlStep(w)
  \/ ExtractStep(w)

ApiStep == (\E k \in Kinds, j \in Jobs : ApiEnqueue(k, j)) \/ ApiCommit

Next ==
  \/ \E w \in Workers :
       \/ \E j \in Jobs :
            \/ TakeJob(w, j)
            \/ MarkCompleted(w, j)
            \/ MarkFailed(w, j)
            \/ Crash(w, j)
            \/ StartCrawl(w, j)
            \/ StartExtract(w, j)
            \/ StoreExtraction(w, j)
            \/ \E p \in Prompts : EnqueueExtract(w, p, j)
       \/ CrawlFails(w)
       \/ CrawlSucceeds(w)
       \/ ReadPrompts(w)
       \/ EnqueueFails(w)
       \/ MarkExtracting(w)
       \/ ExtractFails(w)
       \/ CheckCompletion(w)
       \/ CompleteSource(w)
  \/ CreateSource
  \/ ReExtract
  \/ ReExtractAll
  \/ RetryPending
  \/ RetryFailed
  \/ RetryExtracting
  \/ CleanupStuck
  \/ \E k \in Kinds, j \in Jobs : ApiEnqueue(k, j)
  \/ ApiCommit
  \/ DeleteSource
  \/ \E p \in Prompts : TogglePrompt(p)
  \/ ClearJobs

Spec == Init /\ [][Next]_vars

\* Workers keep running their loop and requests that began are served.
Fairness == (\A w \in Workers : WF_vars(WorkerStep(w))) /\ WF_vars(ApiStep)

FairSpec == Spec /\ Fairness

-----------------------------------------------------------------------------
(***************************************************************************)
(* Properties                                                              *)
(***************************************************************************)
HasJob(p, phases) == \E j \in Jobs : kind[j] = p /\ phase[j] \in phases

\* Nothing is going on any more.
Quiet ==
  /\ api.op = "none"
  /\ \A w \in Workers : At(w, "idle")
  /\ \A j \in Jobs : phase[j] \notin {"waiting", "taken"}

\* An extraction job exists only for a source whose Markdown is committed (or
\* that was deleted since): extraction never runs ahead of the crawl.
ExtractJobsHaveMarkdown ==
  \A j \in Jobs : kind[j] \in Prompts => markdown \/ ~Exists

\* No extraction row outlives its source or precedes its Markdown.
NoOrphanRows == rows # {} => Exists /\ markdown

\* A source is marked completed only when every active prompt has its row
\* (prompts left as they are, no re-extraction of everything).
CompletedHasAllRows == status = "completed" => active \subseteq rows

\* While no job is cut short, a source in 'extracting' has for every active
\* prompt a stored row, a job under way, or a job that failed for good.
WorkIsOwned ==
  (status = "extracting" /\ faults = 0) =>
    \A p \in active : p \in rows \/ HasJob(p, {"waiting", "taken", "failed"})

\* Re-extraction of everything, with nothing cut short: when the system has
\* come to rest, each prompt it asked for has a new result, from a job that
\* began after the request, or a job for it has failed for good.
AllReExtracted ==
  (Quiet /\ faults = 0) => \A p \in owed : HasJob(p, {"failed"})

\* With one worker, and as long as no prompt is switched, a source never stays
\* on its way: from 'pending', 'crawled' and 'extracting' it comes to
\* 'completed' or 'failed' (or is deleted), whatever is requested meanwhile,
\* unless a job fails for good or is cut short.  Both premises are needed.  With
\* two workers see DoneMeansCompleted.  With every prompt switched off before
\* the crawl job reads them the source stays 'crawled'; with one switched off
\* until they are read and on again afterwards it stays 'extracting', since its
\* row is counted for and no job will store it.
SourceSettles ==
  [](active = Prompts) =>
    ((status \in {"pending", "crawled", "extracting"})
       ~> \/ status \in {"completed", "failed", "none"}
          \/ \E j \in Jobs : phase[j] = "failed"
          \/ faults > 0)

(***************************************************************************)
(* A statement of the source that the code does not keep                   *)
(***************************************************************************)

\* worker.py:492: if all extractions are done, the source is marked as
\* completed.  Looked at when nothing is going on any more.
DoneMeansCompleted ==
  (Quiet /\ Exists /\ active # {} /\ active \subseteq rows) => status = "completed"
=============================================================================
