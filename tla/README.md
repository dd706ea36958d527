# FlexMapping in TLA+

Formal models of the FlexMapping pipeline: crawl a web page, extract fields
from it with an LLM, validate them, show the result to curators, publish it.
The modules model the code under `src/app`, TLC checks them on small
instances, and TLAPS proves the results listed below for every instance.

## The system

FastAPI processes serve the admin API, a worker process runs a pool of asyncio
tasks, PostgreSQL holds the data and Redis the job queue. An LLM server and the
crawled sites are outside.

| Component | State | Operations | What makes it correct |
|---|---|---|---|
| Circuit breaker, `services/circuit_breaker.py` | `state`, `failure_count`, `opened_time`, `_test_request_in_flight`, one instance per process | `can_execute`, `record_success`, `record_failure`, `reset` | no call during the pause, no wedged half-open state, recovery and cut-off |
| Job queue, `services/job_queue.py` | Redis: a hash per job, the sorted set, an id counter | `enqueue`, `get_next_job`, `mark_running`, `mark_completed`, `mark_failed` | one holder per job, bounded tries, nothing forgotten |
| Worker pool, `worker.py` | tasks, a semaphore, a token bucket | loop; crawl, extract, translate, generate jobs; completion check | every job settles, source status agrees with its rows, rate bounds |
| Prompt engine, `services/prompt_engine.py` | none of its own | waves, dependency context, extract phase, validate phase, insert of the row | dependencies first, one row per source and prompt |
| Retry manager, `services/retry_manager.py` | none | `execute`, `calculate_backoff` | bounded attempts and delays |
| Crawler, `services/crawler_service.py` | last request per domain, robots cache | `crawl_url`, `RateLimiter.wait`, `can_crawl` | the per-domain delay |
| Admin API, `api/admin.py` | sources, prompts, extractions, entities, profiles in PostgreSQL | create, delete, re-extract, repair, edit, revalidate, translate, publish, reset | repairs repair, edits are not lost |
| Recovery, `recovery_endpoints.py` | as above | requeue by status, clear the queue | as above |
| Translation, profile and site generators | rows in PostgreSQL, a file tree | translate, generate, publish | nothing public that nobody published, no lost correction, no foreign files removed |
| Entity inventory, `api/admin.py` | entities, variants, the link of an extraction | create, rename, variants, auto-link | a link stands for a text the extraction had |
| Entity normalizer, `services/entity_normalizer.py` | a review queue | match, review | nothing calls it |
| Auth, configuration, seed, UI, public API | settings, sessions | checks and reads | roles cover their permissions |

Interactions. Requests and workers share PostgreSQL rows and Redis keys and no
transaction spans the two: a request enqueues jobs first and commits later, a
worker commits first and marks its job later. All workers of a process share
one breaker, one limiter and one semaphore. Calls to the LLM run between two
looks at the breaker and between the read of a row and its write.

Hard to test, and what the properties are for: interleavings of two workers on
one source; a request between its enqueue and its commit; stale objects written
back; processes that stop between two commands; retries of work that was
committed; late answers reaching a breaker in another state; ids reused after
the queue was cleared.

## Modules

| Module | Models | Notes |
|---|---|---|
| `CircuitBreaker` | `circuit_breaker.py`, the two phases of `prompt_engine.py`, the LLM server | one action per branch of `can_execute()` that admits, one per outcome |
| `CircuitBreakerProofs` | theorems about it | checked by TLAPS |
| `JobDelivery` | the abstract queue: what a job can go through | used by the next two |
| `JobQueue` | `job_queue.py`, the worker loop, the clearings | one action per Redis command; implements `JobDelivery` |
| `JobQueueProofs` | theorems about it, and that it implements `JobDelivery` | checked by TLAPS |
| `SourcePipeline` | crawl and extract jobs, completion check, admin requests on one source | composed on top of `JobDelivery` |
| `SourcePipelineProofs` | theorems about it | checked by TLAPS |
| `LLMLimiter` | the pool's semaphore, minimum delay and token bucket in `worker.py` | one action per stretch between two awaits |
| `CrawlLimiter` | the per-domain limiter and the cache of robots.txt in `crawler_service.py` | one action per stretch between two awaits |
| `WorkerLimits` | the tasks of a pool under both limiters | composes the two on one clock |
| `WorkerLimitsProofs` | theorems about it | checked by TLAPS |
| `Publishing` | corrections, revalidation, translation, profiles and publication, in `api/admin.py`, `admin_ui.py`, `worker.py`, `steckbrief_generator.py`, `extraction_translation.py` | jobs and requests over the same rows; its jobs are those of `JobDelivery` |
| `PublishingProofs` | theorems about it | checked by TLAPS |
| `SiteGenerator` | `static_site_generator.py`, `generate_site.py` | composed on top of `Publishing` |
| `SiteGeneratorProofs` | theorems about it | checked by TLAPS |
| `Entities` | the inventory and `auto_link_entities()` in `api/admin.py` | composed on top of `Publishing` |
| `EntitiesProofs` | theorems about it | checked by TLAPS |
| `Catalogue` | prompts, dependencies, categories, `seed.py` | one action per endpoint |
| `PromptEngine` | `prompt_engine.py`, `retry_manager.py`, `llm_client.py`, deletion of prompts, factory reset | on top of `Catalogue` and `JobDelivery` |
| `PromptEngineProofs` | theorems about it and the catalogue | checked by TLAPS |
| `MC*` | instances for TLC | symmetry sets, an ordering of job ids |

### CircuitBreaker

`state`, `failure_count`, `opened_time` and `test_request_in_flight` are the
fields of the class. The methods hold the lock for their whole body, so each is
one action. `opened_time` counts the time since opening instead of storing an
instant, since the code only compares the difference, and saturates once every
comparison has been decided (`TimeCap`). `failure_count` is compared with the
threshold only and saturates at `CountCap`. `call` and `age` follow each worker's
call; the call's kind is the branch that admitted it. `last_failure_time` is
only reported and is left out. The breaker lives in memory, so `Restart` renews
it. The backend is external: it is up, down or flaky and may change at any time.

### JobDelivery and JobQueue

A Redis command is atomic, a method is several commands, so the methods are split
at every await: `NextId`, `StoreJob`, `QueueJob`; `Pop`, `Load`; `MarkRunning`;
`MarkCompleted`; `FailLoad`, `FailStore`, `Requeue`. `LoseWorker` and
`LoseClient` stop a process between two of them. `clear-stuck-jobs` is its four
commands, `clear-redis` and the factory reset are `FlushDb`. A status written on
a deleted hash leaves a partial hash, and loading one raises, as in the code.
The priority is what the caller gives (`Priorities`): a type may have several, as
a translation is queued at 20 for many profiles and at 30 for one
(`admin.py:3387`, `:3440`). `created`, `runs`, `losses` and `clears` are history
variables for the bounds and the properties; `serial` tells apart jobs that
reuse an id.

`DeliversAsPromised` is the refinement of `JobDelivery`, with the phase of an id
computed from who holds it: until the first clearing every step of the queue is
one of the abstract queue or a stutter. A clearing breaks the promise (see the
findings). `FreshBeforeRetry` compares a retry with the fresh jobs whose callers
gave the same priority or a higher one. It says nothing of lower ones, and there
a retry does go first: a single translation that is tried again (30 - 10) ties
with fresh bulk translations at 20, and among equals Redis takes the lower id.

### SourcePipeline

One source, its rows, its prompts, its jobs, the workers and one admin request
at a time. Workers and requests remember the status they loaded (`seen`), and
`Written` is what SQLAlchemy sends: no UPDATE for a value equal to the loaded
one. `StoreExtraction` is the insert with its unique constraint and foreign key;
`Locked` is the wait for an uncommitted delete of the same key. `owed` and
`stale` are history: the prompts a request asked to extract again, and the
workers whose result was already under way when it did, which does not settle
the request. Clearing the queue counts as a fault of the source's environment,
like a crash. Two admin requests never overlap in the model; they do in the
system, and what such pairs add is left to a later extension. Several sources do
not interact except through the queue's order, so one is followed.

### LLMLimiter, CrawlLimiter and WorkerLimits

Both limiters measure time differences, so the models keep ages and sleeps
instead of instants, in ticks, and the bucket in ticks too: a token is worth
`TokenTime` of them. Ages saturate where they stop mattering. A sleep may last
longer than asked for. In the pool's limiter the lock is held through both
sleeps, and one line stands for the waiters of semaphore and lock, which asyncio
serves in the order of arrival. In the crawler's the lock covers the decision
only, so a call and its sleep are separate steps. `allowance` and `recent` are
history variables: the first is a bucket filled twice as fast as the code's, the
second counts the fetches of the last page delay. Jobs are limited, not calls,
as in the code: what a job does with its turn is `calling`. The number of pages
of a crawl is not bounded in the model (`max_pages` bounds it in the code). The
limiter dies with its process; a restarted pool begins as `Init`. The lock of
`can_crawl()`, unlike that of `wait()`, is held while robots.txt is fetched; the
model says nothing of how long. A page of `additional_urls` on another host is
counted for the domain of its crawl, which is the one the code makes it wait for.

### Publishing

Rows (`row`), profiles and their English versions by source, jobs, and the tasks
that work on them: each request or job loads what it needs, computes and commits
later, so `task` holds what it has read. `Sent` is again what SQLAlchemy sends.
A row remembers which of a few values it has (`raw`, two answers of a
validation, an edit), a profile the values it was rendered from. `Free` and
`Doomed` are the row locks of the DELETE in `regenerate_all_steckbriefe()`,
which is open while that request queues jobs. `approved`, `kept` and `promised`
are history. Extraction translation is modelled as it is: it raises at the first
translatable field, so no English value ever exists.

### SiteGenerator

The output directory is a set of items and, for each part of the site (category
pages, details, search index, sitemap, and the English details and index), the
sources it shows. A full run is refused, or clears item by item, marks, loads the
active categories and then the profiles, and writes its parts in order; an
English run goes on where it finds itself. Two runs may overlap, a part, a page
or an entry of the index may fail, the process may stop. Sources change their
category and categories are switched and deleted meanwhile. `Entries` says what a
part takes of the profiles: a category page only those of a category that was
active when the run loaded it, the index only those that have a category; those
left out are counted nowhere. `Owed` in `FullRunIsExact` says the same of the
state the run leaves behind. `exact`, `touched` and `spoiled` are history: they
say which runs the properties speak of. A directory with a marker may hold files
somebody put there (`stray`); the code deletes them, and `ForeignKept` speaks of
directories without a marker only.

### Catalogue and PromptEngine

The texts of a prompt are one value, that of the file or what somebody made of
it. A call of `extract_and_validate()` keeps the prompt it began with; each
attempt either answers, is refused by the breaker, or fails as a call.
Confidence is computed from the kinds of replies there are and compared with the
required one, in tenths from 0 to 10 (`admin.py:130` allows 0, where a failed
extraction reaches it too); only the verdict is kept. The revalidation endpoints
load the raw values and the prompts as they are now (`seen`), wait for the
model, and replace the verdict of each row (`EndRevalidate`), so a value may
have been extracted by one text of its prompt and judged by another: `again`
marks those rows. `sleep` counts the longest a job can have slept.
`resolve_order()` is one turn of its loop per step, for every graph of
dependencies on three prompts and every list. A worker's transaction is open
from the load of its prompt to its commit, so the TRUNCATE of a factory reset
waits for it; the flush and the reload are steps of their own.

### Entities

Names are compared in lower case and stored, and unique, as written, so `Lower`
maps spellings to texts. `auto_link_entities()` is three steps: read the names,
read and match the rows, commit. `linker` holds the rows it loaded; one that is
deleted meanwhile makes the commit fail as a whole. `link` is a column of the
row: it goes with the row and stays when the value changes. `named` and `said`
are history.

## Runs

| Run | Instance | Shows |
|---|---|---|
| `breaker` | 3 callers, threshold 2, pause 2, calls up to 2 | `StateAgrees`, `NeverWedged`, `NoCallInPause`, `OnlyProbesWhileHalfOpen`, `RecoversWithBackend`, `CutsOffDeadBackend` |
| `queue` | 2 workers, 2 clients, extractions and translations, 2 jobs, 3 tries, 1 loss, 1 clearing | `OneHolder`, `Accounted`, `AtMostMaxAttempts`, `FreshBeforeRetry`, `DeliversAsPromised`, `EveryJobSettles` |
| `queue_id_reuse` | 1 clearing | violated: `OwnHistory` |
| `pipeline_repairs` | 2 workers, 2 prompts, 5 jobs, 1 fault; the creation and a repair, a re-extraction or a clearing | `TypeOK`, `ExtractJobsHaveMarkdown`, `CompletedHasAllRows`, `WorkIsOwned` |
| `pipeline_edits` | 1 worker, 2 prompts, 7 jobs; the creation and two of deletion, switched prompts, re-extraction of everything, cleaning up | `NoOrphanRows`, `AllReExtracted`, `SourceSettles` |
| `pipeline_race` | 2 workers | violated: `DoneMeansCompleted` |
| `limits` | 3 tasks, 2 places, 1 token of 3 ticks, delay 1, 1 domain with page delay 2 | `RobotsReadOnce`, `AtMostTwiceTheRate`, `BurstBounded`, `DelayBetweenStarts`, `EveryJobStarts` |
| `profiles` | 2 sources, 1 field, 2 tasks, 2 jobs, 3 requests, 1 fault | `TypeOK`, `OnlyApprovedPublished`, `EditKept`, `RegenerationRestores` |
| `profiles_edits` | 1 source, a revalidation of missing values and an edit | violated: `EditsSurvive` |
| `site` | 2 sources, 1 category, 2 runs, a limit of 1 page, 3 requests, 1 fault | `SiteTypeOK`, `FullRunIsExact`, `OwnOutputClearable`, `ForeignKept` |
| `capture` | 1 job, 3 prompts, 2 categories, 2 requests, required confidence 0.6; or any graph of 3 prompts | `TypeOK`, `WavesAreLevels`, `ConfidentMeansValidated`, `JobBounded` |
| `entities` | 2 entities, 3 spellings, 1 extraction, 2 auto-links, 4 requests | `EntityTypeOK`, `LinkedByName`, `UndisturbedLinksAll` |

Bounds. Three callers let a stale call be out next to the opening call and the
test call; a fourth repeats one of these roles. Threshold 2 separates the first
failure from the tripping one. Calls no longer than the pause are what
`OnlyProbesWhileHalfOpen` needs; the proofs cover slower calls for the others.
Two workers are enough for every race on a job or a row, and the properties of the
queue are about one job or a pair of them, so two jobs are enough; extractions and
translations give it priorities that tie after a retry. Two prompts give one
stored next to one missing. Five jobs are a crawl, its two extractions and two
more from a repair or a second crawl; seven are all that the three requests of
`pipeline_edits` can queue, so that none of them waits for a free number, which
liveness would not survive. Two tries give each job a first and a last one;
`queue` uses the code's three. `pipeline_edits` has one worker because
`SourceSettles` fails with two for the reason `pipeline_race` shows, and the
property has a premise, no prompt switched, because the code strands a source
otherwise (see below); switched prompts are in the run for `NoOrphanRows` and
`AllReExtracted`. Requests that crawl again or retry extractions are left to
`pipeline_repairs`, which checks safety only: with them the graph is too large for
liveness. Job ids are numbers handed out in order (`InOrder`): ids are
interchangeable, so no behaviour is lost but its renamings, and symmetry would not
be sound for liveness. In `limits` the delay is
less than half of a token's time: with a longer one, as in the default settings
(2 s and 2 s), the delay alone keeps the rate and the bucket decides nothing.
In `profiles` two sources separate what a request does to all from what it
does to one, and two tasks are what it takes for one to overtake another; three
requests are, for instance, an edit, a revalidation and a regeneration of all.
In `site` a page limit below the number of sources lets the truncated list
occur, and two runs are a full one next to another or an English one; one
category that is switched, deleted and left tells sources of an active, an
inactive and no category apart. In
`capture` a job shares nothing with other jobs but the catalogue, so one is
enough; three prompts give a chain, a fork, a cycle and a dependency outside the
list; the job is that of the prompt the file defines, and the other two may be
exchanged. `MaxRetries` 1 and 3 are the least and the default, a required
confidence of 0.6 is the default too. In `entities` two
spellings of one text and one of another let two entities be ambiguous; two
auto-links and two changes fit between the first and the last of four requests.
Where a run stops because its bounds on jobs or requests are used up, its
configuration says so. No run checks `TypeOK` of the breaker, the limiters and the
queue: the theorems establish those of the breaker, the pool's limiter and the
queue for every instance.

Fairness. `CircuitBreaker`: time passes, a call returns because the HTTP client
has a timeout, and some worker keeps asking while there is work. Nothing is
assumed of resets, restarts or the backend. `JobQueue`: an enqueue that has
begun and a running worker loop go on, by asyncio's scheduling; a job's function
returns because its HTTP calls time out. `SourcePipeline`: the same, and requests
that have begun are served. `WorkerLimits`: time passes, sleeps end, calls
return. No process is assumed to survive: the liveness properties name losses as
an escape, and a clearing of Redis.

## Disagreements found

The violation runs show where code and documents differ; `PROJECT.json` quotes
the lines. In short: ids reused while workers hold them (`queue_id_reuse`);
`completed` overwritten by the crawl job (`pipeline_race`); a manual correction
overwritten by a revalidation that was asked for missing values only
(`profiles_edits`).

Met while modelling and left without a run.

Breaker, queue, pipeline:

- The breaker admits two probes: the call that ends the pause leaves the flag
  down (`circuit_breaker.py:112`). `docs/architecture.md:100`,
  `docs/features.md:54` and `circuit_breaker.py:130` say exactly one.
  `TwoProbesAtMost` is the bound that is proved.
- `retry-pending` queues a source whose first crawl job still waits
  (`admin.py:2319`): the second crawl takes a completed source back to
  `extracting`, its extract jobs fail on the unique constraint, and it stays there
  with every row stored, against `worker.py:492`.
- A crawl job that finds every prompt switched off, or a source without a
  category, ends with the source at `crawled` and nothing queued
  (`worker.py:377`). A prompt that is off when the crawl job reads them and on
  again at the last completion check leaves the source at `extracting`.
- Re-extracting one source (`admin.py:820`) deletes nothing, and
  `process_prompt()` always inserts (`prompt_engine.py:183`), so the unique
  constraint refuses every new row; `docs/operations.md:70` says the new
  extractions are written.
- `create_source()` queues the crawl job before it commits. A worker that is
  quicker finds no source, and when its tries are used up the source stays
  pending without a job (`SourceSettles` names the failed job as its escape).
- `retry_failed_sources()` commits `pending` after it queued the crawl, and may
  overwrite what a quick worker has committed.
- `worker.py:493` compares numbers of rows and of active prompts: after a prompt
  was switched off and another on, rows of the former complete a source that
  lacks the latter.
- `_apply_rate_limit()` counts a wait for a token twice, so the pool can run at
  twice its configured rate. `AtMostTwiceTheRate` is the bound that holds; with
  an allowance filled at the configured rate it fails.
- `_check_source_completion()` counts rows of prompts no longer assigned.
- `RateLimiter.wait()` records the call instead of the fetch, so even one crawl
  fetches two pages within one delay. `BurstBounded` is the bound that holds, and
  it is tight.
- `additional_urls` on other hosts wait for the limiter of the main page's domain
  and are fetched without a look at their robots.txt. Every crawl waits for the
  one that fetches a robots.txt, and a host without one is asked again each time.

Extraction:

- The pipeline queues every prompt as independent; `process_source()`, which
  honours waves, has no caller (`docs/features.md:39`,
  `docs/architecture.md:73-84`). `_build_context()` looks results up by
  `context_key` while they are stored by `internal_name`.
- `add_prompt_dependency()` allows cycles and dependencies on oneself. Deleting a
  prompt others depend on fails with a 500, and a row stored between its check
  (`admin.py:983`) and the deletion goes with it, although deletion is "NOT
  allowed if extractions exist" (`admin.py:974`).
- `calculate_backoff()` caps the delay and spreads it by jitter afterwards
  (`retry_manager.py:307`): once the cap is reached, from the seventh attempt on, a
  wait may take 75 s where `retry_manager.py:70` says at most 60.
- Revalidation judges an old raw value by the prompt of today (`admin.py:2986`).
- Validation errors are retried (`docs/features.md:55`, `docs/architecture.md:104`
  say they are not); a validation quality outside the table's list fails the
  insert, and the job repeats both LLM calls.
- With the default required confidence of 0.6 a reply cut off by `max_tokens`
  (0.6) is trusted, an answer under five characters (0.5) never is.
- An export leaves out validation prompt, translation and entity settings, and a
  forced reload overwrites them. Seeding ignores `depends_on`
  (`docs/configuration.md:65`).

Profiles, translation, site:

- `target_language` is not defined in `extraction_translation.py:244` and `:331`:
  nothing is ever translated (`docs/architecture.md:54`,
  `docs/operations.md:119`), the endpoints answer 500 and jobs fail three times
  after marking what is untranslatable.
- `generate_english_steckbriefe()` stores the German text as the English one.
- Revalidating a source or everything, and changing its category, overwrite
  manual edits (`docs/operations.md:76-77`); `EditKept` speaks of the others. An
  edit leaves the confidence as it was, so a corrected field stays hidden.
- `regenerate_all_steckbriefe()` deletes the profiles of sources that are not
  completed without queueing a job for them. The page's generate-all stops after
  the first source that fails. Two generators may leave an older text.
- A site run that is interrupted while it clears may leave a directory without
  its marker (`static_site_generator.py:542`), which the next run refuses,
  although `static_site_generator.py:548` promises otherwise
  (`OwnOutputClearable` excuses it through `spoiled`); so does a first run for
  the English tree alone. A public profile of an inactive category is on no
  category page, one without a category not in the index, and neither is counted
  as an error (`:426`, `:784-879`). One translated profile without a category
  makes the whole English index fail. English-only runs leave pages of profiles
  that were withdrawn. The site shows at most 100 profiles; the sitemap lists
  pages that failed; the search index shows values whatever their confidence.
- `generate_site.py --verbose` and `create_german_universities.py` use undefined
  names; `delete_universities()` sends no credentials.

Entities:

- `delete_entity()` fails with a 500 whenever it finds the entity
  (`admin.py:1295`).
- Auto-link skips rows that have a link, so links survive corrections and
  renames. Names that differ in case only may be ambiguous, and the entity the
  database returns last is taken.
- The review endpoint refuses `ignore`, which its parameter documents. The
  normalizer has no caller and the job type does nothing.

## Proofs

`CircuitBreakerProofs` proves, for every set of callers and all positive
settings (`BreakerAssumption`):

- `TypeCorrect`, `StateAgreement`: inductive as they stand with the type
  invariant.
- `NoWedge`: `NeverWedged` needs to know that the half-open state and the raised
  flag come and go with calls; it is inductive together with the type invariant
  and the agreement of the fields.
- `PauseKept`: the pause is a statement about ages, inductive with the type
  invariant, since `opened_time` and every age advance together until `TimeCap`,
  which lies past every age.
- `TwoProbesAtMost`: assumes `CallTimeout <= Timeout`. Any call admitted before
  the circuit opened has an age of at least `opened_time`, so it has timed out
  before the pause is over.

`WorkerLimitsProofs` proves, for every pool and all settings
(`LimiterAssumption`), about the composed system:

- `InvariantHolds`: who sleeps holds the lock (`LockKept`), a nap for the delay
  is as long as what the delay lacks (`DelayInv`), and the allowance covers what
  the bucket holds and is about to gain (`RateInv`). None of the three is
  inductive alone: the lock is what makes the sleeper the only one to move the
  times and the bucket.
- `DelayIsKept`, `RateIsKept`: the two properties of the runs, from it. `RateInv`
  shows where the factor two comes from: while a worker waits for a token, the
  nap that shrinks and the age of the refill that grows both have to be paid.

- `RobotsCached`: `RobotsReadOnce`, from the lock of `can_crawl()`: only its
  holder fetches a robots.txt, and it looked for it in the cache after it got
  the lock.
- `BurstsAreBounded`: `BurstBounded` speaks of one window of time; `BurstInv`
  speaks of every shorter one. As long as no call of `wait()` was made since the
  window began, only those fetch that slept when it did, so fetches and sleepers
  together are at most as many as crawlers. The first call in the window adds one;
  later calls sleep until the shortest delay after that call is over, so they are
  not among those that may wake up in time (`Soon`). The sums over the history
  are a recursive function (`UpTo`); see the end of this section.

`JobQueueProofs` proves, for any ids, workers, clients, tries, losses and
clearings (`QueueAssumption`), step by step of the Redis commands:

- `TypeCorrect`: the types are inductive together with `HandsInv`, which ties what
  a worker or a client remembers of a job to where it is in its method.
- `OneHolderAlways`: `OneHolder` alone is not inductive, since a client takes the
  next id from the counter; `FreshInv` adds that no id above the counter is used.
- `RunsBounded`: `RunsInv` relates the runs of a job to the tries its hash counts
  and to what its holder has read of them: a run that has ended is counted, one
  that is under way is one more.
- `NothingForgotten`: a worker drops an id without a word only when its hash is
  missing or partial, which `QueueInv`, the conjunction of all these, excludes.

- `FreshWorkFirst`: `BZPOPMIN` looks at scores only, which clients and workers
  computed several commands ago. `PlaceInv` says that the place of a waiting id is
  the priority in its hash, ten lower once the hash counts a try, and that what a
  worker or a client remembers of the priority is what the hash says. So of two
  waiting jobs the fresh one is ahead when it was given at least the priority of
  the other, of whatever type, and no other step takes an id out (`OnlyPopTakes`).
- `QueueImplementsDelivery`: until the first clearing every Redis command is a step
  of `JobDelivery` under the refinement mapping, or a stutter. `MapInv` says that a
  job in somebody's hands is not settled, from which follows which phase of the
  abstract job belongs to each place of the detailed one (`PhasesKnown`).

`SourcePipelineProofs` proves, for any workers, prompts, jobs and requests
(`PipelineAssumption`):

- `TypeCorrect`: with `HandsInv`, as the row a worker inserts is that of its job.
- `ExtractionFollowsCrawl`, `RowsBelongToSource`: neither is inductive. `BareIsIdle`
  says that while a source has no Markdown its status is `pending` or `failed` and
  no worker and no request is past the point where extractions are queued;
  `CreatedOnce` says that before its commit the creation has left nothing but a
  crawl job; rows go with the source.
- `CompletedIsComplete`, `ExtractingIsOwned`: assume `Steady`, no switched prompt
  and no re-extraction of everything among the requests. `CompletionInv`: who is
  about to write `completed` has seen every row, and rows only grow.
  `TrackedInv`: who is about to write `extracting` has queued, for every prompt he
  is done with, a job that is not lost, and an extract job ends with its row or
  fails. Without `Steady` both properties fail, as the section on disagreements
  describes.
- `ReExtractionIsNotForgotten`: `AllReExtracted` looks at rest only. `OwedInv`
  follows each prompt there: it is still to be queued by the request, or some job
  for it waits, has failed for good, or is held by a worker that began after the
  request (`JobAwaits`). It needs no `Steady`.

`PublishingProofs` proves, for any sources and fields and any number of jobs and
requests (`PublishingAssumption`):

- `NothingPublishesItself`: `IdsInv` makes the id of a profile its own, so that an
  approval cannot pass to the profile that replaces a deleted one.
- `TypeCorrect`: `TypesInv` joins the rows, the texts, the translations and the
  counters to `TasksInv`, which says for each operation what its task may hold at
  each of its steps and that a job's task works at what the job was asked for.
- `EditsAreKept`: `EditKept` is a statement about rows, but what threatens an
  edit is in the memory of tasks. Edits made while a revalidation holds the row
  are exempt: the code overwrites them, as `profiles_edits` shows. `KeptInv`
  says that no revalidation under way has loaded the row of a kept edit, and
  `RowsInv` that a row a revalidation has loaded and still believes in is there.
- `DeletedProfilesComeBack`: assumes `MaxAttempts > 1`. A job may find the old
  profile, lose it to the deletion, and fail to save; it then needs another try.
  `RestoreInv` says where there has to be one: where no profile is left, some job
  has another try or has not found the old profile, and where the profile is about
  to be deleted, some job has another try. With `MaxAttempts = 1` TLC finds the
  profile lost. The code has three tries for every job (`job_queue.py:43`).

`EntitiesProofs` proves, for any entities, spellings and extractions
(`EntitiesAssumption`: the values that stand for "no entity", "deleted" and "no
task" name none):

- `LinksAreTrue`: `LinkedByName` needs that what a running auto-link holds was once
  true of row and entity (`Remembered`, `FoundByName`), whatever changed since. No
  step of `Publishing` has to be looked into for it.
- `UndisturbedLinkingLinksAll`: `FreshInv` says what the latest auto-link, while
  nothing changes, has seen and found: the names as they are, and for every row
  with a name for its text a link or an entity to link to. Another auto-link
  beside it only adds links.
- `EntityTypeCorrect`: names are unique and links are to entities that are there
  (`NamesInv`, `LiveLinks`), with the types of `Publishing`.

`SiteGeneratorProofs` proves, for any profiles, any number of runs at the same time
and any page limit (`SiteAssumption`), from `SiteInv`:

- `SiteTypeCorrect`: with `RunsInv`, which says what a run may hold in each phase.
- `ForeignFilesAreKept`: the guard reads the directory once, before it is cleared
  file by file. `ForeignInv` closes the gap: in a directory with files of others
  and no marker no full run is under way. Nothing is claimed of files in a marked
  directory.
- `OwnOutputMayBeCleared`: `ClearInv` says that until runs overlap or break off
  (`spoiled`) one run is under way at a time, what it has still to clear is what is
  there, and it writes beside the marker.
- `UndisturbedRunIsExact`: `ExactInv` says phase by phase which parts are complete
  and which are still blank (`Exactly`, `Progress`) as long as a run is alone, for
  the profiles and the categories the run has loaded, and that a translation stays
  while its profile is public (`TranslationsStay`). Which categories were active
  when the run began and which are now differ only in sources that are `touched`.

`PromptEngineProofs` proves, for any catalogue, jobs and requests
(`CatalogueAssumption`, `PromptEngineAssumption`: there are finitely many prompts,
and powers of the backoff base are numbers, since the provers know nothing of `^`):

- `EngineTypeCorrect`: rows are of prompts that are there, a job at work is taken,
  references between prompts, categories and sources hold (`EngineInv`).
- `ConfidenceIsValidated`: `CallOK` says of every call which phases have answered,
  by which text, at each of its steps; the row is made of that. `HeldInv` says what
  a revalidation under way has loaded: rows with a raw value, so that what it
  judges was extracted. The theorem is for every required confidence from 0 to 10
  tenths; at 0 nothing follows from a row that reaches it.
- `JobsAreBounded`: calls are counted per attempt, and the sleep is at most the cap
  of the backoff and its jitter per retry. The number of attempts is the one the
  job loaded, so edits do not matter.
- `PromptsAfterTheirDependencies`: every prompt of the list is in exactly one wave,
  and one that is neither on a cycle nor waits for one comes after all those of the
  list that it needs, in the last wave too. This is stated in the proofs only
  (`WavesInOrder`) and follows from the levels below.
- `PromptsRunAtTheirLevel`: `WavesAreLevels`. `LevelsInv` says that after n waves what
  remains is what begins a chain of n dependencies, and that there is a prompt for
  each wave, so that n stays within the chains the property speaks of. `ChainsShrink`
  and `ChainsStop` say that longer chains begin with shorter ones, and that once no
  chain ends all of them run into cycles.

The induction theorems of the library cannot be used here, since the provers cannot
instantiate their operator parameter. `Chains` and `UpTo` are recursive functions of
a number all the same: `NatLessThanWellFounded` and `WFMin` speak of sets, and give a
least element of every set of numbers (`LeastNumber`), from which follows induction
over a set (`Induction`), and with it that the recursions have a solution
(`ChainsOf`, `Sums`).

Model-checked only: liveness (`RecoversWithBackend`, `CutsOffDeadBackend`,
`EveryJobSettles`, `SourceSettles`, `EveryJobStarts`), which is out of the prover's
reach. Every other property of a passing run is the conclusion of a theorem.

## Not modelled

The HTTP exchange with the LLM and crawled pages (their outcomes are choices),
templates and rendering, authentication, read-only queries and the public API,
logging, exports, migrations and scripts. `requeue-crawled-sources`,
`requeue-extracting-sources` and `requeue-all-stuck` use names that
`recovery_endpoints.py` does not import and raise before they change anything.
The entity normalizer, because nothing calls it and nothing fills the queue
`review_normalization()` reads. The branch of the retry manager for exceptions,
which the phases never let out. The fallback of the factory reset that empties
tables one by one. The homepage and the category pages of the English tree,
which show what its details show; the creation of a category, which for the site
is one that is switched on. A profile whose heading is empty is left off the index
like one whose entry raises (`PageFails`). The generation of a profile for a source
without a category may succeed in the model as well as fail, which allows more
than the code does. Revalidations overlap in `Publishing` only; in `PromptEngine`
there is one at a time.

Each run has one instance; several sources of the pipeline, two overlapping
admin requests in it, and several jobs of `PromptEngine` at once are left out
for the reasons given above.

## Plan

1. Done: breaker, queue, pipeline, both limiters, catalogue and prompt engine,
   profiles, site, entities.
2. Done: proofs of every safety property of the runs, and of the refinement of the
   queue.
3. Left: an abstract specification of publication (what a reader of the site may
   see) that `Publishing` and `SiteGenerator` together implement, and of the
   prompt engine (one row per prompt and job), with their refinement proofs.
