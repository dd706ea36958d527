----------------------------- MODULE PromptEngine -----------------------------
(***************************************************************************)
(* The extraction of the prompts of one source, while its prompts are      *)
(* edited: extract, then validate, each with retries, then a row           *)
(* (app/services/prompt_engine.py, retry_manager.py, llm_client.py).       *)
(*                                                                         *)
(* What is stored can be validated again on request (admin.py).            *)
(*                                                                         *)
(* Workers run one job per prompt, in any order.  process_source(), which  *)
(* nothing calls, takes the prompts in waves by their dependencies; what a *)
(* prompt is given as context changes only the text that is sent and is    *)
(* left out.  The circuit breaker may refuse any attempt; CircuitBreaker   *)
(* says when.  Completion of the source is in SourcePipeline.              *)
(***************************************************************************)
EXTENDS Catalogue, JobDelivery, Sequences

CONSTANTS
  BackoffBase,  \* settings.retry_backoff_base
  MaxBackoff,   \* seconds
  Required      \* required_confidence, in tenths: 0 asks for nothing

ASSUME PromptEngineAssumption ==
  /\ IsFiniteSet(Prompts)
  /\ Jobs \subseteq Prompts   \* those of the source that have a job
  /\ MaxAttempts \in Nat \ {0}
  /\ BackoffBase \in Nat \ {0}
  /\ MaxBackoff \in Nat \ {0}
  /\ \A n \in 0..9 : BackoffBase ^ n \in Nat   \* the provers know nothing of ^
  /\ Required \in 0..10
  /\ 1 \in MaxRetries                           \* that of the prompts of a batch

VARIABLES
  row,      \* extractions of the source
  call,     \* extract_and_validate() of each prompt
  orphans,  \* jobs whose prompt or source is deleted, even if its name is back
  checked,  \* prompts that delete_prompt() found without extractions
  reset,    \* what is left to do of factory_reset()
  seen,     \* rows that a revalidation holds: their prompts' texts as it read them
  batch     \* process_source()

vars == <<catalogue, ops, dvars, row, call, orphans, checked, reset, seen, batch>>

\* ExtractionResult.  raw and by: the text of the prompt that the extraction
\* and the validation used.  believed and sure: raw_confidence of a raw result,
\* and final_confidence, reach what the prompt requires.  again, which the code
\* does not keep: validated again since the job.
Results == [raw : Texts \cup {"none"}, by : Texts \cup {"none"},
            val : {"none", "empty", "value"}, believed : BOOLEAN, sure : BOOLEAN,
            quality : {"known", "unknown"}, again : BOOLEAN]
NoRow == [raw |-> "none", by |-> "none", val |-> "none", believed |-> FALSE,
          sure |-> FALSE, quality |-> "unknown", again |-> FALSE]

\* A failed phase: what was extracted stays, with a final_confidence of 0.
Insufficient(got) == [got EXCEPT !.sure = 0 >= Required, !.quality = "known"]

\* sleep: the longest it can have slept so far, in quarters of a second.
Calls == [pc : {"none", "load", "extract", "format", "validate", "done", "raised"},
          text : Texts, tries : MaxRetries, attempt : 1..10, calls : 0..20,
          sleep : Nat, got : Results]
NoCall == [pc |-> "none", text |-> "file", tries |-> Default, attempt |-> 1,
           calls |-> 0, sleep |-> 0, got |-> NoRow]

\* list: the prompts given; waves: those made so far; at: the one that runs.
NoBatch == [pc |-> "off", list |-> {}, waves |-> <<>>, at |-> 0]

Running == {p \in Prompts : call[p].pc # "none"}

TypeOK ==
  /\ CatalogueTypeOK
  /\ DeliveryTypeOK
  /\ row \in [Prompts -> Results]
  /\ \A p \in Prompts : row[p] # NoRow => prompt[p].there
  /\ call \in [Prompts -> Calls]
  /\ \A p \in Prompts : call[p].attempt <= call[p].tries
  /\ batch.pc = "off" => LET taken == {j \in Jobs : phase[j] = "taken"}
                         IN taken \subseteq Running /\ Running \ taken \subseteq orphans
  /\ checked \subseteq PromptsThere
  /\ seen \in [Prompts -> Texts \cup {"none", "gone"}]
  /\ \A p \in Prompts : seen[p] \in Texts => row[p].raw # "none"

-----------------------------------------------------------------------------
\* Jobs for some prompts of the source, or process_source() for any graph of
\* dependencies.
InitJobs ==
  /\ \E some \in SUBSET Prompts \ {Prompts} :
       /\ Jobs \subseteq some
       /\ prompt = [p \in Prompts |->
            IF p \in some THEN [NoPrompt EXCEPT !.there = TRUE, !.active = TRUE]
                          ELSE NoPrompt]
  /\ phase = [j \in Jobs |-> "waiting"]
  /\ depends = {}
  /\ batch = NoBatch
  /\ ops = 0

InitBatch ==
  /\ prompt = [p \in Prompts |->
       [NoPrompt EXCEPT !.there = TRUE, !.active = TRUE, !.tries = 1]]
  /\ phase = [j \in Jobs |-> "absent"]
  /\ depends \in SUBSET (Prompts \X Prompts)
  /\ batch \in {[NoBatch EXCEPT !.pc = "resolve", !.list = list] : list \in SUBSET Prompts}
  /\ ops = MaxOps

Init ==
  /\ InitJobs \/ InitBatch
  /\ category = [c \in Categories |->
       IF c \in DOMAIN File THEN [there |-> TRUE, active |-> TRUE, text |-> "file"]
                            ELSE NoCategory]
  /\ home \in DOMAIN File
  /\ assigned = (DOMAIN File) \X PromptsThere
  /\ tries = [j \in Jobs |-> 0]
  /\ row = [p \in Prompts |-> NoRow]
  /\ call = [p \in Prompts |-> NoCall]
  /\ orphans = {}
  /\ checked = {}
  /\ reset = "off"
  /\ seen = [p \in Prompts |-> "none"]

-----------------------------------------------------------------------------
(***************************************************************************)
(* extract_and_validate(), with the loop of RetryManager.execute()         *)
(***************************************************************************)
At(p, pc) == call[p].pc = pc

Begun(p) == [NoCall EXCEPT !.pc = "extract", !.text = prompt[p].text,
                           !.tries = prompt[p].tries]

Finished(p, result) ==
  call' = [call EXCEPT ![p].pc = "done", ![p].got = result]

\* A phase answered: one call more, and the next phase counts anew.
Answered(p, pc, result) ==
  call' = [call EXCEPT ![p].pc = pc, ![p].calls = @ + 1, ![p].attempt = 1, ![p].got = result]

(* LLMClient.complete(): what a reply that parses holds, and the confidence
   that _calculate_confidence() gives it, from the reason it ended for or from
   logprobs.  Less than five characters are not believed. *)
Replies == [text : {"empty", "short", "long"},
            reason : {"stop", "length", "content_filter", "other"},
            logprobs : {0} \cup 5..10]

Base(reply) ==
  IF reply.logprobs # 0 THEN reply.logprobs
  ELSE CASE reply.reason = "stop" -> 8
         [] reply.reason = "length" -> 6
         [] reply.reason = "content_filter" -> 3
         [] OTHER -> 5

Confidence(reply) ==
  IF reply.text = "short" /\ Base(reply) > 5 THEN 5 ELSE Base(reply)

\* Whether an answer can reach the confidence that is required.
Reaches == {Confidence(reply) >= Required : reply \in {r \in Replies : r.text # "empty"}}

\* An empty reply ends it.
ExtractAnswers(p) ==
  /\ At(p, "extract")
  /\ \/ Answered(p, "done", Insufficient(NoRow))
     \/ \E enough \in Reaches :
          Answered(p, "format", [NoRow EXCEPT !.raw = call[p].text, !.believed = enough])
  /\ UNCHANGED <<catalogue, ops, dvars, row, orphans, checked, reset, seen, batch>>

\* validate_prompt.format(): a KeyError or ValueError is taken as a failed
\* validation, other errors (an IndexError) pass.
FormatPrompt(p) ==
  /\ At(p, "format")
  /\ \/ call' = [call EXCEPT ![p].pc = "validate"]
     \/ Finished(p, Insufficient(call[p].got))
     \/ call' = [call EXCEPT ![p].pc = "raised"]
  /\ UNCHANGED <<catalogue, ops, dvars, row, orphans, checked, reset, seen, batch>>

\* mutant: the prompt is read again for the validation
MutValidationPrompt(p) == prompt[p].text
ValidationPrompt(p) == call[p].text

\* Whether validation_score reaches what is required.
Scores == {score >= Required : score \in 0..10}

\* _parse_validation_response(): every field may be missing, the score is
\* clamped, the quality is whatever the reply says.  final_confidence is the
\* lower of the two.
ValidateAnswers(p) ==
  /\ At(p, "validate")
  /\ \E v \in {"empty", "value"}, enough \in Scores, q \in {"known", "unknown"} :
       Answered(p, "done", [call[p].got EXCEPT !.by = ValidationPrompt(p), !.val = v,
                            !.quality = q, !.sure = call[p].got.believed /\ enough])
  /\ UNCHANGED <<catalogue, ops, dvars, row, orphans, checked, reset, seen, batch>>

\* calculate_backoff(), jitter at its upper end.
Longest(attempt) ==
  LET delay == BackoffBase ^ (attempt - 1)
  IN 5 * (IF delay < MaxBackoff THEN delay ELSE MaxBackoff)

\* mutant: one attempt more than max_retries
MutMayRetry(p) == call[p].attempt <= call[p].tries /\ call[p].attempt < 10
MayRetry(p) == call[p].attempt < call[p].tries

\* RetryManager.execute() on a phase that reports no success.
Attempted(p, made) ==
  /\ At(p, "extract") \/ At(p, "validate")
  /\ \/ /\ MayRetry(p)
        /\ call' = [call EXCEPT ![p].calls = @ + made, ![p].attempt = @ + 1,
                                ![p].sleep = @ + Longest(call[p].attempt)]
     \/ /\ ~MayRetry(p)
        /\ call' = [call EXCEPT ![p].calls = @ + made, ![p].pc = "done",
                                ![p].got = Insufficient(call[p].got)]
  /\ UNCHANGED <<catalogue, ops, dvars, row, orphans, checked, reset, seen, batch>>

\* The breaker is open.
Refused(p) == Attempted(p, 0)

\* A refused connection, a timeout, an error status, a reply without content.
CompletionFails(p) == Attempted(p, 1)

-----------------------------------------------------------------------------
(***************************************************************************)
(* An extraction job: load the prompt, process_prompt(), commit            *)
(***************************************************************************)
TakeJob(p) ==
  /\ Take(p)
  /\ call' = [call EXCEPT ![p].pc = "load"]
  /\ UNCHANGED <<catalogue, ops, row, orphans, checked, reset, seen, batch>>

Found(p) == prompt[p].there /\ p \notin orphans

LoadPrompt(p) ==
  /\ At(p, "load")
  /\ Found(p)
  /\ call' = [call EXCEPT ![p] = Begun(p)]
  /\ UNCHANGED <<catalogue, ops, dvars, row, orphans, checked, reset, seen, batch>>

\* The insert finds the prompt gone, the source's row there, or a quality the
\* table does not allow.
Insertable(p) == Found(p) /\ row[p] = NoRow /\ call[p].got.quality = "known"

StoreExtraction(p) ==
  /\ batch.pc = "off"
  /\ At(p, "done")
  /\ Insertable(p)
  /\ row' = [row EXCEPT ![p] = call[p].got]
  /\ call' = [call EXCEPT ![p] = NoCall]
  /\ Complete(p)
  /\ UNCHANGED <<catalogue, ops, orphans, checked, reset, seen, batch>>

\* mark_failed() of a job that was flushed finds no hash and raises.
Forgotten(p) == phase[p] = "lost" /\ UNCHANGED dvars

JobFails(p) ==
  /\ batch.pc = "off"
  /\ \/ At(p, "load") /\ ~Found(p)
     \/ At(p, "raised")
     \/ At(p, "done") /\ ~Insertable(p)
  /\ call' = [call EXCEPT ![p] = NoCall]
  /\ Retry(p) \/ GiveUp(p) \/ Forgotten(p)
  /\ UNCHANGED <<catalogue, ops, row, orphans, checked, reset, seen, batch>>

-----------------------------------------------------------------------------
(***************************************************************************)
(* resolve_order(), one turn of its loop a step, and process_source()      *)
(***************************************************************************)
\* mutant: one dependency that is met is enough
MutReady(left) ==
  {p \in left : \/ \A q \in Prompts : <<p, q>> \notin depends
                \/ \E q \in Prompts \ left : <<p, q>> \in depends}
Ready(left) == {p \in left : \A q \in left : <<p, q>> \notin depends}

Remaining == batch.list \ UNION {batch.waves[i] : i \in DOMAIN batch.waves}

\* Prompts that wait for each other in a cycle go into one last wave.
ResolveWave ==
  /\ batch.pc = "resolve"
  /\ Remaining # {}
  /\ LET wave == IF Ready(Remaining) = {} THEN Remaining ELSE Ready(Remaining)
     IN batch' = [batch EXCEPT !.waves = Append(@, wave)]
  /\ UNCHANGED <<catalogue, ops, dvars, row, call, orphans, checked, reset, seen>>

Resolved ==
  /\ batch.pc = "resolve"
  /\ Remaining = {}
  /\ batch' = [batch EXCEPT !.pc = "run"]
  /\ UNCHANGED <<catalogue, ops, dvars, row, call, orphans, checked, reset, seen>>

\* gather(): the prompts of a wave run side by side, and the next wave waits
\* for all of them, for errors too.
StartWave ==
  /\ batch.pc = "run"
  /\ Running = {}
  /\ batch.at < Len(batch.waves)
  /\ batch' = [batch EXCEPT !.at = @ + 1]
  /\ call' = [p \in Prompts |-> IF p \in batch.waves[batch.at + 1] THEN Begun(p) ELSE NoCall]
  /\ UNCHANGED <<catalogue, ops, dvars, row, orphans, checked, reset, seen>>

EndWave ==
  /\ batch.pc = "run"
  /\ Running # {}
  /\ \A p \in Running : call[p].pc \in {"done", "raised"}
  /\ call' = [p \in Prompts |-> NoCall]
  /\ UNCHANGED <<catalogue, ops, dvars, row, orphans, checked, reset, seen, batch>>

-----------------------------------------------------------------------------
(***************************************************************************)
(* delete_prompt(): refused if there are extractions, which is looked up   *)
(* before; what a worker has stored since goes with the prompt.            *)
(***************************************************************************)
CheckPrompt(p) ==
  /\ Request
  /\ prompt[p].there
  /\ row[p] = NoRow
  /\ checked' = checked \cup {p}
  /\ UNCHANGED <<catalogue, dvars, row, call, orphans, reset, seen, batch>>

DeletePrompt(p) ==
  /\ p \in checked
  /\ checked' = checked \ {p}
  /\ IF Detachable(p)
     THEN /\ DropPrompt(p)
          /\ row' = [row EXCEPT ![p] = NoRow]
          /\ seen' = [seen EXCEPT ![p] = IF @ = "none" THEN @ ELSE "gone"]
          /\ orphans' = orphans \cup {j \in Jobs : j = p /\ phase[j] \in {"waiting", "taken"}}
     ELSE UNCHANGED <<catalogue, row, seen, orphans>>
  /\ UNCHANGED <<ops, dvars, call, reset, batch>>

-----------------------------------------------------------------------------
(***************************************************************************)
(* revalidate_source_extractions() and revalidate_all_extractions(): read  *)
(* the rows with a raw result, or those that are not validated, with their *)
(* prompts; validate one after the other; one commit.  Two requests of the *)
(* kind do not overlap here.                                               *)
(***************************************************************************)
Held == {p \in Prompts : seen[p] # "none"}

BeginRevalidate ==
  /\ Request
  /\ Held = {}
  /\ \E missing \in BOOLEAN :
       seen' = [p \in Prompts |->
         IF row[p].raw # "none" /\ (missing => row[p].val # "value")
         THEN prompt[p].text ELSE "none"]
  /\ UNCHANGED <<catalogue, dvars, row, call, orphans, checked, reset, batch>>

\* mutant: only the validation counts for the final confidence
MutRevalidated(p, enough) ==
  [row[p] EXCEPT !.val = "value", !.by = seen[p], !.again = TRUE, !.sure = enough]
Revalidated(p, enough) ==
  [row[p] EXCEPT !.val = "value", !.by = seen[p], !.again = TRUE,
                 !.sure = row[p].believed /\ enough]

\* What is refused, fails or validates to nothing leaves its row as it is.  A
\* quality that the table does not allow, or a row that is gone, fails the
\* commit and with it all of them.
EndRevalidate ==
  /\ Held # {}
  /\ \/ \E judged \in SUBSET {p \in Prompts : seen[p] \in Texts} :
          \E enough \in [judged -> Scores] :
            row' = [p \in Prompts |->
              IF p \in judged THEN Revalidated(p, enough[p]) ELSE row[p]]
     \/ UNCHANGED row
  /\ seen' = [p \in Prompts |-> "none"]
  /\ UNCHANGED <<catalogue, ops, dvars, call, orphans, checked, reset, batch>>

-----------------------------------------------------------------------------
(***************************************************************************)
(* factory_reset(): empty the tables, flush Redis, load the files.  The    *)
(* TRUNCATE waits for open transactions; that of an extraction is open     *)
(* from the load of its prompt to its commit, that of a revalidation all   *)
(* the time.  If it fails, tables are emptied one by one, which is left    *)
(* out.                                                                    *)
(***************************************************************************)
FactoryReset ==
  /\ Request
  /\ reset = "off"
  /\ \A p \in Prompts : call[p].pc \in {"none", "load"}
  /\ checked = {}
  /\ Held = {}
  /\ Emptied
  /\ row' = [p \in Prompts |-> NoRow]
  /\ orphans' = orphans \cup {j \in Jobs : phase[j] \in {"waiting", "taken"}}
  /\ reset' = "flush"
  /\ UNCHANGED <<dvars, call, checked, seen, batch>>

FlushQueue ==
  /\ reset = "flush"
  /\ phase' = [j \in Jobs |-> IF phase[j] \in {"waiting", "taken"} THEN "lost" ELSE phase[j]]
  /\ reset' = "reload"
  /\ UNCHANGED <<catalogue, ops, tries, row, call, orphans, checked, seen, batch>>

EndReset ==
  /\ reset = "reload"
  /\ Synced(TRUE) \/ UNCHANGED catalogue
  /\ reset' = "off"
  /\ UNCHANGED <<ops, dvars, row, call, orphans, checked, seen, batch>>

Next ==
  \/ FactoryReset \/ FlushQueue \/ EndReset
  \/ BeginRevalidate \/ EndRevalidate
  \/ \E j \in Jobs : TakeJob(j) \/ StoreExtraction(j) \/ JobFails(j)
  \/ \E p \in Prompts :
       \/ LoadPrompt(p)
       \/ ExtractAnswers(p) \/ FormatPrompt(p) \/ ValidateAnswers(p)
       \/ Refused(p) \/ CompletionFails(p)
       \/ CheckPrompt(p) \/ DeletePrompt(p)
  \/ ResolveWave \/ Resolved \/ StartWave \/ EndWave
  \/ ChangeCatalogue /\ UNCHANGED <<dvars, row, call, orphans, checked, reset, seen, batch>>

Spec == Init /\ [][Next]_vars

-----------------------------------------------------------------------------
(***************************************************************************)
(* Properties                                                              *)
(***************************************************************************)
\* The prompts of a list from which a chain of k dependencies leads through
\* the list; with as many as there are prompts, it runs into a cycle.
Chains(list, needs) ==
  LET chain[k \in 0..Cardinality(Prompts)] ==
        IF k = 0 THEN list
        ELSE {p \in list : \E q \in chain[k - 1] : <<p, q>> \in needs}
  IN chain

\* When resolve_order() is done, every prompt of the list is in one wave: its
\* level, the length of its longest chain of dependencies within the list, or
\* the last wave if the chain runs into a cycle; no wave is empty
\* (docs/architecture.md:75-84).
WavesAreLevels ==
  batch.pc = "run" =>
    LET n == Len(batch.waves)
        chain == Chains(batch.list, depends)
        cyclic == chain[Cardinality(Prompts)]
    IN /\ \A i \in 1..n : batch.waves[i] # {}
       /\ \A p \in batch.list, i \in 1..n :
            p \in batch.waves[i] <=>
              IF p \in cyclic THEN i = n ELSE p \in chain[i - 1] \ chain[i]

\* A row with the confidence that is required was extracted and validated, and
\* both came up to it, whoever edits or reloads the prompt, or validates again,
\* in between; nothing is validated that was not extracted; and unless a request
\* validated it again, one version of the prompt did both.  (If nothing is
\* required, failed extractions are confident too.)
ConfidentMeansValidated ==
  \A p \in Prompts :
    /\ row[p].sure /\ Required > 0 => row[p].val # "none" /\ row[p].believed
    /\ row[p].val # "none" => row[p].raw # "none"
    /\ row[p].val # "none" /\ ~row[p].again => row[p].by = row[p].raw

\* What one token of the rate limiter can cost: a job makes at most two calls
\* per attempt allowed when it began, and sleeps no longer than the cap of the
\* backoff and its jitter allow, however often the prompt is edited meanwhile.
JobBounded ==
  \A p \in Prompts :
    /\ call[p].calls <= 2 * call[p].tries
    /\ call[p].sleep <= 2 * (call[p].tries - 1) * 5 * MaxBackoff
=============================================================================
