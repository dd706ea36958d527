----------------------------- MODULE Publishing -----------------------------
(***************************************************************************)
(* What becomes of extracted values: corrections by hand, revalidation,    *)
(* translation, the German profile of a source (Steckbrief), its English   *)
(* version and their publication.                                          *)
(*                                                                         *)
(* Worker jobs and requests work on the same rows of PostgreSQL.  Each     *)
(* loads what it needs, computes (often through an LLM), and commits       *)
(* later; nothing is locked in between.  The rows of the queue are those   *)
(* of JobDelivery.                                                         *)
(***************************************************************************)
EXTENDS JobDelivery, FiniteSets

CONSTANTS
  Sources,       \* completed sources with a category
  Fields,        \* the prompts of that category, all in active groups
  Translatable,  \* the fields whose prompt sets translatable
  Tasks,         \* jobs and requests that can run at the same time
  AdminOps,      \* the requests that may come in, a subset of AllOps
  MaxOps,        \* bound: requests served
  MaxFaults      \* bound: crashes and errors of a database, Redis, template

AllOps == {"edit", "re_extract", "revalidate_source", "revalidate_all",
           "revalidate_missing", "regenerate", "generate_all",
           "regenerate_all", "write_profile", "delete_profile", "publish",
           "unpublish", "publish_all", "queue_translations",
           "queue_all_translations", "translate_profiles",
           "translate_source", "translate_pending", "generate_english",
           "generate_site", "generate_english_site", "create_entity",
           "update_entity", "delete_entity", "add_variant", "delete_variant",
           "auto_link", "update_source", "update_category", "delete_category"}

ASSUME PublishingAssumption ==
  /\ IsFiniteSet(Sources)
  /\ Translatable \subseteq Fields
  /\ AdminOps \subseteq AllOps
  /\ MaxAttempts \in Nat \ {0}
  /\ MaxOps \in Nat
  /\ MaxFaults \in Nat
  /\ "none" \notin Jobs   \* stands for no job

VARIABLES
  row,        \* extractions, by source and field
  profile,    \* steckbriefe, by source
  english,    \* steckbrief_translations with language 'en', by source
  lastId,     \* the sequence behind steckbriefe.id
  asks,       \* what each job is to do
  task,       \* jobs and requests under way
  approved,   \* ids of profiles somebody published and nobody unpublished
  kept,       \* edits that no revalidation may overwrite
  promised,   \* sources whose profile was deleted to be generated anew
  ops, faults

queue == <<phase, tries, asks>>
tables == <<row, profile, english, lastId>>
ghosts == <<approved, kept, promised>>
bounds == <<ops, faults>>
pvars == <<queue, tables, task, ghosts, bounds>>

\* validated_result: "raw" when it is empty and only raw_result is there,
\* one of two answers of a validation, or a correction.
Vals == {"raw", "first", "second", "edit"}
Rows == [val : Vals \cup {"none"}, sure : BOOLEAN, mark : {"pending", "skipped"}]
NoRow == [val |-> "none", sure |-> FALSE, mark |-> "pending"]

Texts == [Fields -> Vals \cup {"hidden", "by hand"}]
NoText == [f \in Fields |-> "hidden"]
Profiles == [id : Nat, text : Texts, published : BOOLEAN]
NoProfile == [id |-> 0, text |-> NoText, published |-> FALSE]
NoEnglish == [text |-> NoText, of |-> NoText, there |-> FALSE]

Idle == [op |-> "none", pc |-> "none", job |-> "none", source |-> "none",
         todo |-> {}, text |-> NoText, ids |-> {}, read |-> <<>>]

Exists(s) == profile[s].id # 0
HasResult(s, f) == row[s][f].val \notin {"none", "raw"}

TypeOK ==
  /\ DeliveryTypeOK
  /\ row \in [Sources -> [Fields -> Rows]]
  /\ profile \in [Sources -> Profiles]
  /\ \A s \in Sources : Exists(s) => profile[s].id \in 1..lastId
  /\ \A s, r \in Sources :
       Exists(s) /\ profile[s].id = profile[r].id => s = r
  /\ \A s \in Sources : english[s].there => Exists(s)
  /\ \A j \in Jobs : phase[j] = "taken" <=> \E t \in Tasks : task[t].job = j
  /\ ops \in 0..MaxOps
  /\ faults \in 0..MaxFaults

-----------------------------------------------------------------------------
(***************************************************************************)
(* A row can be what validation left: a first answer that is trusted, or   *)
(* nothing, with a raw value below the required confidence.  Profiles have *)
(* been generated, or not, and published, or not.                          *)
(***************************************************************************)
Extracted == {[val |-> "first", sure |-> TRUE, mark |-> "pending"],
              [val |-> "raw", sure |-> FALSE, mark |-> "pending"]}

\* SteckbriefGenerator: the text rendered from the rows.
Rendered(rows) ==
  [f \in Fields |-> IF rows[f].sure THEN rows[f].val ELSE "hidden"]

PInit ==
  /\ DInit
  /\ row \in [Sources -> [Fields -> Extracted]]
  /\ \E have \in SUBSET Sources : \E out \in SUBSET have :
       \E id \in [Sources -> 0..Cardinality(Sources)] :
         /\ \A s \in Sources : id[s] # 0 <=> s \in have
         /\ \A s, r \in have : id[s] = id[r] => s = r
         /\ profile = [s \in Sources |->
              IF s \in have
              THEN [id |-> id[s], text |-> Rendered(row[s]), published |-> s \in out]
              ELSE NoProfile]
         /\ approved = {id[s] : s \in out}
  /\ english = [s \in Sources |-> NoEnglish]
  /\ lastId = Cardinality(Sources)
  /\ asks = [j \in Jobs |-> <<"none", "none">>]
  /\ task = [t \in Tasks |-> Idle]
  /\ kept = {}
  /\ promised = {}
  /\ ops = 0
  /\ faults = 0

-----------------------------------------------------------------------------
(***************************************************************************)
(* Requests, tasks and jobs                                                *)
(***************************************************************************)
Begin(op) ==
  /\ op \in AdminOps
  /\ ops < MaxOps
  /\ ops' = ops + 1
  /\ faults' = faults

Fault == faults < MaxFaults /\ faults' = faults + 1 /\ ops' = ops

At(t, pc) == task[t].pc = pc
GoTo(t, pc) == task' = [task EXCEPT ![t].pc = pc]
BeginTask(t, rec) ==
  /\ task[t] = Idle
  /\ task' = [task EXCEPT ![t] = rec]
EndTask(t) == task' = [task EXCEPT ![t] = Idle]

IsJob(t) == task[t].job \in Jobs

Settled(j) == asks' = [asks EXCEPT ![j] = <<"none", "none">>]

\* A job's function returned or raised: the worker marks the job.
Succeed(t) ==
  /\ EndTask(t)
  /\ IF IsJob(t) THEN Complete(task[t].job) /\ Settled(task[t].job)
               ELSE UNCHANGED queue
Fail(t) ==
  /\ EndTask(t)
  /\ IF ~IsJob(t) THEN UNCHANGED queue
     ELSE \/ Retry(task[t].job) /\ asks' = asks
          \/ GiveUp(task[t].job) /\ Settled(task[t].job)

Enqueue(j, what, s) == Submit(j) /\ asks' = [asks EXCEPT ![j] = <<what, s>>]

\* One job for each source of a set, in an order of their own.
EnqueueAll(what, set) ==
  \E js \in SUBSET Jobs :
    /\ \A j \in js : phase[j] = "absent"
    /\ \E of \in [js -> set] :
         /\ \A i, j \in js : of[i] = of[j] => i = j
         /\ set = {of[j] : j \in js}
         /\ asks' = [j \in Jobs |-> IF j \in js THEN <<what, of[j]>> ELSE asks[j]]
    /\ phase' = [j \in Jobs |-> IF j \in js THEN "waiting" ELSE phase[j]]
    /\ UNCHANGED tries

\* The DELETE of regenerate_all() has run and holds its rows until it commits.
Doomed == UNION {task[t].ids : t \in {u \in Tasks : task[u].op = "regenerate_all"}}
\* mutant: nothing waits for the deletion
MutFree(s) == TRUE
Free(s) == profile[s].id \notin Doomed

-----------------------------------------------------------------------------
(***************************************************************************)
(* Corrections and revalidation                                            *)
(***************************************************************************)
BeingRead(s, f) == \E t \in Tasks : <<s, f>> \in DOMAIN task[t].read

\* update_extraction(): a value, or an empty one.  The confidence stays.
EditExtraction(s, f, v) ==
  /\ Begin("edit")
  /\ row[s][f].val # "none"
  /\ row' = [row EXCEPT ![s][f].val = v]
  /\ kept' = IF v = "edit" /\ ~BeingRead(s, f)
             THEN kept \cup {<<s, f>>} ELSE kept \ {<<s, f>>}
  /\ UNCHANGED <<queue, profile, english, lastId, task, approved, promised>>

\* mutant: the translation is not deleted with its profile
MutReExtract(s) ==
  /\ Begin("re_extract")
  /\ Free(s)
  /\ row' = [row EXCEPT ![s] = [f \in Fields |-> NoRow]]
  /\ profile' = [profile EXCEPT ![s] = NoProfile]
  /\ approved' = approved \ {profile[s].id}
  /\ kept' = {p \in kept : p[1] # s}
  /\ promised' = promised \ {s}
  /\ UNCHANGED <<queue, lastId, english, task>>

\* change_source_category() deletes rows and profile (the translation goes
\* with it); SourcePipeline has the extraction that follows.  A session that
\* has loaded one of the rows will find it gone.
ReExtract(s) ==
  /\ Begin("re_extract")
  /\ Free(s)
  /\ row' = [row EXCEPT ![s] = [f \in Fields |-> NoRow]]
  /\ profile' = [profile EXCEPT ![s] = NoProfile]
  /\ english' = [english EXCEPT ![s] = NoEnglish]
  /\ task' = [t \in Tasks |->
       IF task[t].pc # "validating" THEN task[t]
       ELSE [task[t] EXCEPT !.read =
               [p \in DOMAIN @ |-> IF p[1] = s THEN NoRow ELSE @[p]]]]
  /\ approved' = approved \ {profile[s].id}
  /\ kept' = {p \in kept : p[1] # s}
  /\ promised' = promised \ {s}
  /\ UNCHANGED <<queue, lastId>>

StoreExtraction(s, f, r) ==
  /\ row[s][f] = NoRow
  /\ row' = [row EXCEPT ![s][f] = r]
  /\ UNCHANGED <<queue, profile, english, lastId, task, ghosts, bounds>>

HasRaw(s, f) == row[s][f].val # "none"
\* mutant: every row with a raw value is loaded
MutMissing(s, f) == HasRaw(s, f)
Missing(s, f) == row[s][f].val = "raw"

\* The rows a revalidation loads, each with what it holds now.
Picked(op, s) ==
  CASE op = "revalidate_source"  -> {p \in {s} \X Fields : HasRaw(p[1], p[2])}
    [] op = "revalidate_all"     -> {p \in Sources \X Fields : HasRaw(p[1], p[2])}
    [] op = "revalidate_missing" -> {p \in Sources \X Fields : Missing(p[1], p[2])}

BeginRevalidate(t, op, s) ==
  /\ Begin(op)
  /\ Picked(op, s) # {}
  /\ BeginTask(t, [Idle EXCEPT !.op = op, !.pc = "validating",
                     !.read = [p \in Picked(op, s) |-> row[p[1]][p[2]]]])
  /\ kept' = IF op = "revalidate_missing" THEN kept ELSE kept \ Picked(op, s)
  /\ UNCHANGED <<queue, tables, approved, promised>>

\* What a validation call can bring: a value and a confidence, or an error.
Answers == {[val |-> "first", sure |-> FALSE], [val |-> "second", sure |-> TRUE]}

\* SQLAlchemy sends a column only if its new value is not the loaded one.
Sent(loaded, new, stored) == IF new = loaded THEN stored ELSE new

Revalidated(p, loaded, a) ==
  [row[p[1]][p[2]] EXCEPT !.val = Sent(loaded.val, a.val, @),
                          !.sure = Sent(loaded.sure, a.sure, @)]

\* One commit for all rows; the UPDATE of a row that is gone undoes it.
EndRevalidate(t) ==
  /\ At(t, "validating")
  /\ \E done \in SUBSET DOMAIN task[t].read : \E a \in [done -> Answers] :
       row' = IF \E p \in done : task[t].read[p] = NoRow
              THEN row
              ELSE [s \in Sources |-> [f \in Fields |->
                     IF <<s, f>> \in done
                     THEN Revalidated(<<s, f>>, task[t].read[<<s, f>>], a[<<s, f>>])
                     ELSE row[s][f]]]
  /\ EndTask(t)
  /\ UNCHANGED <<queue, profile, english, lastId, ghosts, bounds>>

-----------------------------------------------------------------------------
(***************************************************************************)
(* SteckbriefGenerator.generate() for the German profile: load the rows,   *)
(* render, look the profile up, store and commit.                          *)
(***************************************************************************)
Load(t) ==
  /\ At(t, "load")
  /\ task' = [task EXCEPT ![t].pc = "find", ![t].text = Rendered(row[task[t].source])]
  /\ UNCHANGED <<queue, tables, ghosts, bounds>>

Find(t) ==
  /\ At(t, "find")
  /\ task' = [task EXCEPT ![t].pc = "save", ![t].ids = {profile[task[t].source].id}]
  /\ UNCHANGED <<queue, tables, ghosts, bounds>>

\* What follows a generation depends on who asked for it.
Generated(t) ==
  CASE task[t].op = "translate" -> GoTo(t, "marks") /\ UNCHANGED queue
    [] task[t].op = "generate_all" ->
         /\ task' = [task EXCEPT ![t].pc = "next", ![t].ids = {}, ![t].text = NoText]
         /\ UNCHANGED queue
    [] OTHER -> Succeed(t)

\* generate_all(): the rollback expires the sources that were loaded, the
\* next access to one raises, and the request ends there.
NotGenerated(t) == Fail(t)

\* mutant: an upsert that carries the state of publication along
MutSaveOverFound(t, s) ==
  /\ task[t].ids # {0} /\ profile[s].id \notin task[t].ids
  /\ lastId' = lastId + 1
  /\ profile' = [profile EXCEPT ![s] =
                   [id |-> lastId + 1, text |-> task[t].text, published |-> TRUE]]
  /\ Generated(t)

\* The profile that was found is gone: the UPDATE matches no row and raises.
SaveOverFound(t, s) ==
  /\ task[t].ids # {0} /\ profile[s].id \notin task[t].ids
  /\ NotGenerated(t)
  /\ UNCHANGED <<profile, lastId>>

SaveOverNone(t, s) ==
  /\ task[t].ids = {0} /\ ~Exists(s)
  /\ lastId' = lastId + 1
  /\ profile' = [profile EXCEPT ![s] =
                   [id |-> lastId + 1, text |-> task[t].text, published |-> FALSE]]
  /\ Generated(t)

\* Another generation inserted first: one profile per source.
SaveTooLate(t, s) ==
  /\ task[t].ids = {0} /\ Exists(s)
  /\ NotGenerated(t)
  /\ UNCHANGED <<profile, lastId>>

SaveUpdate(t, s) ==
  /\ Exists(s) /\ task[t].ids = {profile[s].id}
  /\ profile' = [profile EXCEPT ![s].text = task[t].text]
  /\ Generated(t)
  /\ lastId' = lastId

Save(t) ==
  /\ At(t, "save")
  /\ LET s == task[t].source
     IN /\ Free(s)
        /\ \/ SaveOverFound(t, s) \/ SaveOverNone(t, s)
           \/ SaveTooLate(t, s) \/ SaveUpdate(t, s)
  /\ UNCHANGED <<row, english, ghosts, bounds>>

\* No category, no template, a template that does not render, the database.
GenerateFails(t) ==
  /\ At(t, "load")
  /\ Fault
  /\ NotGenerated(t)
  /\ UNCHANGED <<tables, ghosts>>

-----------------------------------------------------------------------------
(***************************************************************************)
(* Who generates: a GENERATE or TRANSLATE job, regenerate_steckbrief_ui(), *)
(* generate_all_steckbriefe().                                             *)
(***************************************************************************)
TakeJob(t, j) ==
  /\ Take(j)
  /\ BeginTask(t, [Idle EXCEPT !.op = asks[j][1], !.source = asks[j][2], !.job = j,
       !.pc = IF asks[j][1] = "translate" /\ Exists(asks[j][2]) THEN "marks" ELSE "load"])
  /\ UNCHANGED <<asks, tables, ghosts, bounds>>

Regenerate(t, s) ==
  /\ Begin("regenerate")
  /\ Exists(s)
  /\ BeginTask(t, [Idle EXCEPT !.op = "regenerate", !.source = s, !.pc = "load"])
  /\ UNCHANGED <<queue, tables, ghosts>>

Completed == {s \in Sources : \A f \in Fields : row[s][f] # NoRow}

GenerateAll(t) ==
  /\ Begin("generate_all")
  /\ BeginTask(t, [Idle EXCEPT !.op = "generate_all", !.pc = "next", !.todo = Completed])
  /\ UNCHANGED <<queue, tables, ghosts>>

GenerateNext(t, s) ==
  /\ At(t, "next")
  /\ s \in task[t].todo
  /\ task' = [task EXCEPT ![t].todo = @ \ {s}, ![t].source = s,
                          ![t].pc = IF Exists(s) THEN "next" ELSE "load"]
  /\ UNCHANGED <<queue, tables, ghosts, bounds>>

EndGenerateAll(t) ==
  /\ At(t, "next")
  /\ task[t].todo = {}
  /\ EndTask(t)
  /\ UNCHANGED <<queue, tables, ghosts, bounds>>

\* The worker stops or dies: the transaction is rolled back, the job is gone.
Crash(t) ==
  /\ IsJob(t)
  /\ Fault
  /\ Lose(task[t].job)
  /\ tries' = tries
  /\ Settled(task[t].job)
  /\ EndTask(t)
  /\ UNCHANGED <<tables, ghosts>>

-----------------------------------------------------------------------------
(***************************************************************************)
(* regenerate_all_steckbriefe(): delete every profile, queue one job per   *)
(* completed source, and commit last.  The profile of a source that is     *)
(* being extracted again is deleted without a job.                         *)
(***************************************************************************)
RegenerateAll(t) ==
  /\ Begin("regenerate_all")
  /\ \A s \in Sources : Free(s)
  /\ BeginTask(t, [Idle EXCEPT !.op = "regenerate_all", !.pc = "queue", !.todo = Completed,
                     !.ids = {profile[s].id : s \in {r \in Sources : Exists(r)}}])
  /\ promised' = promised \cap Completed
  /\ UNCHANGED <<queue, tables, approved, kept>>

QueueRegeneration(t, s, j) ==
  /\ At(t, "queue")
  /\ s \in task[t].todo
  /\ Enqueue(j, "generate", s)
  /\ task' = [task EXCEPT ![t].todo = @ \ {s}]
  /\ promised' = promised \cup {s}
  /\ UNCHANGED <<tables, approved, kept, bounds>>

\* The error of one source is collected and the others go on.
QueueRegenerationFails(t, s) ==
  /\ At(t, "queue")
  /\ s \in task[t].todo
  /\ Fault
  /\ task' = [task EXCEPT ![t].todo = @ \ {s}]
  /\ UNCHANGED <<queue, tables, ghosts>>

CommitRegeneration(t) ==
  /\ At(t, "queue")
  /\ task[t].todo = {}
  /\ LET gone == {s \in Sources : profile[s].id \in task[t].ids}
     IN /\ profile' = [s \in Sources |-> IF s \in gone THEN NoProfile ELSE profile[s]]
        /\ english' = [s \in Sources |-> IF s \in gone THEN NoEnglish ELSE english[s]]
  /\ approved' = approved \ task[t].ids
  /\ EndTask(t)
  /\ UNCHANGED <<queue, row, lastId, kept, promised, bounds>>

-----------------------------------------------------------------------------
(***************************************************************************)
(* Profiles by hand, and publication                                       *)
(***************************************************************************)
WriteProfile(s) ==
  /\ Begin("write_profile")
  /\ Exists(s) /\ Free(s)
  /\ profile' = [profile EXCEPT ![s].text = [f \in Fields |-> "by hand"]]
  /\ UNCHANGED <<queue, row, english, lastId, task, ghosts>>

DeleteProfile(s) ==
  /\ Begin("delete_profile")
  /\ Exists(s) /\ Free(s)
  /\ profile' = [profile EXCEPT ![s] = NoProfile]
  /\ english' = [english EXCEPT ![s] = NoEnglish]
  /\ approved' = approved \ {profile[s].id}
  /\ promised' = promised \ {s}
  /\ UNCHANGED <<queue, row, lastId, task, kept>>

Publish(s) ==
  /\ Begin("publish")
  /\ Exists(s) /\ Free(s)
  /\ profile' = [profile EXCEPT ![s].published = TRUE]
  /\ approved' = approved \cup {profile[s].id}
  /\ UNCHANGED <<queue, row, english, lastId, task, kept, promised>>

Unpublish(s) ==
  /\ Begin("unpublish")
  /\ Exists(s) /\ Free(s)
  /\ profile' = [profile EXCEPT ![s].published = FALSE]
  /\ approved' = approved \ {profile[s].id}
  /\ UNCHANGED <<queue, row, english, lastId, task, kept, promised>>

PublishAll ==
  /\ Begin("publish_all")
  /\ \A s \in Sources : Free(s)
  /\ profile' = [s \in Sources |-> [profile[s] EXCEPT !.published = Exists(s)]]
  /\ approved' = approved \cup {profile[s].id : s \in {r \in Sources : Exists(r)}}
  /\ UNCHANGED <<queue, row, english, lastId, task, kept, promised>>

-----------------------------------------------------------------------------
(***************************************************************************)
(* Translation.  translate_source_extractions() goes through the rows with *)
(* a result that are pending, in the order the database returns them, and  *)
(* marks the untranslatable ones; at the first translatable one it raises  *)
(* NameError (target_language is not defined there).  No row ever gets an  *)
(* English value, so a job ends without an English profile.                *)
(***************************************************************************)
Pending(s) == {f \in Fields : HasResult(s, f) /\ row[s][f].mark = "pending"}

Skipped(s, fs) == [row EXCEPT ![s] = [f \in Fields |->
  IF f \in fs THEN [row[s][f] EXCEPT !.mark = "skipped"] ELSE row[s][f]]]

\* The job catches the error, returns, and what was marked is committed.
TranslateRaises(t) ==
  /\ At(t, "marks")
  /\ LET s == task[t].source
     IN /\ Pending(s) \cap Translatable # {}
        /\ \E met \in SUBSET (Pending(s) \ Translatable) : row' = Skipped(s, met)
  /\ Fail(t)
  /\ UNCHANGED <<profile, english, lastId, ghosts, bounds>>

TranslateNothing(t) ==
  /\ At(t, "marks")
  /\ LET s == task[t].source
     IN /\ Pending(s) \cap Translatable = {}
        /\ row' = Skipped(s, Pending(s))
  /\ Succeed(t)
  /\ UNCHANGED <<profile, english, lastId, ghosts, bounds>>

\* translate_source(): the request lets the error pass, nothing is kept.
TranslateSource(s) ==
  /\ Begin("translate_source")
  /\ row' = IF Pending(s) \cap Translatable = {} THEN Skipped(s, Pending(s)) ELSE row
  /\ UNCHANGED <<queue, profile, english, lastId, task, ghosts>>

\* translate_extractions(): the first row raises, and only rows that raise
\* are looked for.
TranslatePending ==
  /\ Begin("translate_pending")
  /\ UNCHANGED <<queue, tables, task, ghosts>>

NeedTranslation(op) ==
  CASE op = "queue_translations" -> {s \in Sources : \E f \in Fields : HasResult(s, f)}
    [] op = "queue_all_translations" -> {s \in Sources : Exists(s)}
    [] op = "translate_profiles" ->
         {s \in Sources : /\ profile[s].published
                          /\ english[s].there => english[s].of # profile[s].text}

QueueTranslations(op) ==
  /\ Begin(op)
  /\ EnqueueAll("translate", NeedTranslation(op))
  /\ UNCHANGED <<tables, task, ghosts>>

\* generate_english_steckbriefe(): generate(language='en') stores a text made
\* from the rows, then the request puts the German one in its place.  `of'
\* stands for source_hash.
BeginEnglish(t) ==
  /\ Begin("generate_english")
  /\ BeginTask(t, [Idle EXCEPT !.op = "english", !.pc = "english",
       !.read = [s \in {r \in Sources : profile[r].published} |-> profile[s]]])
  /\ UNCHANGED <<queue, tables, ghosts>>

EnglishOf(s, seen) == [text |-> seen.text, of |-> seen.text, there |-> TRUE]

\* One commit for those that have a template; the row of a profile that is
\* gone cannot be inserted and the request fails as a whole.
EndEnglish(t) ==
  /\ At(t, "english")
  /\ \A s \in DOMAIN task[t].read : Free(s)
  /\ \E done \in SUBSET DOMAIN task[t].read :
       english' = IF \E s \in done : profile[s].id # task[t].read[s].id
                  THEN english
                  ELSE [s \in Sources |-> IF s \in done THEN EnglishOf(s, task[t].read[s])
                                                        ELSE english[s]]
  /\ EndTask(t)
  /\ UNCHANGED <<queue, row, profile, lastId, ghosts, bounds>>

-----------------------------------------------------------------------------
Step(t) ==
  \/ Load(t) \/ Find(t) \/ Save(t) \/ GenerateFails(t)
  \/ \E s \in Sources : GenerateNext(t, s)
  \/ EndGenerateAll(t)
  \/ \E s \in Sources, j \in Jobs : QueueRegeneration(t, s, j)
  \/ \E s \in Sources : QueueRegenerationFails(t, s)
  \/ CommitRegeneration(t)
  \/ TranslateRaises(t) \/ TranslateNothing(t)
  \/ EndRevalidate(t) \/ EndEnglish(t)
  \/ Crash(t)

StartTask(t) ==
  \/ \E j \in Jobs : TakeJob(t, j)
  \/ \E op \in {"revalidate_all", "revalidate_missing"} :
       BeginRevalidate(t, op, "none")
  \/ \E s \in Sources : BeginRevalidate(t, "revalidate_source", s) \/ Regenerate(t, s)
  \/ GenerateAll(t) \/ RegenerateAll(t) \/ BeginEnglish(t)

Request ==
  \/ \E s \in Sources : \/ \E f \in Fields, v \in {"edit", "raw"} : EditExtraction(s, f, v)
                        \/ ReExtract(s)
                        \/ WriteProfile(s) \/ DeleteProfile(s)
                        \/ Publish(s) \/ Unpublish(s)
                        \/ TranslateSource(s)
  \/ PublishAll \/ TranslatePending
  \/ \E op \in {"queue_translations", "queue_all_translations", "translate_profiles"} :
       QueueTranslations(op)

Store == \E s \in Sources, f \in Fields, r \in Extracted : StoreExtraction(s, f, r)

PNext == Request \/ Store \/ \E t \in Tasks : StartTask(t) \/ Step(t)

PSpec == PInit /\ [][PNext]_pvars

-----------------------------------------------------------------------------
(***************************************************************************)
(* Properties                                                              *)
(***************************************************************************)
\* No profile is public that nobody published: one that was deleted and
\* generated anew, by whatever interleaving, starts unpublished.
OnlyApprovedPublished ==
  \A s \in Sources : profile[s].published => profile[s].id \in approved

\* A correction by hand survives every revalidation of missing values that
\* begins later, and every concurrent generation and translation.  `kept' holds
\* no correction that was made while a revalidation had the row loaded, nor one
\* that a revalidation of all rows has loaded: those the code may overwrite.
EditKept == \A p \in kept : row[p[1]][p[2]].val = "edit"

\* regenerate_all_steckbriefe() loses no profile although its jobs can run
\* before its deletion commits: where nothing failed, there is a profile or
\* a job that will make one.
RegenerationRestores ==
  faults = 0 =>
    \A s \in promised :
      \/ Exists(s)
      \/ \E j \in Jobs : asks[j] = <<"generate", s>> /\ phase[j] \in {"waiting", "taken"}

-----------------------------------------------------------------------------
(***************************************************************************)
(* A statement of the sources that the code does not keep                  *)
(***************************************************************************)
\* A manual edit is "not overwritten by machine output unless explicitly
\* requested" (docs/glossary.md): a request replaces it, or a revalidation that
\* asks for rows with a value too, but no revalidation of the missing ones.
EditsSurvive ==
  [][\A s \in Sources, f \in Fields :
       row[s][f].val = "edit" /\ row'[s][f].val # "edit" =>
         \/ ops' # ops
         \/ \E t \in Tasks : /\ task[t].op \in {"revalidate_source", "revalidate_all"}
                             /\ task'[t] = Idle]_pvars

=============================================================================
