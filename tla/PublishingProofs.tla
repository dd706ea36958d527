-------------------------- MODULE PublishingProofs --------------------------
(***************************************************************************)
(* Proofs about the rows and profiles of Publishing, for any sources and   *)
(* fields and any number of jobs and requests at the same time: no profile *)
(* is public which nobody published, types, corrections by hand that no    *)
(* revalidation had loaded are kept, and the deletion of all profiles      *)
(* loses none.                                                             *)
(***************************************************************************)
EXTENDS Publishing, FiniteSetTheorems, TLAPS

\* Ids of profiles are those of the sequence, one profile each, and only a
\* profile that is there can be public.
IdsInv ==
  /\ profile = [s \in Sources |-> profile[s]]
  /\ lastId \in Nat
  /\ \A s \in Sources :
       /\ {"id", "text", "published"} \subseteq DOMAIN profile[s]
       /\ profile[s].id \in 0..lastId
       /\ profile[s].published => Exists(s)
  /\ \A s, r \in Sources : Exists(s) /\ profile[s].id = profile[r].id => s = r

PublicInv == IdsInv /\ OnlyApprovedPublished

LEMMA InitPublic == PInit => PublicInv
<1> SUFFICES ASSUME PInit PROVE PublicInv
  OBVIOUS
<1>1. lastId \in Nat
  BY PublishingAssumption, FS_CardinalityType DEF PInit
<1> DEFINE Prior(have, out, id) ==
             /\ \A s \in Sources : id[s] # 0 <=> s \in have
             /\ \A s, r \in have : id[s] = id[r] => s = r
             /\ profile = [s \in Sources |->
                  IF s \in have
                  THEN [id |-> id[s], text |-> Rendered(row[s]), published |-> s \in out]
                  ELSE NoProfile]
             /\ approved = {id[s] : s \in out}
<1>2. \E have \in SUBSET Sources : \E out \in SUBSET have :
        \E id \in [Sources -> 0..Cardinality(Sources)] : Prior(have, out, id)
  BY DEF PInit
<1> HIDE DEF Prior
<1>3. PICK have \in SUBSET Sources : \E out \in SUBSET have :
        \E id \in [Sources -> 0..Cardinality(Sources)] : Prior(have, out, id)
  BY <1>2
<1>4. PICK out \in SUBSET have :
        \E id \in [Sources -> 0..Cardinality(Sources)] : Prior(have, out, id)
  BY <1>3
<1>5. PICK id \in [Sources -> 0..Cardinality(Sources)] : Prior(have, out, id)
  BY <1>4
<1>6. /\ have \in SUBSET Sources /\ out \in SUBSET Sources /\ out \subseteq have
      /\ id \in [Sources -> 0..Cardinality(Sources)] /\ Prior(have, out, id)
  BY <1>5
<1> USE DEF Prior
<1>7. \A s \in Sources : profile[s].id = id[s] /\ (profile[s].published <=> s \in out)
  <2>1. ASSUME NEW s \in have PROVE profile[s].id = id[s]
    BY <1>6, <2>1
  <2>2. ASSUME NEW s \in have PROVE profile[s].published <=> s \in out
    BY <1>6, <2>2
  <2>3. ASSUME NEW s \in Sources \ have PROVE profile[s] = NoProfile /\ id[s] = 0 /\ s \notin out
    BY <1>6, <2>3
  <2>4. NoProfile.id = 0 /\ NoProfile.published = FALSE
    BY DEF NoProfile
  <2>5. QED BY <2>1, <2>2, <2>3, <2>4
<1>8. \A s \in Sources : {"id", "text", "published"} \subseteq DOMAIN profile[s]
  BY <1>6 DEF NoProfile
<1>9. lastId = Cardinality(Sources) /\ profile = [s \in Sources |-> profile[s]]
  BY <1>6 DEF PInit
<1>10. IdsInv
  BY <1>1, <1>6, <1>7, <1>8, <1>9 DEF IdsInv, Exists
<1>11. OnlyApprovedPublished
  BY <1>6, <1>7 DEF OnlyApprovedPublished
<1>12. QED BY <1>10, <1>11 DEF PublicInv

\* Steps that touch no profile.
LEMMA Untouched ==
  ASSUME PublicInv, UNCHANGED <<profile, lastId, approved>>
  PROVE  PublicInv'
BY DEF PublicInv, IdsInv, OnlyApprovedPublished, Exists

\* Requests: who deletes a profile withdraws its approval, and no other
\* profile has its id.
LEMMA RequestPublic ==
  ASSUME PublicInv, Request
  PROVE  PublicInv'
<1> USE DEF PublicInv, IdsInv, OnlyApprovedPublished, Exists, NoProfile
<1>1. ASSUME NEW s \in Sources, ReExtract(s) \/ DeleteProfile(s) PROVE PublicInv'
  <2>1. /\ profile' = [profile EXCEPT ![s] = NoProfile]
        /\ approved' = approved \ {profile[s].id} /\ lastId' = lastId
    BY <1>1 DEF ReExtract, DeleteProfile
  <2>2. /\ profile'[s] = NoProfile /\ \A r \in Sources : r # s => profile'[r] = profile[r]
        /\ profile' = [r \in Sources |-> profile'[r]]
    BY <2>1
  <2>3. IdsInv'
    BY <2>1, <2>2
  <2>4. ASSUME NEW r \in Sources, r # s, profile[r].published
        PROVE  profile[r].id \in approved'
    BY <2>1, <2>4
  <2>5. OnlyApprovedPublished'
    BY <2>2, <2>4
  <2>6. QED BY <2>3, <2>5
<1>2. ASSUME NEW s \in Sources, WriteProfile(s) PROVE PublicInv'
  <2> DEFINE byHand == [f \in Fields |-> "by hand"]
  <2>1. /\ profile' = [profile EXCEPT ![s].text = byHand]
        /\ approved' = approved /\ lastId' = lastId
    BY <1>2 DEF WriteProfile, ghosts
  <2> HIDE DEF byHand
  <2>2. QED BY <2>1
<1>3. ASSUME NEW s \in Sources, Publish(s) PROVE PublicInv'
  BY <1>3 DEF Publish
<1>4. ASSUME NEW s \in Sources, Unpublish(s) PROVE PublicInv'
  BY <1>4 DEF Unpublish
<1>5. CASE PublishAll
  BY <1>5 DEF PublishAll
<1>6. ASSUME \/ \E s \in Sources :
                  \/ \E f \in Fields, v \in {"edit", "raw"} : EditExtraction(s, f, v)
                  \/ TranslateSource(s)
             \/ TranslatePending
             \/ \E op \in {"queue_translations", "queue_all_translations",
                           "translate_profiles"} : QueueTranslations(op)
      PROVE  PublicInv'
  BY <1>6, Untouched DEF EditExtraction, TranslateSource, TranslatePending, QueueTranslations,
     tables, ghosts
<1>7. QED BY <1>1, <1>2, <1>3, <1>4, <1>5, <1>6 DEF Request

\* Jobs: what a generation inserts is not public, what it updates stays as it
\* was.
LEMMA SavePublic ==
  ASSUME PublicInv, NEW t \in Tasks, Save(t)
  PROVE  PublicInv'
<1> USE DEF PublicInv, IdsInv, OnlyApprovedPublished, Exists
<1> DEFINE s == task[t].source
<1>1. approved' = approved
  BY DEF Save, ghosts
<1>2. CASE SaveOverFound(t, s) \/ SaveTooLate(t, s)
  BY <1>1, <1>2, Untouched DEF SaveOverFound, SaveTooLate
<1>3. CASE SaveOverNone(t, s)
  <2>1. /\ lastId' = lastId + 1
        /\ profile' = [profile EXCEPT ![s] =
                         [id |-> lastId + 1, text |-> task[t].text, published |-> FALSE]]
    BY <1>3 DEF SaveOverNone
  <2>2. CASE s \notin Sources
    BY <1>1, <2>1, <2>2
  <2>3. CASE s \in Sources
    <3>1. \A r \in Sources :
            /\ r = s => /\ profile'[r].id = lastId + 1 /\ ~profile'[r].published
                       /\ DOMAIN profile'[r] = {"id", "text", "published"}
            /\ r # s => profile'[r] = profile[r]
      BY <2>1, <2>3
    <3>2. profile' = [r \in Sources |-> profile'[r]]
      BY <2>1
    <3>3. \A r \in Sources : profile[r].id # lastId + 1
      OBVIOUS
    <3>4. IdsInv'
      BY <2>1, <3>1, <3>2, <3>3
    <3>5. QED BY <1>1, <3>1, <3>4
  <2>4. QED BY <2>2, <2>3
<1>4. CASE SaveUpdate(t, s)
  <2>1. lastId' = lastId /\ profile' = [profile EXCEPT ![s].text = task[t].text]
    BY <1>4 DEF SaveUpdate
  <2>2. QED BY <1>1, <2>1
<1>5. QED BY <1>2, <1>3, <1>4 DEF Save

\* The deletion of all profiles takes away what it approved.
LEMMA CommitPublic ==
  ASSUME PublicInv, NEW t \in Tasks, CommitRegeneration(t)
  PROVE  PublicInv'
<1> USE DEF PublicInv, IdsInv, OnlyApprovedPublished, Exists
<1>1. /\ profile' = [s \in Sources |->
                       IF profile[s].id \in task[t].ids THEN NoProfile ELSE profile[s]]
      /\ approved' = approved \ task[t].ids /\ lastId' = lastId
  BY DEF CommitRegeneration
<1>2. QED BY <1>1 DEF NoProfile

\* Every other step of a job or a long request leaves the profiles alone.
LEMMA TaskPublic ==
  ASSUME PublicInv, NEW t \in Tasks, StartTask(t) \/ Step(t)
  PROVE  PublicInv'
<1>1. CASE StartTask(t)
  BY <1>1, Untouched DEF StartTask, TakeJob, BeginRevalidate, Regenerate, GenerateAll,
     RegenerateAll, BeginEnglish, tables, ghosts
<1>2. CASE Step(t)
  <2>1. CASE Save(t) \/ CommitRegeneration(t)
    BY <2>1, SavePublic, CommitPublic
  <2>2. CASE ~(Save(t) \/ CommitRegeneration(t))
    BY <1>2, <2>2, Untouched DEF Step, Load, Find, GenerateFails, GenerateNext,
       EndGenerateAll, QueueRegeneration, QueueRegenerationFails, TranslateRaises,
       TranslateNothing, EndRevalidate, EndEnglish, Crash, tables, ghosts
  <2>3. QED BY <2>1, <2>2
<1>3. QED BY <1>1, <1>2

LEMMA NextPublic == PublicInv /\ [PNext]_pvars => PublicInv'
<1> SUFFICES ASSUME PublicInv, [PNext]_pvars PROVE PublicInv'
  OBVIOUS
<1>1. CASE UNCHANGED pvars
  BY <1>1, Untouched DEF pvars, tables, ghosts
<1>2. ASSUME NEW s \in Sources, NEW f \in Fields, NEW r \in Extracted, StoreExtraction(s, f, r)
      PROVE  PublicInv'
  BY <1>2, Untouched DEF StoreExtraction, ghosts
<1>3. QED BY <1>1, <1>2, RequestPublic, TaskPublic DEF PNext, Store

\* For any sources and fields and any number of jobs and requests: no profile
\* is public that nobody published; one that was deleted and generated anew
\* starts unpublished.
THEOREM NothingPublishesItself == PSpec => []OnlyApprovedPublished
BY InitPublic, NextPublic, PTL DEF PSpec, PublicInv

-----------------------------------------------------------------------------
\* An English version says what its hash was taken of, whatever becomes of the
\* German profile.
EnglishInv ==
  /\ english = [s \in Sources |-> english[s]]
  /\ \A s \in Sources : english[s].there => english[s].text = english[s].of

LEMMA InitEnglish == PInit => EnglishInv
BY DEF PInit, EnglishInv, NoEnglish

\* The translations are written by one request, and deleted.
LEMMA NextEnglish == EnglishInv /\ [PNext]_pvars => EnglishInv'
<1> SUFFICES ASSUME EnglishInv, [PNext]_pvars PROVE EnglishInv'
  OBVIOUS
<1> USE DEF EnglishInv
<1>1. ASSUME NEW t \in Tasks, EndEnglish(t) PROVE EnglishInv'
  <2> DEFINE seen == task[t].read
  <2>1. PICK done \in SUBSET DOMAIN seen :
          english' = IF \E s \in done : profile[s].id # seen[s].id
                     THEN english
                     ELSE [s \in Sources |-> IF s \in done THEN EnglishOf(s, seen[s])
                                                           ELSE english[s]]
    BY <1>1 DEF EndEnglish
  <2>2. \A s \in Sources : EnglishOf(s, seen[s]).text = EnglishOf(s, seen[s]).of
    BY DEF EnglishOf
  <2> HIDE DEF seen
  <2>3. QED BY <2>1, <2>2
<1>2. ASSUME NEW s \in Sources, ReExtract(s) \/ DeleteProfile(s) PROVE EnglishInv'
  BY <1>2 DEF ReExtract, DeleteProfile, NoEnglish
<1>3. ASSUME NEW t \in Tasks, CommitRegeneration(t) PROVE EnglishInv'
  BY <1>3 DEF CommitRegeneration, NoEnglish
<1>4. ASSUME UNCHANGED english PROVE EnglishInv'
  BY <1>4
<1>5. CASE Request
  BY <1>2, <1>4, <1>5 DEF Request, WriteProfile, Publish, Unpublish, PublishAll,
     EditExtraction, TranslateSource, TranslatePending, QueueTranslations, tables
<1>6. ASSUME NEW t \in Tasks, StartTask(t) PROVE EnglishInv'
  BY <1>4, <1>6 DEF StartTask, TakeJob, BeginRevalidate, Regenerate, GenerateAll,
     RegenerateAll, BeginEnglish, tables
<1>7. ASSUME NEW t \in Tasks, Step(t) PROVE EnglishInv'
  BY <1>1, <1>3, <1>4, <1>7 DEF Step, Load, Find, Save, GenerateFails, GenerateNext,
     EndGenerateAll, QueueRegeneration, QueueRegenerationFails, TranslateRaises,
     TranslateNothing, EndRevalidate, Crash, tables
<1>8. CASE Store \/ UNCHANGED pvars
  BY <1>4, <1>8 DEF Store, StoreExtraction, pvars, tables
<1>9. QED BY <1>5, <1>6, <1>7, <1>8 DEF PNext

-----------------------------------------------------------------------------
(***************************************************************************)
(* Jobs and the tasks that run them                                        *)
(***************************************************************************)
TaskFields == {"op", "pc", "job", "source", "todo", "text", "ids", "read"}
Generating == {"load", "find", "save", "marks"}
Live == {"waiting", "taken"}

\* A task does what its job asks for.
TaskOK(k) ==
  /\ DOMAIN k = TaskFields
  /\ k.job \in Jobs \cup {"none"}
  /\ k.job \in Jobs => asks[k.job] = <<k.op, k.source>> /\ k.pc \in Generating
  /\ k.pc \in Generating => k.source \in Sources
  /\ k.pc = "marks" => k.op = "translate"
  /\ k.op = "regenerate_all" <=> k.pc = "queue"
  /\ k.todo \subseteq Sources

AskOK(j) ==
  /\ phase[j] \in Live => asks[j] \in {"generate", "translate"} \X Sources
  /\ phase[j] \in Live => tries[j] < MaxAttempts
  /\ phase[j] = "absent" => tries[j] = 0
  /\ phase[j] = "taken" <=> \E t \in Tasks : task[t].job = j

TasksInv ==
  /\ DeliveryTypeOK
  /\ asks = [j \in Jobs |-> asks[j]]
  /\ task = [t \in Tasks |-> task[t]]
  /\ \A j \in Jobs : AskOK(j)
  /\ \A t \in Tasks : TaskOK(task[t])
  /\ \A t, u \in Tasks : task[t].job \in Jobs /\ task[u].job = task[t].job => t = u

LEMMA InitTasks == PInit => TasksInv
BY PublishingAssumption DEF PInit, TasksInv, DeliveryTypeOK, DInit, Phases, AskOK, TaskOK, Idle,
   TaskFields, Generating, Live

\* A task goes on, begins or ends without a job.
LEMMA TaskMoves ==
  ASSUME TasksInv, NEW t \in Tasks, NEW k, TaskOK(k), k.job = task[t].job,
         task' = [task EXCEPT ![t] = k], UNCHANGED queue
  PROVE  TasksInv'
<1>1. /\ task' = [u \in Tasks |-> task'[u]] /\ task'[t] = k
      /\ \A u \in Tasks : u # t => task'[u] = task[u]
      /\ \A u \in Tasks : task'[u].job = task[u].job
      /\ phase' = phase /\ tries' = tries /\ asks' = asks
  BY DEF TasksInv, queue
<1>2. DeliveryTypeOK'
  BY <1>1 DEF TasksInv, DeliveryTypeOK
<1>3. ASSUME NEW j \in Jobs PROVE AskOK(j)'
  <2>1. (\E u \in Tasks : task'[u].job = j) <=> \E u \in Tasks : task[u].job = j
    BY <1>1
  <2>2. AskOK(j)
    BY DEF TasksInv
  <2>3. QED BY <1>1, <2>1, <2>2 DEF AskOK
<1>4. ASSUME NEW u \in Tasks PROVE TaskOK(task[u])'
  BY <1>1 DEF TasksInv, TaskOK
<1>5. \A u, v \in Tasks : task'[u].job \in Jobs /\ task'[v].job = task'[u].job => u = v
  BY <1>1 DEF TasksInv
<1>6. QED BY <1>1, <1>2, <1>3, <1>4, <1>5 DEF TasksInv

\* A task ends, and its job is settled or put back.
Leaves(j) ==
  \/ Complete(j) /\ Settled(j)
  \/ Retry(j) /\ asks' = asks
  \/ GiveUp(j) /\ Settled(j)
  \/ Lose(j) /\ tries' = tries /\ Settled(j)

LEMMA TaskEnds ==
  ASSUME TasksInv, NEW t \in Tasks, EndTask(t),
         IF IsJob(t) THEN Leaves(task[t].job) ELSE UNCHANGED queue
  PROVE  TasksInv'
<1>1. task' = [u \in Tasks |-> task'[u]] /\ task'[t] = Idle
      /\ \A u \in Tasks : u # t => task'[u] = task[u]
  BY DEF TasksInv, EndTask
<1>2. TaskOK(Idle) /\ TaskOK(Idle)'
  BY PublishingAssumption DEF TaskOK, Idle, TaskFields, Generating
<1>3. CASE ~IsJob(t)
  <2>1. Idle.job = task[t].job
    BY <1>3 DEF TasksInv, TaskOK, IsJob, Idle
  <2>2. QED BY <1>2, <1>3, <2>1, TaskMoves DEF EndTask
<1>4. CASE IsJob(t)
  <2>1. PICK j \in Jobs : /\ j = task[t].job /\ phase[j] = "taken"
                         /\ tries[j] < MaxAttempts /\ tries[j] \in Nat
    BY <1>4 DEF IsJob, TasksInv, AskOK, Live, DeliveryTypeOK
  <2>2. /\ phase' \in [Jobs -> Phases] /\ phase'[j] \notin {"taken", "absent"}
        /\ \A i \in Jobs : i # j => phase'[i] = phase[i]
    BY <1>4, <2>1 DEF Leaves, Complete, Retry, GiveUp, Lose, Move, TasksInv, DeliveryTypeOK, Phases
  <2>3. /\ tries' \in [Jobs -> 0..MaxAttempts]
        /\ \A i \in Jobs : i # j => tries'[i] = tries[i]
        /\ phase'[j] = "waiting" => tries'[j] < MaxAttempts /\ asks' = asks
    BY <1>4, <2>1, PublishingAssumption DEF Leaves, Complete, Retry, GiveUp, Lose, Move, TasksInv,
       DeliveryTypeOK, Phases
  <2>4. asks' = [i \in Jobs |-> asks'[i]] /\ \A i \in Jobs : i # j => asks'[i] = asks[i]
    BY <1>4, <2>1 DEF Leaves, Settled, TasksInv
  <2>5. \A u \in Tasks : u # t => task'[u].job # j
    BY <1>1, <2>1 DEF TasksInv
  <2>6. \A u \in Tasks : task'[u].job # j
    BY <1>1, <2>1, <2>5, PublishingAssumption DEF Idle
  <2>7. AskOK(j)'
    <3>1. AskOK(j)
      BY <2>1 DEF TasksInv
    <3>2. QED BY <2>1, <2>2, <2>3, <2>6, <3>1 DEF AskOK, Live
  <2>8. ASSUME NEW i \in Jobs, i # j PROVE AskOK(i)'
    <3>1. (\E u \in Tasks : task'[u].job = i) <=> \E u \in Tasks : task[u].job = i
      BY <1>1, <2>1, <2>8, PublishingAssumption DEF Idle
    <3>2. QED BY <2>2, <2>3, <2>4, <2>8, <3>1 DEF AskOK, TasksInv
  <2>9. ASSUME NEW u \in Tasks, u # t PROVE TaskOK(task[u])'
    <3>1. TaskOK(task[u]) /\ task'[u] = task[u] /\ task[u].job # j
      BY <1>1, <2>5, <2>9 DEF TasksInv
    <3>2. task[u].job \in Jobs => asks'[task[u].job] = asks[task[u].job]
      BY <2>4, <3>1
    <3>3. QED BY <3>1, <3>2 DEF TaskOK
  <2>10. ASSUME NEW u \in Tasks, NEW v \in Tasks, task'[u].job \in Jobs, task'[v].job = task'[u].job
         PROVE  u = v
    <3>1. u # t /\ v # t
      BY <1>1, <2>10, PublishingAssumption DEF Idle
    <3>2. QED BY <1>1, <2>10, <3>1 DEF TasksInv
  <2>11. \A u \in Tasks : TaskOK(task[u])'
    BY <1>1, <1>2, <2>9
  <2>12. \A i \in Jobs : AskOK(i)'
    BY <2>7, <2>8
  <2>13. QED BY <1>1, <2>2, <2>3, <2>4, <2>10, <2>11, <2>12 DEF TasksInv, DeliveryTypeOK
<1>5. QED BY <1>3, <1>4

\* Succeed and Fail are two of these endings, a crash is the third.
LEMMA OutcomeTasks ==
  ASSUME TasksInv, NEW t \in Tasks, Succeed(t) \/ Fail(t)
  PROVE  TasksInv'
<1>1. EndTask(t)
  BY DEF Succeed, Fail
<1>2. CASE ~IsJob(t)
  BY <1>1, <1>2, TaskEnds DEF Succeed, Fail
<1>3. CASE IsJob(t)
  BY <1>1, <1>3, TaskEnds DEF Succeed, Fail, Leaves
<1>4. QED BY <1>2, <1>3

LEMMA GeneratedTasks ==
  ASSUME TasksInv, NEW t \in Tasks, At(t, "save"), Generated(t)
  PROVE  TasksInv'
<1>1. TaskOK(task[t]) /\ task[t].pc = "save"
  BY DEF TasksInv, At
<1>2. CASE task[t].op = "translate"
  <2> DEFINE k == [task[t] EXCEPT !.pc = "marks"]
  <2>1. TaskOK(k) /\ k.job = task[t].job
    BY <1>1, <1>2 DEF TaskOK, TaskFields, Generating
  <2>2. task' = [task EXCEPT ![t] = k] /\ UNCHANGED queue
    BY <1>2 DEF Generated, GoTo
  <2> HIDE DEF k
  <2>3. QED BY <2>1, <2>2, TaskMoves
<1>3. CASE task[t].op = "generate_all"
  <2> DEFINE k == [task[t] EXCEPT !.pc = "next", !.ids = {}, !.text = NoText]
  <2>1. task[t].job \notin Jobs
    <3> SUFFICES ASSUME task[t].job \in Jobs PROVE FALSE
      OBVIOUS
    <3>1. phase[task[t].job] = "taken" /\ AskOK(task[t].job)
      BY DEF TasksInv, AskOK
    <3>2. asks[task[t].job] \in {"generate", "translate"} \X Sources
      BY <3>1 DEF AskOK, Live
    <3>3. asks[task[t].job][1] = "generate_all"
      BY <1>1, <1>3 DEF TaskOK
    <3>4. QED BY <3>2, <3>3
  <2>2. TaskOK(k) /\ k.job = task[t].job
    BY <1>1, <1>3, <2>1 DEF TaskOK, TaskFields, Generating
  <2>3. task' = [task EXCEPT ![t] = k] /\ UNCHANGED queue
    BY <1>3 DEF Generated
  <2> HIDE DEF k
  <2>4. QED BY <2>2, <2>3, TaskMoves
<1>4. CASE task[t].op \notin {"translate", "generate_all"}
  BY <1>4, OutcomeTasks DEF Generated
<1>5. QED BY <1>2, <1>3, <1>4

LEMMA EnqueueTasks ==
  ASSUME TasksInv, NEW js \in SUBSET Jobs, NEW what \in {"generate", "translate"},
         NEW of \in [js -> Sources], \A j \in js : phase[j] = "absent",
         asks' = [j \in Jobs |-> IF j \in js THEN <<what, of[j]>> ELSE asks[j]],
         phase' = [j \in Jobs |-> IF j \in js THEN "waiting" ELSE phase[j]],
         tries' = tries, task' = [t \in Tasks |-> task'[t]],
         \A t \in Tasks : /\ DOMAIN task'[t] = TaskFields /\ task'[t].todo \subseteq Sources
                          /\ task'[t].pc = task[t].pc /\ task'[t].op = task[t].op
                          /\ task'[t].job = task[t].job /\ task'[t].source = task[t].source
  PROVE  TasksInv'
<1>1. \A j \in js : \A t \in Tasks : task[t].job # j
  BY DEF TasksInv, AskOK
<1>2. ASSUME NEW j \in Jobs PROVE AskOK(j)'
  <2>1. AskOK(j) /\ ((\E t \in Tasks : task'[t].job = j) <=> \E t \in Tasks : task[t].job = j)
    BY DEF TasksInv
  <2>2. CASE j \in js
    BY <1>1, <2>1, <2>2, PublishingAssumption DEF AskOK, Live
  <2>3. CASE j \notin js
    BY <2>1, <2>3 DEF AskOK
  <2>4. QED BY <2>2, <2>3
<1>3. ASSUME NEW t \in Tasks PROVE TaskOK(task[t])'
  <2>1. TaskOK(task[t])
    BY DEF TasksInv
  <2>2. task[t].job \in Jobs => asks'[task[t].job] = asks[task[t].job]
    BY <1>1
  <2>3. QED BY <2>1, <2>2 DEF TaskOK
<1>4. DeliveryTypeOK'
  BY DEF TasksInv, DeliveryTypeOK, Phases
<1>5. asks' = [j \in Jobs |-> asks'[j]]
  OBVIOUS
<1>6. QED BY <1>2, <1>3, <1>4, <1>5 DEF TasksInv

\* A field that jobs and tasks do not depend on.
LEMMA SameTasks ==
  ASSUME TasksInv, UNCHANGED queue, task' = [t \in Tasks |-> task'[t]],
         \A t \in Tasks : /\ DOMAIN task'[t] = TaskFields /\ task'[t].todo = task[t].todo
                          /\ task'[t].pc = task[t].pc /\ task'[t].op = task[t].op
                          /\ task'[t].job = task[t].job /\ task'[t].source = task[t].source
  PROVE  TasksInv'
<1>1. phase' = phase /\ tries' = tries /\ asks' = asks
  BY DEF queue
<1>2. ASSUME NEW j \in Jobs PROVE AskOK(j)'
  <2>1. AskOK(j) /\ ((\E t \in Tasks : task'[t].job = j) <=> \E t \in Tasks : task[t].job = j)
    BY DEF TasksInv
  <2>2. QED BY <1>1, <2>1 DEF AskOK
<1>3. ASSUME NEW t \in Tasks PROVE TaskOK(task[t])'
  BY <1>1 DEF TasksInv, TaskOK
<1>4. DeliveryTypeOK'
  BY <1>1 DEF TasksInv, DeliveryTypeOK
<1>5. QED BY <1>1, <1>2, <1>3, <1>4 DEF TasksInv

LEMMA UntouchedTasks ==
  ASSUME TasksInv, UNCHANGED <<queue, task>>
  PROVE  TasksInv'
BY SameTasks DEF TasksInv, TaskOK

LEMMA StepTasks ==
  ASSUME TasksInv, NEW t \in Tasks, Step(t)
  PROVE  TasksInv'
<1>1. TaskOK(task[t])
  BY DEF TasksInv
<1>2. TaskOK(Idle)
  BY PublishingAssumption DEF TaskOK, Idle, TaskFields, Generating
<1>3. CASE Load(t)
  <2> DEFINE k == [task[t] EXCEPT !.pc = "find", !.text = Rendered(row[task[t].source])]
  <2>1. TaskOK(k) /\ k.job = task[t].job
    BY <1>1, <1>3 DEF Load, At, TaskOK, TaskFields, Generating
  <2>2. task' = [task EXCEPT ![t] = k] /\ UNCHANGED queue
    BY <1>3 DEF Load
  <2> HIDE DEF k
  <2>3. QED BY <2>1, <2>2, TaskMoves
<1>4. CASE Find(t)
  <2> DEFINE k == [task[t] EXCEPT !.pc = "save", !.ids = {profile[task[t].source].id}]
  <2>1. TaskOK(k) /\ k.job = task[t].job
    BY <1>1, <1>4 DEF Find, At, TaskOK, TaskFields, Generating
  <2>2. task' = [task EXCEPT ![t] = k] /\ UNCHANGED queue
    BY <1>4 DEF Find
  <2> HIDE DEF k
  <2>3. QED BY <2>1, <2>2, TaskMoves
<1>5. CASE Save(t)
  BY <1>5, GeneratedTasks, OutcomeTasks DEF Save, SaveOverFound, SaveOverNone, SaveTooLate,
     SaveUpdate, NotGenerated
<1>6. CASE GenerateFails(t) \/ TranslateRaises(t) \/ TranslateNothing(t)
  BY <1>6, OutcomeTasks DEF GenerateFails, NotGenerated, TranslateRaises, TranslateNothing
<1>7. ASSUME NEW s \in Sources, GenerateNext(t, s) PROVE TasksInv'
  <2> DEFINE k == [task[t] EXCEPT !.todo = task[t].todo \ {s}, !.source = s,
                                  !.pc = IF Exists(s) THEN "next" ELSE "load"]
  <2>1. TaskOK(k) /\ k.job = task[t].job
    BY <1>1, <1>7 DEF GenerateNext, At, TaskOK, TaskFields, Generating
  <2>2. task' = [task EXCEPT ![t] = k] /\ UNCHANGED queue
    BY <1>7 DEF GenerateNext
  <2> HIDE DEF k
  <2>3. QED BY <2>1, <2>2, TaskMoves
<1>8. CASE EndGenerateAll(t) \/ CommitRegeneration(t) \/ EndRevalidate(t) \/ EndEnglish(t)
  <2>1. task' = [task EXCEPT ![t] = Idle] /\ UNCHANGED queue
    BY <1>8 DEF EndGenerateAll, CommitRegeneration, EndRevalidate, EndEnglish, EndTask
  <2>2. Idle.job = task[t].job
    BY <1>1, <1>8 DEF EndGenerateAll, CommitRegeneration, EndRevalidate, EndEnglish, At, TaskOK,
       Generating, Idle
  <2>3. QED BY <1>2, <2>1, <2>2, TaskMoves
<1>9. ASSUME NEW s \in Sources, QueueRegenerationFails(t, s) PROVE TasksInv'
  <2> DEFINE k == [task[t] EXCEPT !.todo = task[t].todo \ {s}]
  <2>1. TaskOK(k) /\ k.job = task[t].job
    BY <1>1 DEF TaskOK, TaskFields
  <2>2. task' = [task EXCEPT ![t] = k] /\ UNCHANGED queue
    BY <1>9 DEF QueueRegenerationFails
  <2> HIDE DEF k
  <2>3. QED BY <2>1, <2>2, TaskMoves
<1>10. ASSUME NEW s \in Sources, NEW j \in Jobs, QueueRegeneration(t, s, j) PROVE TasksInv'
  <2>1. /\ task' = [task EXCEPT ![t].todo = task[t].todo \ {s}]
        /\ phase[j] = "absent" /\ phase' = [phase EXCEPT ![j] = "waiting"] /\ tries' = tries
        /\ asks' = [asks EXCEPT ![j] = <<"generate", s>>]
    BY <1>10 DEF QueueRegeneration, Enqueue, Submit, Move
  <2>2. /\ task' = [u \in Tasks |-> task'[u]]
        /\ \A u \in Tasks :
             /\ DOMAIN task'[u] = TaskFields /\ task'[u].todo \subseteq Sources
             /\ task'[u].pc = task[u].pc /\ task'[u].op = task[u].op
             /\ task'[u].job = task[u].job /\ task'[u].source = task[u].source
    BY <2>1 DEF TasksInv, TaskOK, TaskFields
  <2> DEFINE js == {j}  of == [i \in js |-> s]
  <2>3. /\ asks' = [i \in Jobs |-> IF i \in js THEN <<"generate", of[i]>> ELSE asks[i]]
        /\ phase' = [i \in Jobs |-> IF i \in js THEN "waiting" ELSE phase[i]]
    BY <2>1 DEF TasksInv, DeliveryTypeOK
  <2>4. js \in SUBSET Jobs /\ of \in [js -> Sources] /\ \A i \in js : phase[i] = "absent"
    BY <2>1
  <2> HIDE DEF js, of
  <2>5. QED BY <2>1, <2>2, <2>3, <2>4, EnqueueTasks
<1>11. CASE Crash(t)
  BY <1>11, TaskEnds DEF Crash, Leaves
<1>12. QED BY <1>3, <1>4, <1>5, <1>6, <1>7, <1>8, <1>9, <1>10, <1>11 DEF Step

LEMMA StartTasks ==
  ASSUME TasksInv, NEW t \in Tasks, StartTask(t)
  PROVE  TasksInv'
<1>1. ASSUME NEW j \in Jobs, TakeJob(t, j) PROVE TasksInv'
  <2> DEFINE k == [Idle EXCEPT !.op = asks[j][1], !.source = asks[j][2], !.job = j,
                     !.pc = IF asks[j][1] = "translate" /\ Exists(asks[j][2])
                            THEN "marks" ELSE "load"]
  <2>1. /\ task[t] = Idle /\ task' = [task EXCEPT ![t] = k] /\ asks' = asks
        /\ phase[j] = "waiting" /\ phase' = [phase EXCEPT ![j] = "taken"] /\ tries' = tries
    BY <1>1 DEF TakeJob, BeginTask, Take, Move
  <2>2. asks[j] \in {"generate", "translate"} \X Sources
    BY <2>1 DEF TasksInv, AskOK, Live
  <2>3. TaskOK(k) /\ k.job = j
    BY <2>2 DEF TaskOK, Idle, TaskFields, Generating
  <2>4. \A u \in Tasks : task[u].job # j
    BY <2>1 DEF TasksInv, AskOK
  <2> HIDE DEF k
  <2>5. /\ task' = [u \in Tasks |-> task'[u]] /\ task'[t] = k
        /\ \A u \in Tasks : u # t => task'[u] = task[u]
    BY <2>1 DEF TasksInv
  <2>6. ASSUME NEW i \in Jobs PROVE AskOK(i)'
    <3>1. AskOK(i) /\ task[t].job # i
      BY <2>1, PublishingAssumption DEF TasksInv, Idle
    <3>2. (\E u \in Tasks : task'[u].job = i) <=> (\E u \in Tasks : task[u].job = i) \/ i = j
      BY <2>3, <2>5, <3>1
    <3>3. phase'[i] = IF i = j THEN "taken" ELSE phase[i]
      BY <2>1 DEF TasksInv, DeliveryTypeOK
    <3>4. QED BY <2>1, <3>1, <3>2, <3>3 DEF AskOK, Live
  <2>7. ASSUME NEW u \in Tasks PROVE TaskOK(task[u])'
    <3>1. TaskOK(task'[u])
      BY <2>3, <2>5 DEF TasksInv
    <3>2. QED BY <2>1, <3>1 DEF TaskOK
  <2>8. \A u, v \in Tasks : task'[u].job \in Jobs /\ task'[v].job = task'[u].job => u = v
    BY <2>3, <2>4, <2>5 DEF TasksInv
  <2>9. DeliveryTypeOK' /\ asks' = [i \in Jobs |-> asks'[i]]
    BY <2>1 DEF TasksInv, DeliveryTypeOK, Phases
  <2>10. QED BY <2>5, <2>6, <2>7, <2>8, <2>9 DEF TasksInv
<1>2. ASSUME NEW k, task[t] = Idle, task' = [task EXCEPT ![t] = k], UNCHANGED queue,
             DOMAIN k = TaskFields, k.job = "none", k.todo \subseteq Sources,
             k.pc \in Generating => k.source \in Sources, k.pc # "marks",
             k.op = "regenerate_all" <=> k.pc = "queue"
      PROVE  TasksInv'
  <2>1. TaskOK(k) /\ k.job = task[t].job
    BY <1>2, PublishingAssumption DEF TaskOK, Idle
  <2>2. QED BY <1>2, <2>1, TaskMoves
<1>3. ASSUME NEW op \in {"revalidate_all", "revalidate_missing", "revalidate_source"}, NEW s,
             BeginRevalidate(t, op, s)
      PROVE  TasksInv'
  <2> DEFINE k == [Idle EXCEPT !.op = op, !.pc = "validating",
                     !.read = [p \in Picked(op, s) |-> row[p[1]][p[2]]]]
  <2>1. task[t] = Idle /\ task' = [task EXCEPT ![t] = k] /\ UNCHANGED queue
    BY <1>3 DEF BeginRevalidate, BeginTask
  <2>2. DOMAIN k = TaskFields /\ k.job = "none" /\ k.todo = {} /\ k.pc = "validating" /\ k.op = op
    BY DEF Idle, TaskFields
  <2> HIDE DEF k
  <2>3. QED BY <1>2, <2>1, <2>2 DEF Generating
<1>4. ASSUME NEW s \in Sources, Regenerate(t, s) PROVE TasksInv'
  <2> DEFINE k == [Idle EXCEPT !.op = "regenerate", !.source = s, !.pc = "load"]
  <2>1. task[t] = Idle /\ task' = [task EXCEPT ![t] = k] /\ UNCHANGED queue
    BY <1>4 DEF Regenerate, BeginTask
  <2>2. /\ DOMAIN k = TaskFields /\ k.job = "none" /\ k.todo = {} /\ k.pc = "load"
        /\ k.op = "regenerate" /\ k.source = s
    BY DEF Idle, TaskFields
  <2> HIDE DEF k
  <2>3. QED BY <1>2, <2>1, <2>2
<1>5. CASE GenerateAll(t)
  <2> DEFINE k == [Idle EXCEPT !.op = "generate_all", !.pc = "next", !.todo = Completed]
  <2>1. task[t] = Idle /\ task' = [task EXCEPT ![t] = k] /\ UNCHANGED queue
    BY <1>5 DEF GenerateAll, BeginTask
  <2>2. /\ DOMAIN k = TaskFields /\ k.job = "none" /\ k.todo \subseteq Sources
        /\ k.pc = "next" /\ k.op = "generate_all"
    BY DEF Idle, TaskFields, Completed
  <2> HIDE DEF k
  <2>3. QED BY <1>2, <2>1, <2>2 DEF Generating
<1>6. CASE RegenerateAll(t)
  <2> DEFINE k == [Idle EXCEPT !.op = "regenerate_all", !.pc = "queue", !.todo = Completed,
                     !.ids = {profile[s].id : s \in {r \in Sources : Exists(r)}}]
  <2>1. task[t] = Idle /\ task' = [task EXCEPT ![t] = k] /\ UNCHANGED queue
    BY <1>6 DEF RegenerateAll, BeginTask
  <2>2. /\ DOMAIN k = TaskFields /\ k.job = "none" /\ k.todo \subseteq Sources
        /\ k.pc = "queue" /\ k.op = "regenerate_all"
    BY DEF Idle, TaskFields, Completed
  <2> HIDE DEF k
  <2>3. QED BY <1>2, <2>1, <2>2 DEF Generating
<1>7. CASE BeginEnglish(t)
  <2> DEFINE k == [Idle EXCEPT !.op = "english", !.pc = "english",
                     !.read = [s \in {r \in Sources : profile[r].published} |-> profile[s]]]
  <2>1. task[t] = Idle /\ task' = [task EXCEPT ![t] = k] /\ UNCHANGED queue
    BY <1>7 DEF BeginEnglish, BeginTask
  <2>2. /\ DOMAIN k = TaskFields /\ k.job = "none" /\ k.todo = {}
        /\ k.pc = "english" /\ k.op = "english"
    BY DEF Idle, TaskFields
  <2> HIDE DEF k
  <2>3. QED BY <1>2, <2>1, <2>2 DEF Generating
<1>8. QED BY <1>1, <1>3, <1>4, <1>5, <1>6, <1>7 DEF StartTask

LEMMA RequestTasks ==
  ASSUME TasksInv, Request
  PROVE  TasksInv'
<1>1. ASSUME NEW s \in Sources, ReExtract(s) PROVE TasksInv'
  <2> DEFINE Reread(u) == [p \in DOMAIN task[u].read |->
                             IF p[1] = s THEN NoRow ELSE task[u].read[p]]
  <2>1. /\ task' = [u \in Tasks |-> IF task[u].pc # "validating" THEN task[u]
                                    ELSE [task[u] EXCEPT !.read = Reread(u)]]
        /\ UNCHANGED queue
    BY <1>1 DEF ReExtract
  <2> HIDE DEF Reread
  <2>2. QED BY <2>1, SameTasks DEF TasksInv, TaskOK, TaskFields
<1>2. ASSUME NEW op \in {"queue_translations", "queue_all_translations", "translate_profiles"},
             QueueTranslations(op)
      PROVE  TasksInv'
  <2> DEFINE set == NeedTranslation(op)
  <2>1. set \subseteq Sources
    BY DEF NeedTranslation
  <2>2. task' = task /\ EnqueueAll("translate", set)
    BY <1>2 DEF QueueTranslations
  <2> HIDE DEF set
  <2>3. PICK js \in SUBSET Jobs :
          /\ \A j \in js : phase[j] = "absent"
          /\ \E of \in [js -> Sources] :
               asks' = [j \in Jobs |-> IF j \in js THEN <<"translate", of[j]>> ELSE asks[j]]
          /\ phase' = [j \in Jobs |-> IF j \in js THEN "waiting" ELSE phase[j]]
          /\ tries' = tries
    BY <2>1, <2>2 DEF EnqueueAll
  <2>4. PICK of \in [js -> Sources] :
          asks' = [j \in Jobs |-> IF j \in js THEN <<"translate", of[j]>> ELSE asks[j]]
    BY <2>3
  <2>5. /\ task' = [t \in Tasks |-> task'[t]]
        /\ \A t \in Tasks :
             /\ DOMAIN task'[t] = TaskFields /\ task'[t].todo \subseteq Sources
             /\ task'[t].pc = task[t].pc /\ task'[t].op = task[t].op
             /\ task'[t].job = task[t].job /\ task'[t].source = task[t].source
    BY <2>2 DEF TasksInv, TaskOK
  <2> DEFINE what == "translate"
  <2>6. what \in {"generate", "translate"}
    OBVIOUS
  <2>7. asks' = [j \in Jobs |-> IF j \in js THEN <<what, of[j]>> ELSE asks[j]]
    BY <2>4
  <2> HIDE DEF what
  <2>8. QED BY <2>3, <2>5, <2>6, <2>7, EnqueueTasks
<1>3. ASSUME NEW s \in Sources, NEW f \in Fields, NEW v, EditExtraction(s, f, v) PROVE TasksInv'
  BY <1>3, UntouchedTasks DEF EditExtraction
<1>4. ASSUME NEW s \in Sources, \/ WriteProfile(s) \/ DeleteProfile(s) \/ Publish(s)
                                \/ Unpublish(s) \/ TranslateSource(s)
      PROVE  TasksInv'
  BY <1>4, UntouchedTasks DEF WriteProfile, DeleteProfile, Publish, Unpublish, TranslateSource
<1>5. CASE PublishAll \/ TranslatePending
  BY <1>5, UntouchedTasks DEF PublishAll, TranslatePending
<1>6. QED BY <1>1, <1>2, <1>3, <1>4, <1>5 DEF Request

LEMMA NextTasks == TasksInv /\ [PNext]_pvars => TasksInv'
<1> SUFFICES ASSUME TasksInv, [PNext]_pvars PROVE TasksInv'
  OBVIOUS
<1>1. CASE Store \/ UNCHANGED pvars
  BY <1>1, UntouchedTasks DEF Store, StoreExtraction, pvars
<1>2. QED BY <1>1, StepTasks, StartTasks, RequestTasks DEF PNext

-----------------------------------------------------------------------------
(***************************************************************************)
(* Rows and what is read of them                                           *)
(***************************************************************************)
\* A row without a value is no row, and who has loaded one and still believes
\* in it is right that it is there.
RowsInv ==
  /\ row \in [Sources -> [Fields -> Rows]]
  /\ \A s \in Sources, f \in Fields : row[s][f].val = "none" => row[s][f] = NoRow
  /\ \A t \in Tasks : task[t].pc = "validating" =>
       /\ DOMAIN task[t].read \subseteq Sources \X Fields
       /\ \A p \in DOMAIN task[t].read :
            task[t].read[p] # NoRow => row[p[1]][p[2]].val # "none"

\* No revalidation holds a row whose edit is to be kept.
KeptInv ==
  /\ kept \subseteq Sources \X Fields
  /\ EditKept
  /\ \A p \in kept, t \in Tasks :
       task[t].pc = "validating" => p \notin DOMAIN task[t].read

\* A step of a task touches no other, and begins no revalidation.
LEMMA StepReads ==
  ASSUME TasksInv, NEW t \in Tasks, Step(t)
  PROVE  /\ \A u \in Tasks : u # t => task'[u] = task[u]
         /\ task'[t].pc \notin {"validating", "english"}
<1>1. TaskOK(task[t]) /\ task = [u \in Tasks |-> task[u]]
  BY DEF TasksInv
<1>2. CASE task' = [task EXCEPT ![t] = Idle]
  BY <1>1, <1>2 DEF Idle
<1>3. CASE Load(t) \/ Find(t)
  BY <1>1, <1>3 DEF Load, Find, TaskOK, TaskFields
<1>4. CASE Generated(t)
  BY <1>1, <1>2, <1>4 DEF Generated, GoTo, Succeed, EndTask, TaskOK, TaskFields
<1>5. CASE Save(t)
  BY <1>2, <1>4, <1>5 DEF Save, SaveOverFound, SaveOverNone, SaveTooLate, SaveUpdate,
     NotGenerated, Fail, EndTask
<1>6. ASSUME NEW s \in Sources,
             \/ GenerateNext(t, s) \/ QueueRegenerationFails(t, s)
             \/ \E j \in Jobs : QueueRegeneration(t, s, j)
      PROVE  /\ \A u \in Tasks : u # t => task'[u] = task[u]
             /\ task'[t].pc \notin {"validating", "english"}
  <2>1. CASE GenerateNext(t, s)
    BY <1>1, <2>1 DEF GenerateNext, TaskOK, TaskFields
  <2>2. CASE QueueRegenerationFails(t, s) \/ \E j \in Jobs : QueueRegeneration(t, s, j)
    <3>1. task' = [task EXCEPT ![t].todo = task[t].todo \ {s}] /\ task[t].pc = "queue"
      BY <2>2 DEF QueueRegenerationFails, QueueRegeneration, At
    <3>2. QED BY <1>1, <3>1 DEF TaskOK, TaskFields
  <2>3. QED BY <1>6, <2>1, <2>2
<1>7. CASE \/ GenerateFails(t) \/ EndGenerateAll(t) \/ CommitRegeneration(t) \/ TranslateRaises(t)
           \/ TranslateNothing(t) \/ EndRevalidate(t) \/ EndEnglish(t) \/ Crash(t)
  BY <1>2, <1>7 DEF GenerateFails, NotGenerated, EndGenerateAll, CommitRegeneration,
     TranslateRaises, TranslateNothing, EndRevalidate, EndEnglish, Crash, Succeed, Fail, EndTask
<1>8. QED BY <1>3, <1>5, <1>6, <1>7 DEF Step

\* No row goes, and nobody reads another.
LEMMA RowsStay ==
  ASSUME RowsInv, row' \in [Sources -> [Fields -> Rows]],
         \A s \in Sources, f \in Fields : row'[s][f].val = "none" => row'[s][f] = row[s][f],
         \A t \in Tasks : task'[t].pc = "validating" =>
           task[t].pc = "validating" /\ task'[t].read = task[t].read
  PROVE  RowsInv'
<1>1. \A s \in Sources, f \in Fields : row'[s][f].val = "none" => row'[s][f] = NoRow
  BY DEF RowsInv
<1>2. ASSUME NEW t \in Tasks, task'[t].pc = "validating", NEW p \in DOMAIN task'[t].read,
             task'[t].read[p] # NoRow
      PROVE  row'[p[1]][p[2]].val # "none"
  <2>1. p[1] \in Sources /\ p[2] \in Fields /\ row[p[1]][p[2]].val # "none"
    BY <1>2 DEF RowsInv
  <2>2. QED BY <2>1
<1>3. QED BY <1>1, <1>2 DEF RowsInv

\* The marks of a translation are no values.
LEMMA SkippedRows ==
  ASSUME RowsInv, NEW s, NEW fs \in SUBSET Pending(s)
  PROVE  /\ Skipped(s, fs) \in [Sources -> [Fields -> Rows]]
         /\ \A r \in Sources, f \in Fields :
              /\ Skipped(s, fs)[r][f].val = row[r][f].val
              /\ row[r][f].val = "none" => Skipped(s, fs)[r][f] = row[r][f]
<1>1. row \in [Sources -> [Fields -> Rows]]
  BY DEF RowsInv
<1>2. CASE s \notin Sources
  <2>1. Skipped(s, fs) = row
    BY <1>1, <1>2 DEF Skipped
  <2>2. QED BY <1>1, <2>1
<1>3. CASE s \in Sources
  <2> DEFINE new == [f \in Fields |-> IF f \in fs THEN [row[s][f] EXCEPT !.mark = "skipped"]
                                                  ELSE row[s][f]]
  <2>1. ASSUME NEW f \in Fields
        PROVE  /\ new[f] \in Rows /\ new[f].val = row[s][f].val
               /\ row[s][f].val = "none" => new[f] = row[s][f]
    <3>1. row[s][f] \in Rows
      BY <1>1, <1>3
    <3>2. CASE f \in fs
      BY <3>1, <3>2 DEF Pending, HasResult, Rows
    <3>3. CASE f \notin fs
      BY <3>1, <3>3
    <3>4. QED BY <3>2, <3>3
  <2>2. new \in [Fields -> Rows]
    BY <2>1
  <2>3. Skipped(s, fs) = [row EXCEPT ![s] = new]
    BY DEF Skipped
  <2> HIDE DEF new
  <2>4. QED BY <1>1, <1>3, <2>1, <2>2, <2>3
<1>4. QED BY <1>2, <1>3

\* A revalidation writes its answers, or what is there stays.
LEMMA RevalidatedRow ==
  ASSUME RowsInv, NEW s \in Sources, NEW f \in Fields, NEW loaded, NEW a \in Answers,
         row[s][f].val # "none"
  PROVE  /\ Revalidated(<<s, f>>, loaded, a) \in Rows
         /\ Revalidated(<<s, f>>, loaded, a).val # "none"
<1>1. row[s][f] \in Rows
  BY DEF RowsInv
<1> DEFINE v == Sent(loaded.val, a.val, row[s][f].val)
           b == Sent(loaded.sure, a.sure, row[s][f].sure)
<1>2. v \in Vals /\ b \in BOOLEAN
  <2>1. a.val \in Vals /\ a.sure \in BOOLEAN
    <3>1. CASE a = [val |-> "first", sure |-> FALSE]
      BY <3>1 DEF Vals
    <3>2. CASE a = [val |-> "second", sure |-> TRUE]
      BY <3>2 DEF Vals
    <3>3. QED BY <3>1, <3>2 DEF Answers
  <2>2. row[s][f].val \in Vals /\ row[s][f].sure \in BOOLEAN
    BY <1>1 DEF Rows
  <2>3. v \in Vals
    BY <2>1, <2>2 DEF Sent
  <2>4. b \in BOOLEAN
    BY <2>1, <2>2 DEF Sent
  <2>5. QED BY <2>3, <2>4
<1>3. Revalidated(<<s, f>>, loaded, a) = [row[s][f] EXCEPT !.val = v, !.sure = b]
  BY <1>1 DEF Revalidated, Rows
<1> HIDE DEF v, b
<1>4. QED BY <1>1, <1>2, <1>3 DEF Rows, Vals

LEMMA ExtractedRows == Extracted \subseteq Rows /\ \A r \in Extracted : r.val # "none"
BY DEF Extracted, Rows, Vals

LEMMA InitRows == PInit => RowsInv /\ KeptInv
<1> SUFFICES ASSUME PInit PROVE RowsInv /\ KeptInv
  OBVIOUS
<1>1. row \in [Sources -> [Fields -> Extracted]] /\ kept = {}
  BY DEF PInit
<1>2. \A t \in Tasks : task[t].pc = "none"
  BY DEF PInit, Idle
<1>3. QED BY <1>1, <1>2, ExtractedRows DEF RowsInv, KeptInv, EditKept

\* A revalidation ends: it writes rows that it has loaded, and none of them is
\* a kept one.
LEMMA EndRevalidateRows ==
  ASSUME TasksInv, RowsInv, KeptInv, NEW t \in Tasks, EndRevalidate(t)
  PROVE  /\ row' \in [Sources -> [Fields -> Rows]]
         /\ \A s \in Sources, f \in Fields : row'[s][f].val = "none" => row'[s][f] = row[s][f]
         /\ \A p \in kept : row'[p[1]][p[2]] = row[p[1]][p[2]]
<1> DEFINE seen == task[t].read
<1>1. task[t].pc = "validating" /\ row \in [Sources -> [Fields -> Rows]]
  BY DEF EndRevalidate, At, RowsInv
<1>2. PICK done \in SUBSET DOMAIN seen :
        \E a \in [done -> Answers] :
          row' = IF \E p \in done : seen[p] = NoRow THEN row
                 ELSE [s \in Sources |-> [f \in Fields |->
                        IF <<s, f>> \in done
                        THEN Revalidated(<<s, f>>, seen[<<s, f>>], a[<<s, f>>])
                        ELSE row[s][f]]]
  BY DEF EndRevalidate
<1>3. PICK a \in [done -> Answers] :
        row' = IF \E p \in done : seen[p] = NoRow THEN row
               ELSE [s \in Sources |-> [f \in Fields |->
                      IF <<s, f>> \in done
                      THEN Revalidated(<<s, f>>, seen[<<s, f>>], a[<<s, f>>])
                      ELSE row[s][f]]]
  BY <1>2
<1>4. CASE \E p \in done : seen[p] = NoRow
  BY <1>1, <1>3, <1>4
<1>5. CASE \A p \in done : seen[p] # NoRow
  <2>1. ASSUME NEW s \in Sources, NEW f \in Fields, <<s, f>> \in done
        PROVE  /\ Revalidated(<<s, f>>, seen[<<s, f>>], a[<<s, f>>]) \in Rows
               /\ Revalidated(<<s, f>>, seen[<<s, f>>], a[<<s, f>>]).val # "none"
               /\ <<s, f>> \notin kept
    <3>1. seen[<<s, f>>] # NoRow /\ <<s, f>> \in DOMAIN seen
      BY <1>5, <2>1
    <3>2. row[s][f].val # "none"
      BY <1>1, <3>1 DEF RowsInv
    <3>3. a[<<s, f>>] \in Answers
      BY <2>1
    <3>4. <<s, f>> \notin kept
      BY <1>1, <3>1 DEF KeptInv
    <3>5. QED BY <3>2, <3>3, <3>4, RevalidatedRow
  <2> DEFINE new(s, f) == Revalidated(<<s, f>>, seen[<<s, f>>], a[<<s, f>>])
  <2>2. row' = [s \in Sources |-> [f \in Fields |->
                  IF <<s, f>> \in done THEN new(s, f) ELSE row[s][f]]]
    BY <1>3, <1>5
  <2>3. \A s \in Sources, f \in Fields : <<s, f>> \in done =>
          new(s, f) \in Rows /\ new(s, f).val # "none" /\ <<s, f>> \notin kept
    BY <2>1
  <2> HIDE DEF new, seen
  <2>4. row' \in [Sources -> [Fields -> Rows]]
    BY <1>1, <2>2, <2>3
  <2>5. \A s \in Sources, f \in Fields :
          /\ row'[s][f].val = "none" => row'[s][f] = row[s][f]
          /\ <<s, f>> \in kept => row'[s][f] = row[s][f]
    BY <2>2, <2>3
  <2>6. ASSUME NEW p \in kept PROVE row'[p[1]][p[2]] = row[p[1]][p[2]]
    <3>1. p[1] \in Sources /\ p[2] \in Fields /\ p = <<p[1], p[2]>>
      BY DEF KeptInv
    <3>2. QED BY <2>5, <3>1
  <2>7. QED BY <2>4, <2>5, <2>6
<1>6. QED BY <1>4, <1>5

LEMMA StepRows ==
  ASSUME TasksInv, RowsInv, KeptInv, NEW t \in Tasks, Step(t)
  PROVE  RowsInv' /\ KeptInv'
<1>1. /\ \A u \in Tasks : u # t => task'[u] = task[u]
      /\ task'[t].pc # "validating"
  BY StepReads
<1>2. \A u \in Tasks : task'[u].pc = "validating" =>
        task[u].pc = "validating" /\ task'[u].read = task[u].read
  BY <1>1
<1>3. kept' = kept
  BY DEF Step, Load, Find, Save, GenerateFails, GenerateNext, EndGenerateAll, QueueRegeneration,
     QueueRegenerationFails, CommitRegeneration, TranslateRaises, TranslateNothing, EndRevalidate,
     EndEnglish, Crash, ghosts
<1>4. /\ row' \in [Sources -> [Fields -> Rows]]
      /\ \A s \in Sources, f \in Fields : row'[s][f].val = "none" => row'[s][f] = row[s][f]
      /\ \A p \in kept : row'[p[1]][p[2]].val = row[p[1]][p[2]].val
  <2>1. CASE TranslateRaises(t) \/ TranslateNothing(t)
    <3>1. \E fs \in SUBSET Pending(task[t].source) : row' = Skipped(task[t].source, fs)
      BY <2>1 DEF TranslateRaises, TranslateNothing
    <3>2. PICK fs \in SUBSET Pending(task[t].source) : row' = Skipped(task[t].source, fs)
      BY <3>1
    <3>3. /\ row' \in [Sources -> [Fields -> Rows]]
          /\ \A s \in Sources, f \in Fields :
               row'[s][f].val = row[s][f].val /\ (row[s][f].val = "none" => row'[s][f] = row[s][f])
      BY <3>2, SkippedRows
    <3>4. \A p \in kept : p[1] \in Sources /\ p[2] \in Fields
      BY DEF KeptInv
    <3>5. QED BY <3>3, <3>4
  <2>2. CASE EndRevalidate(t)
    BY <2>2, EndRevalidateRows
  <2>3. CASE row' = row
    BY <2>3 DEF RowsInv
  <2>4. QED BY <2>1, <2>2, <2>3 DEF Step, Load, Find, Save, GenerateFails, GenerateNext,
           EndGenerateAll, QueueRegeneration, QueueRegenerationFails, CommitRegeneration,
           EndEnglish, Crash, tables
<1>5. RowsInv'
  BY <1>2, <1>4, RowsStay
<1>6. KeptInv'
  BY <1>2, <1>3, <1>4 DEF KeptInv, EditKept
<1>7. QED BY <1>5, <1>6

LEMMA StartRows ==
  ASSUME TasksInv, RowsInv, KeptInv, NEW t \in Tasks, StartTask(t)
  PROVE  RowsInv' /\ KeptInv'
<1>1. ASSUME NEW op \in {"revalidate_all", "revalidate_missing", "revalidate_source"}, NEW s,
             op = "revalidate_source" => s \in Sources, BeginRevalidate(t, op, s)
      PROVE  RowsInv' /\ KeptInv'
  <2> DEFINE picked == Picked(op, s)
             read == [p \in picked |-> row[p[1]][p[2]]]
             k == [Idle EXCEPT !.op = op, !.pc = "validating", !.read = read]
  <2>1. /\ row' = row /\ task' = [task EXCEPT ![t] = k]
        /\ kept' = IF op = "revalidate_missing" THEN kept ELSE kept \ picked
    BY <1>1 DEF BeginRevalidate, BeginTask, tables
  <2>2. k.pc = "validating" /\ k.read = read
    BY DEF Idle
  <2>3. /\ picked \subseteq Sources \X Fields
        /\ \A p \in picked : row[p[1]][p[2]].val # "none"
        /\ op = "revalidate_missing" => \A p \in picked : row[p[1]][p[2]].val = "raw"
    <3>1. CASE op = "revalidate_source"
      BY <1>1, <3>1 DEF Picked, HasRaw
    <3>2. CASE op = "revalidate_all"
      BY <3>2 DEF Picked, HasRaw
    <3>3. CASE op = "revalidate_missing"
      BY <3>3 DEF Picked, Missing
    <3>4. QED BY <3>1, <3>2, <3>3
  <2>4. \A p \in picked : p \notin kept'
    BY <2>1, <2>3 DEF KeptInv, EditKept
  <2> HIDE DEF k, picked
  <2>5. /\ \A u \in Tasks : u # t => task'[u] = task[u]
        /\ task'[t].pc = "validating" /\ task'[t].read = read
    BY <2>1, <2>2 DEF TasksInv
  <2>6. RowsInv'
    BY <2>1, <2>3, <2>5 DEF RowsInv
  <2>7. KeptInv'
    BY <2>1, <2>4, <2>5 DEF KeptInv, EditKept
  <2>8. QED BY <2>6, <2>7
<1>2. ASSUME row' = row, kept' = kept, NEW k, k.pc # "validating", task' = [task EXCEPT ![t] = k]
      PROVE  RowsInv' /\ KeptInv'
  <2>1. \A u \in Tasks : task'[u].pc = "validating" =>
          task[u].pc = "validating" /\ task'[u].read = task[u].read
    BY <1>2 DEF TasksInv
  <2>2. QED BY <1>2, <2>1, RowsStay DEF RowsInv, KeptInv, EditKept
<1>3. ASSUME NEW j \in Jobs, TakeJob(t, j) PROVE RowsInv' /\ KeptInv'
  <2> DEFINE k == [Idle EXCEPT !.op = asks[j][1], !.source = asks[j][2], !.job = j,
                     !.pc = IF asks[j][1] = "translate" /\ Exists(asks[j][2])
                            THEN "marks" ELSE "load"]
  <2>1. row' = row /\ kept' = kept /\ task' = [task EXCEPT ![t] = k]
    BY <1>3 DEF TakeJob, BeginTask, tables, ghosts
  <2>2. k.pc # "validating"
    BY DEF Idle
  <2> HIDE DEF k
  <2>3. QED BY <1>2, <2>1, <2>2
<1>4. ASSUME NEW s \in Sources, Regenerate(t, s) PROVE RowsInv' /\ KeptInv'
  <2> DEFINE k == [Idle EXCEPT !.op = "regenerate", !.source = s, !.pc = "load"]
  <2>1. row' = row /\ kept' = kept /\ task' = [task EXCEPT ![t] = k]
    BY <1>4 DEF Regenerate, BeginTask, tables, ghosts
  <2>2. k.pc # "validating"
    BY DEF Idle
  <2> HIDE DEF k
  <2>3. QED BY <1>2, <2>1, <2>2
<1>5. CASE GenerateAll(t)
  <2> DEFINE k == [Idle EXCEPT !.op = "generate_all", !.pc = "next", !.todo = Completed]
  <2>1. row' = row /\ kept' = kept /\ task' = [task EXCEPT ![t] = k]
    BY <1>5 DEF GenerateAll, BeginTask, tables, ghosts
  <2>2. k.pc # "validating"
    BY DEF Idle
  <2> HIDE DEF k
  <2>3. QED BY <1>2, <2>1, <2>2
<1>6. CASE RegenerateAll(t)
  <2> DEFINE k == [Idle EXCEPT !.op = "regenerate_all", !.pc = "queue", !.todo = Completed,
                     !.ids = {profile[s].id : s \in {r \in Sources : Exists(r)}}]
  <2>1. row' = row /\ kept' = kept /\ task' = [task EXCEPT ![t] = k]
    BY <1>6 DEF RegenerateAll, BeginTask, tables
  <2>2. k.pc # "validating"
    BY DEF Idle
  <2> HIDE DEF k
  <2>3. QED BY <1>2, <2>1, <2>2
<1>7. CASE BeginEnglish(t)
  <2> DEFINE k == [Idle EXCEPT !.op = "english", !.pc = "english",
                     !.read = [s \in {r \in Sources : profile[r].published} |-> profile[s]]]
  <2>1. row' = row /\ kept' = kept /\ task' = [task EXCEPT ![t] = k]
    BY <1>7 DEF BeginEnglish, BeginTask, tables, ghosts
  <2>2. k.pc # "validating"
    BY DEF Idle
  <2> HIDE DEF k
  <2>3. QED BY <1>2, <2>1, <2>2
<1>8. QED BY <1>1, <1>3, <1>4, <1>5, <1>6, <1>7 DEF StartTask

LEMMA RequestRows ==
  ASSUME TasksInv, RowsInv, KeptInv, Request
  PROVE  RowsInv' /\ KeptInv'
<1>1. ASSUME NEW s \in Sources, NEW f \in Fields, NEW v \in {"edit", "raw"},
             EditExtraction(s, f, v)
      PROVE  RowsInv' /\ KeptInv'
  <2>1. /\ row[s][f].val # "none" /\ row' = [row EXCEPT ![s][f].val = v] /\ task' = task
        /\ kept' = IF v = "edit" /\ ~BeingRead(s, f) THEN kept \cup {<<s, f>>}
                                                     ELSE kept \ {<<s, f>>}
    BY <1>1 DEF EditExtraction
  <2>2. row \in [Sources -> [Fields -> Rows]]
    BY DEF RowsInv
  <2>3. /\ row'[s][f].val = v
        /\ row' \in [Sources -> [Fields -> Rows]]
        /\ \A r \in Sources, g \in Fields : <<r, g>> # <<s, f>> => row'[r][g] = row[r][g]
    <3> DEFINE new == [row[s][f] EXCEPT !.val = v]
    <3>1. new \in Rows /\ new.val = v
      BY <2>2 DEF Rows, Vals
    <3>2. row' = [row EXCEPT ![s] = [row[s] EXCEPT ![f] = new]]
      BY <2>1, <2>2
    <3> HIDE DEF new
    <3>3. QED BY <2>2, <3>1, <3>2
  <2>4. RowsInv'
    <3>1. \A r \in Sources, g \in Fields : row'[r][g].val = "none" => row'[r][g] = row[r][g]
      BY <2>3
    <3>2. QED BY <2>1, <2>3, <3>1, RowsStay
  <2>5. KeptInv'
    <3>1. kept' \subseteq Sources \X Fields
      BY <2>1 DEF KeptInv
    <3>2. ASSUME NEW p \in kept' PROVE row'[p[1]][p[2]].val = "edit"
      <4>1. p[1] \in Sources /\ p[2] \in Fields /\ p = <<p[1], p[2]>>
        BY <3>1
      <4>2. QED BY <2>1, <2>3, <4>1 DEF KeptInv, EditKept
    <3>3. ASSUME NEW p \in kept', NEW t \in Tasks, task'[t].pc = "validating"
          PROVE  p \notin DOMAIN task'[t].read
      BY <2>1, <3>3 DEF KeptInv, BeingRead
    <3>4. QED BY <3>1, <3>2, <3>3 DEF KeptInv, EditKept
  <2>6. QED BY <2>4, <2>5
<1>2. ASSUME NEW s \in Sources, ReExtract(s) PROVE RowsInv' /\ KeptInv'
  <2> DEFINE Reread(u) == [p \in DOMAIN task[u].read |->
                             IF p[1] = s THEN NoRow ELSE task[u].read[p]]
             none == [f \in Fields |-> NoRow]
  <2>1. /\ task' = [u \in Tasks |-> IF task[u].pc # "validating" THEN task[u]
                                    ELSE [task[u] EXCEPT !.read = Reread(u)]]
        /\ row' = [row EXCEPT ![s] = none]
        /\ kept' = {p \in kept : p[1] # s}
    BY <1>2 DEF ReExtract
  <2>2. none \in [Fields -> Rows] /\ \A f \in Fields : none[f] = NoRow
    BY DEF NoRow, Rows
  <2>3. \A u \in Tasks : DOMAIN task[u] = TaskFields
    BY DEF TasksInv, TaskOK
  <2>4. \A u \in Tasks : task'[u].pc = "validating" =>
          task[u].pc = "validating" /\ task'[u].read = Reread(u)
    BY <2>1, <2>3 DEF TaskFields
  <2>5. \A u \in Tasks : /\ DOMAIN Reread(u) = DOMAIN task[u].read
                         /\ \A p \in DOMAIN task[u].read :
                              Reread(u)[p] = IF p[1] = s THEN NoRow ELSE task[u].read[p]
    OBVIOUS
  <2> HIDE DEF Reread, none
  <2>6. /\ row' \in [Sources -> [Fields -> Rows]]
        /\ \A f \in Fields : row'[s][f] = NoRow
        /\ \A r \in Sources : r # s => row'[r] = row[r]
    BY <2>1, <2>2 DEF RowsInv
  <2>7. RowsInv'
    <3>1. \A r \in Sources, f \in Fields : row'[r][f].val = "none" => row'[r][f] = NoRow
      BY <2>6 DEF RowsInv
    <3>2. ASSUME NEW u \in Tasks, task'[u].pc = "validating"
          PROVE  /\ DOMAIN task'[u].read \subseteq Sources \X Fields
                 /\ \A p \in DOMAIN task'[u].read :
                      task'[u].read[p] # NoRow => row'[p[1]][p[2]].val # "none"
      BY <2>4, <2>5, <2>6, <3>2 DEF RowsInv
    <3>3. QED BY <2>6, <3>1, <3>2 DEF RowsInv
  <2>8. KeptInv'
    BY <2>1, <2>4, <2>5, <2>6 DEF KeptInv, EditKept
  <2>9. QED BY <2>7, <2>8
<1>3. ASSUME UNCHANGED <<row, task, kept>> PROVE RowsInv' /\ KeptInv'
  BY <1>3 DEF RowsInv, KeptInv, EditKept
<1>4. ASSUME NEW s \in Sources, TranslateSource(s) PROVE RowsInv' /\ KeptInv'
  <2>1. /\ task' = task /\ kept' = kept
        /\ row' = IF Pending(s) \cap Translatable = {} THEN Skipped(s, Pending(s)) ELSE row
    BY <1>4 DEF TranslateSource, ghosts
  <2>2. CASE Pending(s) \cap Translatable = {}
    <3>1. Pending(s) \in SUBSET Pending(s)
      OBVIOUS
    <3>2. /\ row' \in [Sources -> [Fields -> Rows]]
          /\ \A r \in Sources, f \in Fields :
               row'[r][f].val = row[r][f].val /\ (row[r][f].val = "none" => row'[r][f] = row[r][f])
      BY <2>1, <2>2, <3>1, SkippedRows
    <3>3. \A p \in kept : p[1] \in Sources /\ p[2] \in Fields
      BY DEF KeptInv
    <3>4. RowsInv'
      BY <2>1, <3>2, RowsStay
    <3>5. QED BY <2>1, <3>2, <3>3, <3>4 DEF KeptInv, EditKept
  <2>3. CASE Pending(s) \cap Translatable # {}
    BY <1>3, <2>1, <2>3
  <2>4. QED BY <2>2, <2>3
<1>5. ASSUME NEW s \in Sources, WriteProfile(s) \/ DeleteProfile(s) \/ Publish(s) \/ Unpublish(s)
      PROVE  RowsInv' /\ KeptInv'
  BY <1>3, <1>5 DEF WriteProfile, DeleteProfile, Publish, Unpublish, ghosts
<1>6. CASE \/ PublishAll \/ TranslatePending
           \/ \E op \in {"queue_translations", "queue_all_translations", "translate_profiles"} :
                QueueTranslations(op)
  BY <1>3, <1>6 DEF PublishAll, TranslatePending, QueueTranslations, tables, ghosts
<1>7. QED BY <1>1, <1>2, <1>4, <1>5, <1>6 DEF Request

LEMMA NextRows == TasksInv /\ RowsInv /\ KeptInv /\ [PNext]_pvars => RowsInv' /\ KeptInv'
<1> SUFFICES ASSUME TasksInv, RowsInv, KeptInv, [PNext]_pvars PROVE RowsInv' /\ KeptInv'
  OBVIOUS
<1>1. CASE UNCHANGED pvars
  BY <1>1 DEF RowsInv, KeptInv, EditKept, pvars, tables, ghosts
<1>2. ASSUME NEW s \in Sources, NEW f \in Fields, NEW r \in Extracted, StoreExtraction(s, f, r)
      PROVE  RowsInv' /\ KeptInv'
  <2>1. /\ row[s][f] = NoRow /\ task' = task /\ kept' = kept
        /\ row' = [row EXCEPT ![s] = [row[s] EXCEPT ![f] = r]]
    BY <1>2 DEF StoreExtraction, RowsInv, ghosts
  <2>2. r \in Rows /\ r.val # "none"
    BY ExtractedRows
  <2>3. /\ row' \in [Sources -> [Fields -> Rows]]
        /\ \A q \in Sources, g \in Fields : row'[q][g].val = "none" => row'[q][g] = row[q][g]
    BY <2>1, <2>2 DEF RowsInv
  <2>4. \A p \in kept : p[1] \in Sources /\ p[2] \in Fields /\ row'[p[1]][p[2]] = row[p[1]][p[2]]
    BY <2>1 DEF KeptInv, EditKept, RowsInv, NoRow
  <2>5. QED BY <2>1, <2>3, <2>4, RowsStay DEF KeptInv, EditKept
<1>3. QED BY <1>1, <1>2, StepRows, StartRows, RequestRows DEF PNext, Store

-----------------------------------------------------------------------------
(***************************************************************************)
(* Types                                                                   *)
(***************************************************************************)
TextsInv ==
  /\ profile \in [Sources -> Profiles]
  /\ \A t \in Tasks : task[t].text \in Texts

\* Who stores English versions has seen the profiles they are of.
TranslationsInv ==
  /\ \A s \in Sources : english[s].there => Exists(s)
  /\ \A t \in Tasks : task[t].pc = "english" =>
       /\ DOMAIN task[t].read \subseteq Sources
       /\ \A s \in DOMAIN task[t].read : task[t].read[s].id # 0

CountersInv == ops \in 0..MaxOps /\ faults \in 0..MaxFaults

LEMMA RenderedTexts ==
  ASSUME RowsInv, NEW s \in Sources
  PROVE  Rendered(row[s]) \in Texts
<1>1. \A f \in Fields : /\ row[s][f] \in Rows
                        /\ row[s][f].val = "none" => row[s][f].sure = FALSE
  BY DEF RowsInv, NoRow
<1>2. \A f \in Fields : (IF row[s][f].sure THEN row[s][f].val ELSE "hidden")
                          \in Vals \cup {"hidden", "by hand"}
  BY <1>1 DEF Rows
<1>3. QED BY <1>2 DEF Rendered, Texts

LEMMA NoTextIsText == NoText \in Texts /\ Idle.text = NoText
BY DEF NoText, Texts, Idle

LEMMA InitTypes == PInit => TextsInv /\ TranslationsInv /\ CountersInv
<1> SUFFICES ASSUME PInit PROVE TextsInv /\ TranslationsInv /\ CountersInv
  OBVIOUS
<1>1. CountersInv
  BY PublishingAssumption DEF PInit, CountersInv
<1>2. TranslationsInv
  BY DEF PInit, TranslationsInv, NoEnglish, Idle
<1>3. \A t \in Tasks : task[t].text \in Texts
  BY NoTextIsText DEF PInit
<1>4. PICK have \in SUBSET Sources, out \in SUBSET Sources,
           id \in [Sources -> 0..Cardinality(Sources)] :
        profile = [s \in Sources |->
          IF s \in have
          THEN [id |-> id[s], text |-> Rendered(row[s]), published |-> s \in out]
          ELSE NoProfile]
  BY DEF PInit
<1>5. \A s \in Sources : Rendered(row[s]) \in Texts
  BY RenderedTexts, InitRows
<1>6. NoProfile \in Profiles
  BY NoTextIsText DEF NoProfile, Profiles
<1>7. \A s \in Sources : id[s] \in Nat
  BY PublishingAssumption, FS_CardinalityType
<1>8. ASSUME NEW s \in Sources
      PROVE  [id |-> id[s], text |-> Rendered(row[s]), published |-> s \in out] \in Profiles
  BY <1>5, <1>7 DEF Profiles
<1>9. profile \in [Sources -> Profiles]
  BY <1>4, <1>6, <1>8
<1>10. QED BY <1>1, <1>2, <1>3, <1>9 DEF TextsInv

\* What a step renders are rows.
LEMMA StepTexts ==
  ASSUME TasksInv, RowsInv, TextsInv, NEW t \in Tasks, Step(t)
  PROVE  task'[t].text \in Texts
<1>1. /\ TaskOK(task[t]) /\ task = [u \in Tasks |-> task[u]]
      /\ task[t].text \in Texts /\ Idle.text \in Texts
  BY NoTextIsText DEF TasksInv, TextsInv
<1>2. CASE task' = [task EXCEPT ![t] = Idle]
  BY <1>1, <1>2
<1>3. CASE Load(t)
  <2>1. Rendered(row[task[t].source]) \in Texts
    BY <1>1, <1>3, RenderedTexts DEF Load, At, TaskOK, Generating
  <2>2. QED BY <1>1, <1>3, <2>1 DEF Load, TaskOK, TaskFields
<1>4. CASE Find(t)
  BY <1>1, <1>4 DEF Find, TaskOK, TaskFields
<1>5. CASE Generated(t)
  BY <1>1, <1>2, <1>5, NoTextIsText DEF Generated, GoTo, Succeed, EndTask, TaskOK, TaskFields
<1>6. CASE Save(t)
  BY <1>2, <1>5, <1>6 DEF Save, SaveOverFound, SaveOverNone, SaveTooLate, SaveUpdate,
     NotGenerated, Fail, EndTask
<1>7. ASSUME NEW s \in Sources, GenerateNext(t, s) PROVE task'[t].text \in Texts
  BY <1>1, <1>7 DEF GenerateNext, TaskOK, TaskFields
<1>8. ASSUME NEW s \in Sources,
             QueueRegenerationFails(t, s) \/ \E j \in Jobs : QueueRegeneration(t, s, j)
      PROVE  task'[t].text \in Texts
  <2>1. task' = [task EXCEPT ![t].todo = task[t].todo \ {s}]
    BY <1>8 DEF QueueRegenerationFails, QueueRegeneration
  <2>2. QED BY <1>1, <2>1 DEF TaskOK, TaskFields
<1>9. CASE \/ GenerateFails(t) \/ EndGenerateAll(t) \/ CommitRegeneration(t) \/ TranslateRaises(t)
           \/ TranslateNothing(t) \/ EndRevalidate(t) \/ EndEnglish(t) \/ Crash(t)
  BY <1>2, <1>9 DEF GenerateFails, NotGenerated, EndGenerateAll, CommitRegeneration,
     TranslateRaises, TranslateNothing, EndRevalidate, EndEnglish, Crash, Succeed, Fail, EndTask
<1>10. QED BY <1>3, <1>4, <1>6, <1>7, <1>8, <1>9 DEF Step

\* A profile gets a text that was rendered.
LEMMA StepProfiles ==
  ASSUME TasksInv, TextsInv, IdsInv, NEW t \in Tasks, Step(t)
  PROVE  /\ profile' \in [Sources -> Profiles]
         /\ \A s \in Sources :
              profile'[s].id # profile[s].id => profile'[s].id # 0 \/ ~english'[s].there
<1>1. profile \in [Sources -> Profiles] /\ task[t].text \in Texts /\ lastId \in Nat
  BY DEF TextsInv, IdsInv
<1>2. CASE profile' = profile
  BY <1>1, <1>2
<1>3. CASE SaveOverNone(t, task[t].source)
  <2> DEFINE new == [id |-> lastId + 1, text |-> task[t].text, published |-> FALSE]
  <2>1. profile' = [profile EXCEPT ![task[t].source] = new]
    BY <1>3 DEF SaveOverNone
  <2>2. new \in Profiles /\ new.id # 0
    BY <1>1 DEF Profiles
  <2> HIDE DEF new
  <2>3. QED BY <1>1, <2>1, <2>2
<1>4. CASE SaveUpdate(t, task[t].source)
  <2> DEFINE s == task[t].source  new == [profile[s] EXCEPT !.text = task[t].text]
  <2>1. profile' = [profile EXCEPT ![s] = new]
    BY <1>4 DEF SaveUpdate
  <2>2. s \in Sources => new \in Profiles /\ new.id = profile[s].id
    BY <1>1 DEF Profiles
  <2> HIDE DEF new, s
  <2>3. QED BY <1>1, <2>1, <2>2
<1>5. CASE CommitRegeneration(t)
  <2> DEFINE gone == {s \in Sources : profile[s].id \in task[t].ids}
  <2>1. /\ profile' = [s \in Sources |-> IF s \in gone THEN NoProfile ELSE profile[s]]
        /\ english' = [s \in Sources |-> IF s \in gone THEN NoEnglish ELSE english[s]]
    BY <1>5 DEF CommitRegeneration
  <2>2. NoProfile \in Profiles /\ NoEnglish.there = FALSE
    BY NoTextIsText DEF NoProfile, Profiles, NoEnglish
  <2> HIDE DEF gone
  <2>3. QED BY <1>1, <2>1, <2>2
<1>6. QED BY <1>2, <1>3, <1>4, <1>5 DEF Step, Load, Find, Save, SaveOverFound, SaveTooLate,
         GenerateFails, GenerateNext, EndGenerateAll, QueueRegeneration, QueueRegenerationFails,
         TranslateRaises, TranslateNothing, EndRevalidate, EndEnglish, Crash, tables

LEMMA StepTypes ==
  ASSUME TasksInv, RowsInv, TextsInv, TranslationsInv, CountersInv, IdsInv, EnglishInv,
         NEW t \in Tasks, Step(t)
  PROVE  TextsInv' /\ TranslationsInv' /\ CountersInv'
<1>1. (\A u \in Tasks : u # t => task'[u] = task[u]) /\ task'[t].pc # "english"
  BY StepReads
<1>2. TextsInv'
  BY <1>1, StepTexts, StepProfiles DEF TextsInv
<1>3. ASSUME NEW s \in Sources, english'[s].there PROVE profile'[s].id # 0
  <2>1. CASE EndEnglish(t)
    <3> DEFINE seen == task[t].read
    <3>1. PICK done \in SUBSET DOMAIN seen :
            english' = IF \E r \in done : profile[r].id # seen[r].id THEN english
                       ELSE [r \in Sources |-> IF r \in done THEN EnglishOf(r, seen[r])
                                                             ELSE english[r]]
      BY <2>1 DEF EndEnglish
    <3>2. \A r \in DOMAIN seen : seen[r].id # 0
      BY <2>1 DEF EndEnglish, At, TranslationsInv
    <3>3. profile' = profile
      BY <2>1 DEF EndEnglish
    <3>4. CASE english[s].there
      BY <3>3, <3>4 DEF TranslationsInv, Exists
    <3>5. CASE ~english[s].there
      <4>1. s \in done /\ profile[s].id = seen[s].id
        BY <1>3, <3>1, <3>5
      <4>2. QED BY <3>2, <3>3, <4>1
    <3>6. QED BY <3>4, <3>5
  <2>2. CASE ~EndEnglish(t)
    <3>1. english[s].there
      <4>1. CASE CommitRegeneration(t)
        BY <1>3, <4>1 DEF CommitRegeneration, NoEnglish
      <4>2. CASE english' = english
        BY <1>3, <4>2
      <4>3. QED BY <2>2, <4>1, <4>2 DEF Step, Load, Find, Save, GenerateFails, GenerateNext,
              EndGenerateAll, QueueRegeneration, QueueRegenerationFails, TranslateRaises,
              TranslateNothing, EndRevalidate, Crash, tables
    <3>2. QED BY <1>3, <3>1, StepProfiles DEF TranslationsInv, Exists
  <2>3. QED BY <2>1, <2>2
<1>4. TranslationsInv'
  BY <1>1, <1>3 DEF TranslationsInv, Exists
<1>5. CountersInv'
  <2>1. UNCHANGED bounds \/ Fault
    BY DEF Step, Load, Find, Save, GenerateFails, GenerateNext, EndGenerateAll, QueueRegeneration,
       QueueRegenerationFails, CommitRegeneration, TranslateRaises, TranslateNothing,
       EndRevalidate, EndEnglish, Crash
  <2>2. QED BY <2>1, PublishingAssumption DEF CountersInv, Fault, bounds
<1>6. QED BY <1>2, <1>4, <1>5

\* A task begins without a text, and with profiles only for their English versions.
LEMMA BeginTypes ==
  ASSUME TasksInv, TextsInv, TranslationsInv, NEW t \in Tasks, NEW k,
         task' = [task EXCEPT ![t] = k], UNCHANGED <<profile, english>>, k.text \in Texts,
         k.pc = "english" => /\ DOMAIN k.read \subseteq Sources
                             /\ \A s \in DOMAIN k.read : k.read[s].id # 0
  PROVE  TextsInv' /\ TranslationsInv'
<1>1. task'[t] = k /\ \A u \in Tasks : u # t => task'[u] = task[u]
  BY DEF TasksInv
<1>2. QED BY <1>1 DEF TextsInv, TranslationsInv, Exists

LEMMA StartTypes ==
  ASSUME TasksInv, TextsInv, TranslationsInv, CountersInv, IdsInv, NEW t \in Tasks, StartTask(t)
  PROVE  TextsInv' /\ TranslationsInv' /\ CountersInv'
<1>1. /\ UNCHANGED <<profile, english>>
      /\ UNCHANGED bounds \/ \E op \in AdminOps : Begin(op)
  BY DEF StartTask, TakeJob, BeginRevalidate, Regenerate, GenerateAll, RegenerateAll, BeginEnglish,
     tables, Begin
<1>2. \E k : /\ task' = [task EXCEPT ![t] = k] /\ k.text \in Texts
             /\ k.pc = "english" => /\ DOMAIN k.read \subseteq Sources
                                    /\ \A s \in DOMAIN k.read : k.read[s].id # 0
  <2>1. ASSUME NEW j \in Jobs, TakeJob(t, j)
        PROVE  \E k : task' = [task EXCEPT ![t] = k] /\ k.text \in Texts /\ k.pc # "english"
    <3> DEFINE k == [Idle EXCEPT !.op = asks[j][1], !.source = asks[j][2], !.job = j,
                       !.pc = IF asks[j][1] = "translate" /\ Exists(asks[j][2])
                              THEN "marks" ELSE "load"]
    <3>1. task' = [task EXCEPT ![t] = k]
      BY <2>1 DEF TakeJob, BeginTask
    <3>2. k.text \in Texts /\ k.pc # "english"
      BY NoTextIsText DEF Idle
    <3> HIDE DEF k
    <3>3. QED BY <3>1, <3>2
  <2>2. ASSUME NEW op, NEW s, BeginRevalidate(t, op, s)
        PROVE  \E k : task' = [task EXCEPT ![t] = k] /\ k.text \in Texts /\ k.pc # "english"
    <3> DEFINE read == [p \in Picked(op, s) |-> row[p[1]][p[2]]]
               k == [Idle EXCEPT !.op = op, !.pc = "validating", !.read = read]
    <3>1. task' = [task EXCEPT ![t] = k]
      BY <2>2 DEF BeginRevalidate, BeginTask
    <3> HIDE DEF read
    <3>2. k.text \in Texts /\ k.pc # "english"
      BY NoTextIsText DEF Idle
    <3> HIDE DEF k
    <3>3. QED BY <3>1, <3>2
  <2>3. ASSUME NEW s \in Sources, Regenerate(t, s)
        PROVE  \E k : task' = [task EXCEPT ![t] = k] /\ k.text \in Texts /\ k.pc # "english"
    <3> DEFINE k == [Idle EXCEPT !.op = "regenerate", !.source = s, !.pc = "load"]
    <3>1. task' = [task EXCEPT ![t] = k]
      BY <2>3 DEF Regenerate, BeginTask
    <3>2. k.text \in Texts /\ k.pc # "english"
      BY NoTextIsText DEF Idle
    <3> HIDE DEF k
    <3>3. QED BY <3>1, <3>2
  <2>4. CASE GenerateAll(t)
    <3> DEFINE k == [Idle EXCEPT !.op = "generate_all", !.pc = "next", !.todo = Completed]
    <3>1. task' = [task EXCEPT ![t] = k]
      BY <2>4 DEF GenerateAll, BeginTask
    <3>2. k.text \in Texts /\ k.pc # "english"
      BY NoTextIsText DEF Idle
    <3> HIDE DEF k
    <3>3. QED BY <3>1, <3>2
  <2>5. CASE RegenerateAll(t)
    <3> DEFINE old == {profile[s].id : s \in {r \in Sources : Exists(r)}}
               k == [Idle EXCEPT !.op = "regenerate_all", !.pc = "queue", !.todo = Completed,
                                 !.ids = old]
    <3>1. task' = [task EXCEPT ![t] = k]
      BY <2>5 DEF RegenerateAll, BeginTask
    <3> HIDE DEF old
    <3>2. k.text \in Texts /\ k.pc # "english"
      BY NoTextIsText DEF Idle
    <3> HIDE DEF k
    <3>3. QED BY <3>1, <3>2
  <2>6. CASE BeginEnglish(t)
    <3> DEFINE read == [s \in {r \in Sources : profile[r].published} |-> profile[s]]
               k == [Idle EXCEPT !.op = "english", !.pc = "english", !.read = read]
    <3>1. task' = [task EXCEPT ![t] = k]
      BY <2>6 DEF BeginEnglish, BeginTask
    <3>2. DOMAIN read \subseteq Sources /\ \A s \in DOMAIN read : read[s].id # 0
      BY DEF IdsInv, Exists
    <3> HIDE DEF read
    <3>3. k.text \in Texts /\ k.read = read
      BY NoTextIsText DEF Idle
    <3> HIDE DEF k
    <3>4. QED BY <3>1, <3>2, <3>3
  <2>7. QED BY <2>1, <2>2, <2>3, <2>4, <2>5, <2>6 DEF StartTask
<1>3. TextsInv' /\ TranslationsInv'
  BY <1>1, <1>2, BeginTypes
<1>4. CountersInv'
  BY <1>1, PublishingAssumption DEF CountersInv, Begin, bounds
<1>5. QED BY <1>3, <1>4

LEMMA RequestTypes ==
  ASSUME TasksInv, TextsInv, TranslationsInv, CountersInv, IdsInv, EnglishInv, Request
  PROVE  TextsInv' /\ TranslationsInv' /\ CountersInv'
<1>1. NoProfile \in Profiles /\ NoProfile.id = 0 /\ NoEnglish.there = FALSE
  BY NoTextIsText DEF NoProfile, Profiles, NoEnglish
<1>2. /\ profile \in [Sources -> Profiles] /\ \A s \in Sources : english[s].there => Exists(s)
      /\ english = [s \in Sources |-> english[s]]
  BY DEF TextsInv, TranslationsInv, EnglishInv
<1>3. \A t \in Tasks : /\ task'[t].text = task[t].text
                       /\ task'[t].pc = "english" => task[t].pc = "english"
                                                     /\ task'[t].read = task[t].read
  <2>1. ASSUME NEW s \in Sources, ReExtract(s), NEW t \in Tasks
        PROVE  /\ task'[t].text = task[t].text
               /\ task'[t].pc = "english" => task[t].pc = "english" /\ task'[t].read = task[t].read
    <3> DEFINE read == [p \in DOMAIN task[t].read |->
                          IF p[1] = s THEN NoRow ELSE task[t].read[p]]
    <3>1. task'[t] = IF task[t].pc # "validating" THEN task[t]
                     ELSE [task[t] EXCEPT !.read = read]
      BY <2>1 DEF ReExtract
    <3> HIDE DEF read
    <3>2. QED BY <3>1 DEF TasksInv, TaskOK, TaskFields
  <2>2. CASE task' = task
    BY <2>2
  <2>3. QED BY <2>1, <2>2 DEF Request, EditExtraction, WriteProfile, DeleteProfile, Publish,
           Unpublish, TranslateSource, PublishAll, TranslatePending, QueueTranslations
<1>4. ASSUME NEW s \in Sources, ReExtract(s) \/ DeleteProfile(s)
      PROVE  /\ profile' \in [Sources -> Profiles]
             /\ \A r \in Sources : english'[r].there => profile'[r].id # 0
  <2>1. /\ profile' = [profile EXCEPT ![s] = NoProfile]
        /\ english' = [english EXCEPT ![s] = NoEnglish]
    BY <1>4 DEF ReExtract, DeleteProfile
  <2>2. \A r \in Sources : /\ r = s => ~english'[r].there
                           /\ r # s => english'[r] = english[r] /\ profile'[r] = profile[r]
    BY <1>1, <1>2, <2>1
  <2>3. QED BY <1>1, <1>2, <2>1, <2>2 DEF Exists
<1>5. ASSUME profile' \in [Sources -> Profiles], english' = english,
             \A r \in Sources : profile'[r].id = profile[r].id
      PROVE  /\ profile' \in [Sources -> Profiles]
             /\ \A r \in Sources : english'[r].there => profile'[r].id # 0
  BY <1>2, <1>5 DEF Exists
<1>6. ASSUME NEW s \in Sources, NEW new \in Profiles, new.id = profile[s].id,
             profile' = [profile EXCEPT ![s] = new]
      PROVE  profile' \in [Sources -> Profiles] /\ \A r \in Sources : profile'[r].id = profile[r].id
  BY <1>2, <1>6
<1>7. ASSUME NEW s \in Sources, WriteProfile(s) \/ Publish(s) \/ Unpublish(s)
      PROVE  /\ profile' \in [Sources -> Profiles] /\ english' = english
             /\ \A r \in Sources : profile'[r].id = profile[r].id
  <2>1. profile[s] \in Profiles
    BY <1>2
  <2>2. CASE WriteProfile(s)
    <3> DEFINE byHand == [f \in Fields |-> "by hand"]  new == [profile[s] EXCEPT !.text = byHand]
    <3>1. profile' = [profile EXCEPT ![s] = new] /\ english' = english
      BY <2>2 DEF WriteProfile
    <3>2. byHand \in Texts
      BY DEF Texts
    <3> HIDE DEF byHand
    <3>3. new \in Profiles /\ new.id = profile[s].id
      BY <2>1, <3>2 DEF Profiles
    <3> HIDE DEF new
    <3>4. QED BY <1>6, <3>1, <3>3
  <2>3. CASE Publish(s) \/ Unpublish(s)
    <3>1. PICK b \in BOOLEAN :
            profile' = [profile EXCEPT ![s].published = b] /\ english' = english
      BY <2>3 DEF Publish, Unpublish
    <3> DEFINE new == [profile[s] EXCEPT !.published = b]
    <3>2. profile' = [profile EXCEPT ![s] = new]
      BY <3>1
    <3>3. new \in Profiles /\ new.id = profile[s].id
      BY <2>1 DEF Profiles
    <3> HIDE DEF new
    <3>4. QED BY <1>6, <3>1, <3>2, <3>3
  <2>4. QED BY <1>7, <2>2, <2>3
<1>8. ASSUME PublishAll
      PROVE  /\ profile' \in [Sources -> Profiles] /\ english' = english
             /\ \A r \in Sources : profile'[r].id = profile[r].id
  <2>1. /\ profile' = [s \in Sources |-> [profile[s] EXCEPT !.published = Exists(s)]]
        /\ english' = english
    BY <1>8 DEF PublishAll
  <2>2. ASSUME NEW s \in Sources
        PROVE  profile'[s] \in Profiles /\ profile'[s].id = profile[s].id
    <3>1. profile[s] \in Profiles /\ profile'[s] = [profile[s] EXCEPT !.published = Exists(s)]
      BY <1>2, <2>1
    <3>2. Exists(s) \in BOOLEAN
      BY DEF Exists
    <3>3. QED BY <3>1, <3>2 DEF Profiles
  <2>3. profile' \in [Sources -> Profiles]
    BY <2>1, <2>2
  <2>4. QED BY <2>1, <2>2, <2>3
<1>9. /\ profile' \in [Sources -> Profiles]
      /\ \A r \in Sources : english'[r].there => profile'[r].id # 0
  <2>1. CASE UNCHANGED <<profile, english>>
    BY <1>2, <2>1 DEF Exists
  <2>2. QED BY <1>4, <1>5, <1>7, <1>8, <2>1 DEF Request, EditExtraction, TranslateSource,
           TranslatePending, QueueTranslations, tables
<1>10. CountersInv'
  <2>1. \E op \in AdminOps : Begin(op)
    BY DEF Request, EditExtraction, ReExtract, WriteProfile, DeleteProfile, Publish, Unpublish,
       TranslateSource, PublishAll, TranslatePending, QueueTranslations, Begin
  <2>2. QED BY <2>1, PublishingAssumption DEF CountersInv, Begin
<1>11. QED BY <1>3, <1>9, <1>10 DEF TextsInv, TranslationsInv, Exists

TypesInv ==
  /\ TasksInv /\ RowsInv /\ KeptInv /\ TextsInv /\ TranslationsInv /\ CountersInv
  /\ PublicInv /\ EnglishInv

LEMMA InitTypesInv == PInit => TypesInv
BY InitTasks, InitRows, InitTypes, InitPublic, InitEnglish DEF TypesInv

LEMMA NextTypes == TypesInv /\ [PNext]_pvars => TypesInv'
<1> SUFFICES ASSUME TypesInv, [PNext]_pvars PROVE TypesInv'
  OBVIOUS
<1>1. TasksInv' /\ RowsInv' /\ KeptInv' /\ PublicInv' /\ EnglishInv'
  BY NextTasks, NextRows, NextPublic, NextEnglish DEF TypesInv
<1>2. CASE Store \/ UNCHANGED pvars
  <2>1. UNCHANGED <<profile, english, task, bounds>>
    BY <1>2 DEF Store, StoreExtraction, pvars, tables
  <2>2. TextsInv' /\ TranslationsInv' /\ CountersInv'
    BY <2>1 DEF TypesInv, TextsInv, TranslationsInv, CountersInv, Exists, bounds
  <2>3. QED BY <1>1, <2>2 DEF TypesInv
<1>3. CASE Request
  BY <1>1, <1>3, RequestTypes DEF TypesInv, PublicInv
<1>4. ASSUME NEW t \in Tasks, StartTask(t) \/ Step(t) PROVE TypesInv'
  BY <1>1, <1>4, StartTypes, StepTypes DEF TypesInv, PublicInv
<1>5. QED BY <1>2, <1>3, <1>4 DEF PNext

\* Who does something else only counts the request.
LEMMA SameTypes ==
  ASSUME TypesInv, UNCHANGED <<queue, tables, task, ghosts>>, CountersInv'
  PROVE  TypesInv'
<1>1. UNCHANGED <<queue, row, profile, english, lastId, task, approved, kept>>
  BY DEF tables, ghosts
<1>2. TasksInv' /\ PublicInv'
  BY <1>1, UntouchedTasks, Untouched DEF TypesInv
<1>3. RowsInv' /\ KeptInv' /\ TextsInv' /\ TranslationsInv' /\ EnglishInv'
  BY <1>1 DEF TypesInv, RowsInv, KeptInv, EditKept, TextsInv, TranslationsInv, EnglishInv, Exists
<1>4. QED BY <1>2, <1>3 DEF TypesInv

LEMMA TypesAreTypes == TypesInv => TypeOK
<1> SUFFICES ASSUME TypesInv PROVE TypeOK
  OBVIOUS
<1>1. \A s \in Sources : Exists(s) => profile[s].id \in 1..lastId
  BY DEF TypesInv, PublicInv, IdsInv, Exists
<1>2. \A s, r \in Sources : Exists(s) /\ profile[s].id = profile[r].id => s = r
  BY DEF TypesInv, PublicInv, IdsInv
<1>3. \A j \in Jobs : phase[j] = "taken" <=> \E t \in Tasks : task[t].job = j
  BY DEF TypesInv, TasksInv, AskOK
<1>4. QED BY <1>1, <1>2, <1>3 DEF TypesInv, TasksInv, RowsInv, TextsInv, TranslationsInv,
         CountersInv, TypeOK

\* For any sources, fields, jobs and tasks: the rows and profiles keep their
\* types, an id is of the sequence and of one profile, there is no English
\* version without a German one, a job is taken exactly while a task runs it.
THEOREM TypeCorrect == PSpec => []TypeOK
BY InitTypesInv, NextTypes, TypesAreTypes, PTL DEF PSpec

\* For any sources, fields, jobs and tasks: a correction by hand that was made
\* while no revalidation had its row loaded stays, whatever revalidations of
\* missing values, generations and translations follow, until a curator asks
\* for something that replaces it.  `kept' leaves out a correction made while a
\* revalidation holds the row: update_extraction() answers that it is stored,
\* and the revalidation's commit overwrites it (EditsSurvive, which fails).
THEOREM EditsAreKept == PSpec => []EditKept
<1>1. PInit => TasksInv /\ RowsInv /\ KeptInv
  BY InitTasks, InitRows
<1>2. KeptInv => EditKept
  BY DEF KeptInv
<1>3. QED BY <1>1, <1>2, NextTasks, NextRows, PTL DEF PSpec

-----------------------------------------------------------------------------
(***************************************************************************)
(* The deletion of all profiles and the jobs that restore them             *)
(***************************************************************************)
Generates(j, s) == asks[j] = <<"generate", s>> /\ phase[j] \in Live
HasTry(j) == tries[j] + 1 < MaxAttempts
\* A generation that will save over a profile it has found.
Outrun(j) == \E t \in Tasks : task[t].job = j /\ task[t].pc = "save" /\ task[t].ids # {0}
DoomedBy(t, s) ==
  /\ task[t].op = "regenerate_all"
  /\ profile[s].id \in task[t].ids
  /\ s \notin task[t].todo

\* Where there is no profile a job makes one: it has a try to spare, or has not
\* found the old profile.  Where the profile is about to go, the job has a try
\* to spare: it may have found what will be deleted.
Restored(s) ==
  /\ ~Exists(s) => \E j \in Jobs : Generates(j, s) /\ (HasTry(j) \/ ~Outrun(j))
  /\ (\E t \in Tasks : DoomedBy(t, s)) => \E j \in Jobs : Generates(j, s) /\ HasTry(j)

OldIds == \A t \in Tasks : task[t].op = "regenerate_all" => task[t].ids \subseteq 1..lastId

RestoreInv ==
  /\ promised \subseteq Sources
  /\ OldIds
  /\ faults = 0 => \A s \in promised : Restored(s)

\* A step that leaves a source's profile, its jobs and its deletion as they were.
Carried(s) ==
  /\ profile'[s].id = profile[s].id
  /\ \A j \in Jobs : Generates(j, s) =>
       /\ Generates(j, s)' /\ tries'[j] = tries[j]
       /\ Outrun(j)' => Outrun(j) \/ Exists(s)
  /\ \A t \in Tasks : DoomedBy(t, s)' => DoomedBy(t, s)

LEMMA CarriedStays ==
  ASSUME NEW s \in Sources, Restored(s), Carried(s)
  PROVE  Restored(s)'
<1>1. ASSUME ~Exists(s)' PROVE (\E j \in Jobs : Generates(j, s) /\ (HasTry(j) \/ ~Outrun(j)))'
  <2>1. ~Exists(s)
    BY <1>1 DEF Carried, Exists
  <2>2. PICK j \in Jobs : Generates(j, s) /\ (HasTry(j) \/ ~Outrun(j))
    BY <2>1 DEF Restored
  <2>3. Generates(j, s)' /\ (HasTry(j) => HasTry(j)') /\ (Outrun(j)' => Outrun(j))
    BY <2>1, <2>2 DEF Carried, HasTry
  <2>4. QED BY <2>2, <2>3
<1>2. ASSUME NEW t \in Tasks, DoomedBy(t, s)'
      PROVE  (\E j \in Jobs : Generates(j, s) /\ HasTry(j))'
  <2>1. PICK j \in Jobs : Generates(j, s) /\ HasTry(j)
    BY <1>2 DEF Restored, Carried
  <2>2. Generates(j, s)' /\ HasTry(j)'
    BY <2>1 DEF Carried, HasTry
  <2>3. QED BY <2>2
<1>3. QED BY <1>1, <1>2 DEF Restored

\* A task that deletes nothing begins, goes on or ends without its job.
LEMMA QuietStep ==
  ASSUME TasksInv, RestoreInv, NEW t \in Tasks, NEW k, task' = [task EXCEPT ![t] = k],
         k.op # "regenerate_all", k.pc # "save",
         UNCHANGED <<profile, lastId, promised, tries, asks>>,
         \A j \in Jobs : phase[j] \in Live => phase'[j] \in Live, faults' = 0 => faults = 0
  PROVE  RestoreInv'
<1>1. task'[t] = k /\ \A u \in Tasks : u # t => task'[u] = task[u]
  BY DEF TasksInv
<1>2. ASSUME NEW s \in Sources PROVE Carried(s)
  BY <1>1 DEF Carried, Generates, Outrun, DoomedBy
<1>3. OldIds'
  BY <1>1 DEF RestoreInv, OldIds
<1>4. QED BY <1>2, <1>3, CarriedStays DEF RestoreInv

\* A task ends with its job: only that job's part changes.
LEMMA OtherJobs ==
  ASSUME TasksInv, NEW t \in Tasks, EndTask(t),
         IF IsJob(t) THEN Leaves(task[t].job) ELSE UNCHANGED queue,
         NEW s \in Sources, profile'[s].id = profile[s].id,
         IsJob(t) => asks[task[t].job] # <<"generate", s>>
  PROVE  Carried(s)
<1>1. task'[t] = Idle /\ \A u \in Tasks : u # t => task'[u] = task[u]
  BY DEF TasksInv, EndTask
<1>2. ASSUME NEW j \in Jobs, Generates(j, s)
      PROVE  /\ Generates(j, s)' /\ tries'[j] = tries[j]
             /\ Outrun(j)' => Outrun(j)
  <2>1. phase'[j] = phase[j] /\ tries'[j] = tries[j] /\ asks'[j] = asks[j]
    <3>1. CASE IsJob(t)
      <4>1. PICK i \in Jobs : i = task[t].job /\ i # j
        BY <1>2, <3>1 DEF IsJob, Generates
      <4>2. QED BY <3>1, <4>1 DEF Leaves, Complete, Retry, GiveUp, Lose, Move, Settled, TasksInv,
               DeliveryTypeOK
    <3>2. CASE ~IsJob(t)
      BY <3>2 DEF queue
    <3>3. QED BY <3>1, <3>2
  <2>2. QED BY <1>1, <1>2, <2>1 DEF Generates, Outrun, Idle
<1>3. \A u \in Tasks : DoomedBy(u, s)' => DoomedBy(u, s)
  BY <1>1 DEF DoomedBy, Idle
<1>4. QED BY <1>2, <1>3 DEF Carried

LEMMA OutcomeLeaves ==
  ASSUME NEW t \in Tasks, Succeed(t) \/ Fail(t)
  PROVE  EndTask(t) /\ IF IsJob(t) THEN Leaves(task[t].job) ELSE UNCHANGED queue
BY DEF Succeed, Fail, Leaves

\* What a job is asked for.
LEMMA JobOfTask ==
  ASSUME TasksInv, NEW t \in Tasks, IsJob(t)
  PROVE  /\ asks[task[t].job] = <<task[t].op, task[t].source>>
         /\ task[t].op \in {"generate", "translate"}
<1>1. TaskOK(task[t]) /\ AskOK(task[t].job)
  BY DEF TasksInv, IsJob
<1>2. phase[task[t].job] = "taken"
  BY <1>1 DEF AskOK
<1>3. QED BY <1>1, <1>2 DEF TaskOK, AskOK, IsJob, Live

LEMMA GeneratedCarries ==
  ASSUME TasksInv, NEW t \in Tasks, At(t, "save"), Generated(t),
         NEW s \in Sources, profile'[s].id = profile[s].id, task[t].source # s
  PROVE  Carried(s)
<1>1. TaskOK(task[t]) /\ task[t].pc = "save" /\ task[t].op # "regenerate_all"
  BY DEF TasksInv, At, TaskOK
<1>2. CASE task[t].op \in {"translate", "generate_all"}
  <2>1. PICK k : task' = [task EXCEPT ![t] = k] /\ k.op = task[t].op /\ k.pc \in {"marks", "next"}
    <3>1. CASE task[t].op = "translate"
      <4> DEFINE k == [task[t] EXCEPT !.pc = "marks"]
      <4>1. k.op = task[t].op /\ k.pc = "marks"
        BY <1>1 DEF TaskOK, TaskFields
      <4>2. task' = [task EXCEPT ![t] = k]
        BY <3>1 DEF Generated, GoTo
      <4> HIDE DEF k
      <4>3. QED BY <4>1, <4>2
    <3>2. CASE task[t].op = "generate_all"
      <4> DEFINE k == [task[t] EXCEPT !.pc = "next", !.ids = {}, !.text = NoText]
      <4>1. k.op = task[t].op /\ k.pc = "next"
        BY <1>1 DEF TaskOK, TaskFields
      <4>2. task' = [task EXCEPT ![t] = k]
        BY <3>2 DEF Generated
      <4> HIDE DEF k
      <4>3. QED BY <4>1, <4>2
    <3>3. QED BY <1>2, <3>1, <3>2
  <2>2. task'[t] = k /\ \A u \in Tasks : u # t => task'[u] = task[u]
    BY <2>1 DEF TasksInv
  <2>3. UNCHANGED queue
    BY <1>2 DEF Generated
  <2>4. QED BY <1>1, <2>1, <2>2, <2>3 DEF Carried, Generates, Outrun, DoomedBy, queue
<1>3. CASE task[t].op \notin {"translate", "generate_all"}
  <2>1. Succeed(t)
    BY <1>3 DEF Generated
  <2>2. QED BY <2>1, OutcomeLeaves, OtherJobs, JobOfTask
<1>4. QED BY <1>2, <1>3

\* A generation saves or fails to: where it fails for the deletion that came
\* between, its job had a try to spare.
LEMMA SaveRestores ==
  ASSUME TasksInv, IdsInv, RestoreInv, NEW t \in Tasks, Save(t)
  PROVE  RestoreInv'
<1>0. TaskOK(task[t]) /\ task[t].pc = "save"
  BY DEF Save, At, TasksInv
<1> PICK s \in Sources : s = task[t].source
  BY <1>0 DEF TaskOK, Generating
<1>1. /\ task[t].op # "regenerate_all" /\ At(t, "save") /\ Free(s)
      /\ promised' = promised /\ faults' = faults
      /\ SaveOverFound(t, s) \/ SaveOverNone(t, s) \/ SaveTooLate(t, s) \/ SaveUpdate(t, s)
  BY <1>0 DEF Save, At, TaskOK, ghosts, bounds
<1>2. /\ \A u \in Tasks : u # t => task'[u] = task[u]
      /\ task'[t].op # "regenerate_all"
  <2>1. task'[t] = Idle \/ task'[t].op = task[t].op
    <3>1. CASE Generated(t)
      BY <1>0, <3>1 DEF Generated, GoTo, Succeed, EndTask, TasksInv, TaskOK, TaskFields
    <3>2. CASE Fail(t)
      BY <3>2 DEF Fail, EndTask, TasksInv
    <3>3. QED BY <1>1, <3>1, <3>2 DEF SaveOverFound, SaveOverNone, SaveTooLate, SaveUpdate,
             NotGenerated
  <2>2. QED BY <1>1, <2>1, StepReads DEF Step, Idle
<1>3. lastId \in Nat /\ lastId' \in {lastId, lastId + 1}
  BY <1>1 DEF SaveOverFound, SaveOverNone, SaveTooLate, SaveUpdate, IdsInv
<1>4. OldIds'
  <2>1. ASSUME NEW u \in Tasks, task'[u].op = "regenerate_all"
        PROVE  task'[u].ids \subseteq 1..lastId'
    <3>1. task'[u] = task[u] /\ task[u].ids \subseteq 1..lastId
      BY <1>2, <2>1 DEF RestoreInv, OldIds
    <3>2. QED BY <1>3, <3>1
  <2>2. QED BY <2>1 DEF OldIds
<1>5. ASSUME NEW r \in Sources, r # s PROVE Carried(r)
  <2>1. profile'[r].id = profile[r].id
    <3>1. CASE SaveOverNone(t, s)
      <4> DEFINE new == [id |-> lastId + 1, text |-> task[t].text, published |-> FALSE]
      <4>1. profile' = [profile EXCEPT ![s] = new]
        BY <3>1 DEF SaveOverNone
      <4> HIDE DEF new
      <4>2. QED BY <1>5, <4>1 DEF IdsInv
    <3>2. CASE SaveUpdate(t, s)
      BY <1>5, <3>2 DEF SaveUpdate, IdsInv
    <3>3. QED BY <1>1, <3>1, <3>2 DEF SaveOverFound, SaveTooLate
  <2>2. CASE Generated(t)
    BY <1>1, <1>5, <2>1, <2>2, GeneratedCarries
  <2>3. CASE Fail(t)
    BY <1>5, <2>1, <2>3, OutcomeLeaves, OtherJobs, JobOfTask
  <2>4. QED BY <1>1, <2>2, <2>3 DEF SaveOverFound, SaveOverNone, SaveTooLate, SaveUpdate,
           NotGenerated
<1>6. ASSUME faults = 0, s \in promised PROVE Restored(s)'
  <2>1. Restored(s)
    BY <1>6 DEF RestoreInv
  <2>2. \A u \in Tasks : ~DoomedBy(u, s)'
    <3>1. \A u \in Tasks : task[u].op = "regenerate_all" => profile[s].id \notin task[u].ids
      BY <1>1 DEF Free, Doomed
    <3>2. profile'[s].id \in {profile[s].id, lastId + 1}
      <4>1. CASE SaveOverNone(t, s)
        <5> DEFINE new == [id |-> lastId + 1, text |-> task[t].text, published |-> FALSE]
        <5>1. profile' = [profile EXCEPT ![s] = new]
          BY <4>1 DEF SaveOverNone
        <5>2. new.id = lastId + 1
          OBVIOUS
        <5> HIDE DEF new
        <5>3. QED BY <1>1, <5>1, <5>2 DEF IdsInv
      <4>2. CASE SaveUpdate(t, s)
        BY <1>1, <4>2 DEF SaveUpdate, IdsInv
      <4>3. QED BY <1>1, <4>1, <4>2 DEF SaveOverFound, SaveTooLate
    <3>3. \A u \in Tasks : task[u].op = "regenerate_all" => lastId + 1 \notin task[u].ids
      BY <1>3 DEF RestoreInv, OldIds
    <3>4. QED BY <1>2, <3>1, <3>2, <3>3 DEF DoomedBy
  <2>3. ASSUME ~Exists(s)' PROVE (\E j \in Jobs : Generates(j, s) /\ (HasTry(j) \/ ~Outrun(j)))'
    <3>1. SaveOverFound(t, s) /\ ~Exists(s)
      <4>1. ~SaveOverNone(t, s)
        <5> SUFFICES ASSUME SaveOverNone(t, s) PROVE FALSE
          OBVIOUS
        <5> DEFINE new == [id |-> lastId + 1, text |-> task[t].text, published |-> FALSE]
        <5>1. profile' = [profile EXCEPT ![s] = new]
          BY DEF SaveOverNone
        <5>2. new.id # 0
          BY <1>3
        <5> HIDE DEF new
        <5>3. profile'[s] = new
          BY <1>1, <5>1 DEF IdsInv
        <5>4. QED BY <2>3, <5>2, <5>3 DEF Exists
      <4>2. ~SaveUpdate(t, s)
        BY <2>3 DEF SaveUpdate, Exists, IdsInv
      <4>3. profile' = profile
        BY <1>1, <4>1, <4>2 DEF SaveOverFound, SaveTooLate
      <4>4. ~Exists(s)
        BY <2>3, <4>3 DEF Exists
      <4>5. QED BY <1>1, <4>1, <4>2, <4>4 DEF SaveTooLate
    <3>2. PICK j \in Jobs : Generates(j, s) /\ (HasTry(j) \/ ~Outrun(j))
      BY <2>1, <3>1 DEF Restored
    <3>3. Fail(t) /\ task[t].ids # {0}
      BY <3>1 DEF SaveOverFound, NotGenerated
    <3>4. CASE task[t].job = j
      <4>1. HasTry(j) /\ IsJob(t)
        BY <1>0, <3>2, <3>3, <3>4 DEF Outrun, IsJob
      <4>2. Retry(j) /\ asks' = asks
        BY <3>3, <3>4, <4>1 DEF Fail, GiveUp, HasTry, TasksInv, DeliveryTypeOK
      <4>3. Generates(j, s)'
        BY <3>2, <4>2 DEF Generates, Live, Retry, Move, TasksInv, DeliveryTypeOK
      <4>4. \A u \in Tasks : task'[u].job # j
        <5>1. TasksInv' /\ phase'[j] = "waiting"
          BY <4>2, StepTasks DEF Step, Retry, Move, TasksInv, DeliveryTypeOK
        <5>2. QED BY <5>1 DEF TasksInv, AskOK
      <4>5. QED BY <4>3, <4>4 DEF Outrun
    <3>5. CASE task[t].job # j
      <4>1. phase'[j] = phase[j] /\ tries'[j] = tries[j] /\ asks'[j] = asks[j]
        BY <3>3, <3>5 DEF Fail, IsJob, queue, Retry, GiveUp, Move, Settled, TasksInv, DeliveryTypeOK
      <4>2. Outrun(j)' => Outrun(j)
        BY <1>1, <1>2, <3>3, PublishingAssumption DEF Outrun, Fail, EndTask, TasksInv, Idle
      <4>3. QED BY <3>2, <4>1, <4>2 DEF Generates, HasTry
    <3>6. QED BY <3>4, <3>5
  <2>4. QED BY <2>2, <2>3 DEF Restored
<1>7. ASSUME faults = 0, NEW r \in promised PROVE Restored(r)'
  BY <1>5, <1>6, <1>7, CarriedStays DEF RestoreInv
<1>8. QED BY <1>1, <1>4, <1>7 DEF RestoreInv

\* The deletion commits: where it takes a profile, there is a job with a try to
\* spare.
LEMMA CommitRestores ==
  ASSUME TasksInv, IdsInv, RestoreInv, NEW t \in Tasks, CommitRegeneration(t)
  PROVE  RestoreInv'
<1> DEFINE gone == {s \in Sources : profile[s].id \in task[t].ids}
<1>1. /\ task[t].op = "regenerate_all" /\ task[t].todo = {} /\ task' = [task EXCEPT ![t] = Idle]
      /\ profile' = [s \in Sources |-> IF s \in gone THEN NoProfile ELSE profile[s]]
      /\ UNCHANGED <<phase, tries, asks, lastId, promised, faults>>
  BY DEF CommitRegeneration, At, EndTask, TasksInv, TaskOK, queue, bounds
<1>2. task'[t] = Idle /\ \A u \in Tasks : u # t => task'[u] = task[u]
  BY <1>1 DEF TasksInv
<1>3. OldIds'
  BY <1>1, <1>2 DEF RestoreInv, OldIds, Idle
<1>4. ASSUME NEW s \in Sources, s \notin gone PROVE Carried(s)
  BY <1>1, <1>2, <1>4 DEF Carried, Generates, Outrun, DoomedBy, Idle
<1>5. ASSUME NEW s \in Sources, s \in gone, Restored(s) PROVE Restored(s)'
  <2>1. PICK j \in Jobs : Generates(j, s) /\ HasTry(j)
    BY <1>1, <1>5 DEF Restored, DoomedBy
  <2>2. Generates(j, s)' /\ HasTry(j)'
    BY <1>1, <2>1 DEF Generates, HasTry
  <2>3. QED BY <2>2 DEF Restored
<1>6. ASSUME faults = 0, NEW s \in promised PROVE Restored(s)'
  BY <1>4, <1>5, <1>6, CarriedStays DEF RestoreInv
<1>7. QED BY <1>1, <1>3, <1>6 DEF RestoreInv

\* A job that has just been submitted has all its tries.
LEMMA QueueRestores ==
  ASSUME MaxAttempts > 1, TasksInv, RestoreInv, NEW t \in Tasks, NEW s \in Sources, NEW j \in Jobs,
         QueueRegeneration(t, s, j)
  PROVE  RestoreInv'
<1>1. /\ phase[j] = "absent" /\ phase' = [phase EXCEPT ![j] = "waiting"] /\ tries' = tries
      /\ asks' = [asks EXCEPT ![j] = <<"generate", s>>]
      /\ task' = [task EXCEPT ![t].todo = task[t].todo \ {s}]
      /\ promised' = promised \cup {s} /\ UNCHANGED <<profile, lastId, faults>>
  BY DEF QueueRegeneration, Enqueue, Submit, Move, tables, bounds
<1>2. \A u \in Tasks : /\ task'[u].op = task[u].op /\ task'[u].ids = task[u].ids
                       /\ task'[u].job = task[u].job /\ task'[u].pc = task[u].pc
                       /\ \A r \in Sources : r # s => (r \in task'[u].todo <=> r \in task[u].todo)
  BY <1>1 DEF TasksInv, TaskOK, TaskFields
<1>3. OldIds'
  BY <1>1, <1>2 DEF RestoreInv, OldIds
<1>4. ASSUME NEW r \in Sources, r # s PROVE Carried(r)
  <2>1. \A i \in Jobs : i # j => phase'[i] = phase[i] /\ asks'[i] = asks[i]
    BY <1>1 DEF TasksInv, DeliveryTypeOK
  <2>2. \A i \in Jobs : Generates(i, r) => i # j
    BY <1>1 DEF Generates, Live
  <2>3. \A i \in Jobs : Generates(i, r) => Generates(i, r)' /\ (Outrun(i)' => Outrun(i))
    BY <1>2, <2>1, <2>2 DEF Generates, Outrun
  <2>4. \A u \in Tasks : DoomedBy(u, r)' => DoomedBy(u, r)
    BY <1>1, <1>2, <1>4 DEF DoomedBy
  <2>5. QED BY <1>1, <2>3, <2>4 DEF Carried
<1>5. Restored(s)'
  <2>1. Generates(j, s)'
    BY <1>1 DEF Generates, Live, TasksInv, DeliveryTypeOK
  <2>2. tries'[j] = 0
    BY <1>1 DEF TasksInv, AskOK
  <2>3. HasTry(j)'
    BY <2>2 DEF HasTry
  <2>4. QED BY <2>1, <2>3 DEF Restored
<1>6. ASSUME faults = 0, NEW r \in promised' PROVE Restored(r)'
  BY <1>1, <1>4, <1>5, <1>6, CarriedStays DEF RestoreInv
<1>7. QED BY <1>1, <1>3, <1>6 DEF RestoreInv

\* Who finds a profile finds it there; who finds none cannot be outrun.
LEMMA FindRestores ==
  ASSUME TasksInv, RestoreInv, NEW t \in Tasks, Find(t)
  PROVE  RestoreInv'
<1> DEFINE id == profile[task[t].source].id
           k == [task[t] EXCEPT !.pc = "save", !.ids = {id}]
<1>1. TaskOK(task[t]) /\ task[t].pc = "find" /\ task[t].op # "regenerate_all"
  BY DEF Find, At, TasksInv, TaskOK
<1>2. k.op = task[t].op /\ k.job = task[t].job /\ k.ids = {id}
  BY <1>1 DEF TaskOK, TaskFields
<1>3. /\ task' = [task EXCEPT ![t] = k]
      /\ UNCHANGED <<phase, tries, asks, profile, lastId, promised, faults>>
  BY DEF Find, queue, tables, ghosts, bounds
<1> HIDE DEF k
<1>4. task'[t] = k /\ \A u \in Tasks : u # t => task'[u] = task[u]
  BY <1>3 DEF TasksInv
<1>5. OldIds'
  BY <1>1, <1>2, <1>3, <1>4 DEF RestoreInv, OldIds
<1>6. ASSUME NEW s \in Sources PROVE Carried(s)
  <2>1. ASSUME NEW j \in Jobs, Generates(j, s), Outrun(j)' PROVE Outrun(j) \/ Exists(s)
    <3>1. PICK u \in Tasks : task'[u].job = j /\ task'[u].pc = "save" /\ task'[u].ids # {0}
      BY <2>1 DEF Outrun
    <3>2. CASE u # t
      BY <1>4, <3>1, <3>2 DEF Outrun
    <3>3. CASE u = t
      <4>1. task[t].job = j /\ id # 0
        BY <1>2, <1>4, <3>1, <3>3
      <4>2. task[t].source = s
        BY <2>1, <4>1, JobOfTask DEF IsJob, Generates
      <4>3. QED BY <4>1, <4>2 DEF Exists
    <3>4. QED BY <3>2, <3>3
  <2>2. \A u \in Tasks : DoomedBy(u, s)' => DoomedBy(u, s)
    BY <1>1, <1>2, <1>3, <1>4 DEF DoomedBy
  <2>3. QED BY <1>3, <2>1, <2>2 DEF Carried, Generates
<1>7. QED BY <1>3, <1>5, <1>6, CarriedStays DEF RestoreInv

\* A failure: nothing is promised any more.
LEMMA FaultRestores ==
  ASSUME TasksInv, RestoreInv, CountersInv, NEW t \in Tasks,
         \/ GenerateFails(t) \/ Crash(t) \/ \E s \in Sources : QueueRegenerationFails(t, s)
  PROVE  RestoreInv'
<1>1. faults' # 0 /\ promised' = promised /\ lastId' = lastId
  BY DEF GenerateFails, Crash, QueueRegenerationFails, Fault, CountersInv, ghosts, tables
<1>2. OldIds'
  <2>1. CASE GenerateFails(t) \/ Crash(t)
    <3>1. task'[t] = Idle /\ \A u \in Tasks : u # t => task'[u] = task[u]
      BY <2>1 DEF GenerateFails, NotGenerated, Fail, Crash, EndTask, TasksInv
    <3>2. QED BY <1>1, <3>1 DEF RestoreInv, OldIds, Idle
  <2>2. ASSUME NEW s \in Sources, QueueRegenerationFails(t, s) PROVE OldIds'
    <3>1. task' = [task EXCEPT ![t].todo = task[t].todo \ {s}]
      BY <2>2 DEF QueueRegenerationFails
    <3>2. \A u \in Tasks : task'[u].op = task[u].op /\ task'[u].ids = task[u].ids
      BY <3>1 DEF TasksInv, TaskOK, TaskFields
    <3>3. QED BY <1>1, <3>2 DEF RestoreInv, OldIds
  <2>3. QED BY <2>1, <2>2
<1>3. QED BY <1>1, <1>2 DEF RestoreInv

\* A translation ends: its job generates nothing.
LEMMA TranslateRestores ==
  ASSUME TasksInv, RestoreInv, NEW t \in Tasks, TranslateRaises(t) \/ TranslateNothing(t)
  PROVE  RestoreInv'
<1>1. /\ UNCHANGED <<profile, lastId, promised, faults>>
      /\ Succeed(t) \/ Fail(t)
      /\ task[t].op = "translate"
  BY DEF TranslateRaises, TranslateNothing, At, TasksInv, TaskOK, ghosts, bounds
<1>2. task'[t] = Idle /\ \A u \in Tasks : u # t => task'[u] = task[u]
  BY <1>1 DEF Succeed, Fail, EndTask, TasksInv
<1>3. OldIds'
  BY <1>1, <1>2 DEF RestoreInv, OldIds, Idle
<1>4. ASSUME NEW s \in Sources PROVE Carried(s)
  BY <1>1, OutcomeLeaves, OtherJobs, JobOfTask
<1>5. QED BY <1>1, <1>3, <1>4, CarriedStays DEF RestoreInv

LEMMA StepRestores ==
  ASSUME MaxAttempts > 1, TasksInv, IdsInv, RestoreInv, CountersInv, NEW t \in Tasks, Step(t)
  PROVE  RestoreInv'
<1>1. TaskOK(task[t])
  BY DEF TasksInv
<1>2. CASE Load(t)
  <2> DEFINE new == Rendered(row[task[t].source])
             k == [task[t] EXCEPT !.pc = "find", !.text = new]
  <2>1. task' = [task EXCEPT ![t] = k] /\ UNCHANGED <<queue, tables, ghosts, bounds>>
    BY <1>2 DEF Load
  <2> HIDE DEF new
  <2>2. k.op # "regenerate_all" /\ k.pc # "save"
    BY <1>1, <1>2 DEF Load, At, TaskOK, TaskFields
  <2> HIDE DEF k
  <2>3. QED BY <2>1, <2>2, QuietStep DEF queue, tables, ghosts, bounds
<1>3. ASSUME NEW s \in Sources, GenerateNext(t, s) PROVE RestoreInv'
  <2> DEFINE k == [task[t] EXCEPT !.todo = task[t].todo \ {s}, !.source = s,
                                  !.pc = IF Exists(s) THEN "next" ELSE "load"]
  <2>1. task' = [task EXCEPT ![t] = k] /\ UNCHANGED <<queue, tables, ghosts, bounds>>
    BY <1>3 DEF GenerateNext
  <2>2. k.op # "regenerate_all" /\ k.pc # "save"
    BY <1>1, <1>3 DEF GenerateNext, At, TaskOK, TaskFields
  <2> HIDE DEF k
  <2>3. QED BY <2>1, <2>2, QuietStep DEF queue, tables, ghosts, bounds
<1>4. CASE EndGenerateAll(t) \/ EndRevalidate(t) \/ EndEnglish(t)
  <2>1. task' = [task EXCEPT ![t] = Idle] /\ UNCHANGED <<queue, profile, lastId, ghosts, bounds>>
    BY <1>4 DEF EndGenerateAll, EndRevalidate, EndEnglish, EndTask, tables
  <2>2. Idle.op # "regenerate_all" /\ Idle.pc # "save"
    BY DEF Idle
  <2>3. QED BY <2>1, <2>2, QuietStep DEF queue, ghosts, bounds
<1>5. QED BY <1>2, <1>3, <1>4, FindRestores, SaveRestores, CommitRestores, QueueRestores,
         FaultRestores, TranslateRestores DEF Step

\* The deletion begins: every source that stays promised is still to be queued.
LEMMA RegenerationBegins ==
  ASSUME TasksInv, IdsInv, RestoreInv, NEW t \in Tasks, RegenerateAll(t)
  PROVE  RestoreInv'
<1> DEFINE old == {profile[s].id : s \in {r \in Sources : Exists(r)}}
           k == [Idle EXCEPT !.op = "regenerate_all", !.pc = "queue", !.todo = Completed,
                             !.ids = old]
<1>1. /\ task' = [task EXCEPT ![t] = k] /\ promised' = promised \cap Completed
      /\ UNCHANGED <<phase, tries, asks, profile, lastId, faults>>
  BY DEF RegenerateAll, BeginTask, Begin, queue, tables
<1>2. old \subseteq 1..lastId
  BY DEF IdsInv, Exists
<1> HIDE DEF old
<1>3. k.pc # "save" /\ k.ids = old /\ k.todo = Completed
  BY DEF Idle
<1> HIDE DEF k
<1>4. task'[t] = k /\ \A u \in Tasks : u # t => task'[u] = task[u]
  BY <1>1 DEF TasksInv
<1>5. OldIds'
  BY <1>1, <1>2, <1>3, <1>4 DEF RestoreInv, OldIds
<1>6. ASSUME NEW s \in Sources, s \in Completed PROVE Carried(s)
  BY <1>1, <1>3, <1>4, <1>6 DEF Carried, Generates, Outrun, DoomedBy
<1>7. QED BY <1>1, <1>5, <1>6, CarriedStays DEF RestoreInv

LEMMA StartRestores ==
  ASSUME TasksInv, IdsInv, RestoreInv, NEW t \in Tasks, StartTask(t)
  PROVE  RestoreInv'
<1>1. ASSUME NEW j \in Jobs, TakeJob(t, j) PROVE RestoreInv'
  <2> DEFINE k == [Idle EXCEPT !.op = asks[j][1], !.source = asks[j][2], !.job = j,
                     !.pc = IF asks[j][1] = "translate" /\ Exists(asks[j][2])
                            THEN "marks" ELSE "load"]
  <2>1. /\ task' = [task EXCEPT ![t] = k] /\ UNCHANGED <<asks, tries, tables, ghosts, bounds>>
        /\ phase[j] = "waiting" /\ phase' = [phase EXCEPT ![j] = "taken"]
    BY <1>1 DEF TakeJob, BeginTask, Take, Move
  <2>2. asks[j][1] \in {"generate", "translate"}
    BY <2>1 DEF TasksInv, AskOK, Live
  <2>3. k.op # "regenerate_all" /\ k.pc # "save"
    BY <2>2 DEF Idle
  <2>4. \A i \in Jobs : phase[i] \in Live => phase'[i] \in Live
    BY <2>1 DEF TasksInv, DeliveryTypeOK, Live
  <2> HIDE DEF k
  <2>5. QED BY <2>1, <2>3, <2>4, QuietStep DEF tables, ghosts, bounds
<1>2. ASSUME NEW op \in {"revalidate_all", "revalidate_missing", "revalidate_source"}, NEW s,
             BeginRevalidate(t, op, s)
      PROVE  RestoreInv'
  <2> DEFINE read == [p \in Picked(op, s) |-> row[p[1]][p[2]]]
             k == [Idle EXCEPT !.op = op, !.pc = "validating", !.read = read]
  <2>1. task' = [task EXCEPT ![t] = k]
        /\ UNCHANGED <<queue, profile, lastId, promised, faults>>
    BY <1>2 DEF BeginRevalidate, BeginTask, Begin, tables
  <2> HIDE DEF read
  <2>2. k.op # "regenerate_all" /\ k.pc # "save"
    BY DEF Idle
  <2> HIDE DEF k
  <2>3. QED BY <2>1, <2>2, QuietStep DEF queue
<1>3. ASSUME NEW s \in Sources, Regenerate(t, s) PROVE RestoreInv'
  <2> DEFINE k == [Idle EXCEPT !.op = "regenerate", !.source = s, !.pc = "load"]
  <2>1. task' = [task EXCEPT ![t] = k]
        /\ UNCHANGED <<queue, profile, lastId, promised, faults>>
    BY <1>3 DEF Regenerate, BeginTask, Begin, tables, ghosts
  <2>2. k.op # "regenerate_all" /\ k.pc # "save"
    BY DEF Idle
  <2> HIDE DEF k
  <2>3. QED BY <2>1, <2>2, QuietStep DEF queue
<1>4. CASE GenerateAll(t)
  <2> DEFINE k == [Idle EXCEPT !.op = "generate_all", !.pc = "next", !.todo = Completed]
  <2>1. task' = [task EXCEPT ![t] = k]
        /\ UNCHANGED <<queue, profile, lastId, promised, faults>>
    BY <1>4 DEF GenerateAll, BeginTask, Begin, tables, ghosts
  <2>2. k.op # "regenerate_all" /\ k.pc # "save"
    BY DEF Idle
  <2> HIDE DEF k
  <2>3. QED BY <2>1, <2>2, QuietStep DEF queue
<1>5. CASE BeginEnglish(t)
  <2> DEFINE read == [s \in {r \in Sources : profile[r].published} |-> profile[s]]
             k == [Idle EXCEPT !.op = "english", !.pc = "english", !.read = read]
  <2>1. task' = [task EXCEPT ![t] = k]
        /\ UNCHANGED <<queue, profile, lastId, promised, faults>>
    BY <1>5 DEF BeginEnglish, BeginTask, Begin, tables, ghosts
  <2> HIDE DEF read
  <2>2. k.op # "regenerate_all" /\ k.pc # "save"
    BY DEF Idle
  <2> HIDE DEF k
  <2>3. QED BY <2>1, <2>2, QuietStep DEF queue
<1>6. QED BY <1>1, <1>2, <1>3, <1>4, <1>5, RegenerationBegins DEF StartTask

LEMMA RequestRestores ==
  ASSUME TasksInv, IdsInv, RestoreInv, Request
  PROVE  RestoreInv'
<1>1. ASSUME promised' \subseteq promised, UNCHANGED <<lastId, faults>>,
             \A t \in Tasks : task'[t].op = "regenerate_all" => task'[t] = task[t],
             \A s \in promised' : Carried(s)
      PROVE  RestoreInv'
  <2>1. OldIds'
    BY <1>1 DEF RestoreInv, OldIds
  <2>2. QED BY <1>1, <2>1, CarriedStays DEF RestoreInv
<1>2. ASSUME UNCHANGED <<queue, task, promised, lastId, faults>>,
             \A s \in Sources : profile'[s].id = profile[s].id
      PROVE  RestoreInv'
  <2>1. \A s \in Sources : Carried(s)
    BY <1>2 DEF Carried, Generates, Outrun, DoomedBy, queue
  <2>2. promised' \subseteq Sources
    BY <1>2 DEF RestoreInv
  <2>3. QED BY <1>1, <1>2, <2>1, <2>2
<1>3. ASSUME NEW s \in Sources, ReExtract(s) \/ DeleteProfile(s) PROVE RestoreInv'
  <2>1. /\ profile' = [profile EXCEPT ![s] = NoProfile] /\ promised' = promised \ {s}
        /\ UNCHANGED <<phase, tries, asks, lastId, faults>>
    BY <1>3 DEF ReExtract, DeleteProfile, Begin, queue
  <2>2. \A t \in Tasks : /\ task'[t].op = task[t].op /\ task'[t].pc = task[t].pc
                         /\ task'[t].job = task[t].job /\ task'[t].ids = task[t].ids
                         /\ task'[t].todo = task[t].todo
                         /\ task'[t].op = "regenerate_all" => task'[t] = task[t]
    <3>1. CASE DeleteProfile(s)
      BY <3>1 DEF DeleteProfile
    <3>2. ASSUME ReExtract(s), NEW t \in Tasks
          PROVE  /\ task'[t].op = task[t].op /\ task'[t].pc = task[t].pc
                 /\ task'[t].job = task[t].job /\ task'[t].ids = task[t].ids
                 /\ task'[t].todo = task[t].todo
                 /\ task'[t].op = "regenerate_all" => task'[t] = task[t]
      <4> DEFINE read == [p \in DOMAIN task[t].read |->
                            IF p[1] = s THEN NoRow ELSE task[t].read[p]]
      <4>1. task'[t] = IF task[t].pc # "validating" THEN task[t]
                       ELSE [task[t] EXCEPT !.read = read]
        BY <3>2 DEF ReExtract
      <4> HIDE DEF read
      <4>2. QED BY <4>1 DEF TasksInv, TaskOK, TaskFields
    <3>3. QED BY <1>3, <3>1, <3>2
  <2>3. ASSUME NEW r \in Sources, r # s PROVE Carried(r)
    <3>1. profile'[r] = profile[r]
      BY <2>1, <2>3 DEF IdsInv
    <3>2. QED BY <2>1, <2>2, <3>1 DEF Carried, Generates, Outrun, DoomedBy
  <2>4. \A r \in promised' : Carried(r)
    BY <2>1, <2>3 DEF RestoreInv
  <2>5. QED BY <1>1, <2>1, <2>2, <2>4
<1>4. ASSUME NEW s \in Sources, WriteProfile(s) PROVE RestoreInv'
  <2> DEFINE byHand == [f \in Fields |-> "by hand"]
  <2>1. /\ profile' = [profile EXCEPT ![s].text = byHand]
        /\ UNCHANGED <<queue, task, promised, lastId, faults>>
    BY <1>4 DEF WriteProfile, Begin, ghosts
  <2> HIDE DEF byHand
  <2>2. \A r \in Sources : profile'[r].id = profile[r].id
    BY <2>1 DEF IdsInv
  <2>3. QED BY <1>2, <2>1, <2>2
<1>5. ASSUME NEW s \in Sources, Publish(s) \/ Unpublish(s) PROVE RestoreInv'
  <2>1. PICK b \in BOOLEAN : profile' = [profile EXCEPT ![s].published = b]
    BY <1>5 DEF Publish, Unpublish
  <2>2. UNCHANGED <<queue, task, promised, lastId, faults>>
    BY <1>5 DEF Publish, Unpublish, Begin
  <2>3. \A r \in Sources : profile'[r].id = profile[r].id
    BY <2>1 DEF IdsInv
  <2>4. QED BY <1>2, <2>2, <2>3
<1>6. CASE PublishAll
  <2>1. \A r \in Sources : profile'[r].id = profile[r].id
    BY <1>6 DEF PublishAll, IdsInv
  <2>2. UNCHANGED <<queue, task, promised, lastId, faults>>
    BY <1>6 DEF PublishAll, Begin
  <2>3. QED BY <1>2, <2>1, <2>2
<1>7. ASSUME NEW op, QueueTranslations(op) PROVE RestoreInv'
  <2>1. EnqueueAll("translate", NeedTranslation(op))
        /\ UNCHANGED <<task, profile, promised, lastId, faults>>
    BY <1>7 DEF QueueTranslations, Begin, tables, ghosts
  <2>2. \A j \in Jobs : phase[j] \in Live =>
          phase'[j] = phase[j] /\ asks'[j] = asks[j] /\ tries'[j] = tries[j]
    BY <2>1 DEF EnqueueAll, Live
  <2>3. \A s \in Sources : Carried(s)
    BY <2>1, <2>2 DEF Carried, Generates, Outrun, DoomedBy
  <2>4. QED BY <1>1, <2>1, <2>3 DEF RestoreInv
<1>8. ASSUME NEW s \in Sources,
             TranslateSource(s) \/ \E f \in Fields, v \in {"edit", "raw"} : EditExtraction(s, f, v)
      PROVE  RestoreInv'
  BY <1>2, <1>8 DEF TranslateSource, EditExtraction, Begin, ghosts
<1>9. CASE TranslatePending
  BY <1>2, <1>9 DEF TranslatePending, Begin, tables, ghosts
<1>10. QED BY <1>3, <1>4, <1>5, <1>6, <1>7, <1>8, <1>9 DEF Request

LEMMA NextRestores ==
  ASSUME MaxAttempts > 1
  PROVE  TypesInv /\ RestoreInv /\ [PNext]_pvars => RestoreInv'
<1> SUFFICES ASSUME TypesInv, RestoreInv, [PNext]_pvars PROVE RestoreInv'
  OBVIOUS
<1>1. CASE Store \/ UNCHANGED pvars
  <2>1. UNCHANGED <<queue, task, promised, profile, lastId, faults>>
    BY <1>1 DEF Store, StoreExtraction, pvars, tables, ghosts, bounds
  <2>2. \A s \in Sources : Carried(s)
    BY <2>1 DEF Carried, Generates, Outrun, DoomedBy, queue
  <2>3. OldIds'
    BY <2>1 DEF RestoreInv, OldIds
  <2>4. QED BY <2>1, <2>2, <2>3, CarriedStays DEF RestoreInv
<1>2. QED BY <1>1, RequestRestores, StartRestores, StepRestores
         DEF PNext, TypesInv, PublicInv

\* For any sources, fields, jobs and tasks, where a job has more than one try
\* (max_attempts is 3): no interleaving of regenerate_all_steckbriefe() with its
\* own jobs, other generations and deletions loses a profile.  With one try it
\* would: a job that found the old profile fails when the deletion commits.
THEOREM DeletedProfilesComeBack ==
  ASSUME MaxAttempts > 1
  PROVE  PSpec => []RegenerationRestores
<1>1. PInit => TypesInv /\ RestoreInv
  <2>1. PInit => RestoreInv
    BY DEF PInit, RestoreInv, OldIds, Idle
  <2>2. QED BY <2>1, InitTypesInv
<1>2. RestoreInv => RegenerationRestores
  <2> SUFFICES ASSUME RestoreInv, faults = 0, NEW s \in promised, ~Exists(s)
               PROVE  \E j \in Jobs : asks[j] = <<"generate", s>>
                                      /\ phase[j] \in {"waiting", "taken"}
    BY DEF RegenerationRestores
  <2>1. Restored(s)
    BY DEF RestoreInv
  <2>2. QED BY <2>1 DEF Restored, Generates, Live
<1>3. TypesInv /\ RestoreInv /\ [PNext]_pvars => TypesInv' /\ RestoreInv'
  BY NextTypes, NextRestores
<1>4. QED BY <1>1, <1>2, <1>3, PTL DEF PSpec
=============================================================================
