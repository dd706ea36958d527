-------------------------- MODULE PromptEngineProofs --------------------------
(***************************************************************************)
(* What PromptEngine promises, for any catalogue, any jobs and any number  *)
(* of requests: the catalogue holds together whoever edits it, the calls   *)
(* and the sleep of a job are bounded, a row that is sure was validated,   *)
(* and a batch runs each prompt once, after those it needs.                *)
(***************************************************************************)
EXTENDS PromptEngine, FiniteSetTheorems, WellFoundedInduction, TLAPS

-----------------------------------------------------------------------------
(***************************************************************************)
(* The catalogue                                                           *)
(***************************************************************************)
PromptRecords == [there : BOOLEAN, active : BOOLEAN, text : Texts, tries : MaxRetries]

LEMMA NoPromptTyped == NoPrompt \in PromptRecords /\ ~NoPrompt.there
BY CatalogueAssumption DEF NoPrompt, PromptRecords, Texts

\* A prompt is stored: what refers to prompts refers to one that is there.
LEMMA StoredPrompt ==
  ASSUME CatalogueTypeOK, NEW p \in Prompts, NEW r \in PromptRecords, r.there,
         prompt' = [prompt EXCEPT ![p] = r], ops' \in 0..MaxOps,
         UNCHANGED <<depends, category, assigned, home>>
  PROVE  CatalogueTypeOK' /\ PromptsThere \subseteq PromptsThere'
<1>1. /\ prompt \in [Prompts -> PromptRecords]
      /\ \A q \in Prompts : prompt[q].there \/ prompt[q] = NoPrompt
  BY DEF CatalogueTypeOK, PromptRecords
<1>2. /\ prompt' \in [Prompts -> PromptRecords] /\ prompt'[p] = r
      /\ \A q \in Prompts : q # p => prompt'[q] = prompt[q]
  BY <1>1
<1>3. PromptsThere \subseteq PromptsThere'
  BY <1>2 DEF PromptsThere
<1>4. \A q \in Prompts : prompt'[q].there \/ prompt'[q] = NoPrompt
  BY <1>1, <1>2
<1>5. NoPrompt' = NoPrompt /\ CategoriesThere' = CategoriesThere /\ NoCategory' = NoCategory
  BY DEF NoPrompt, CategoriesThere, NoCategory
<1>6. QED BY <1>2, <1>3, <1>4, <1>5 DEF CatalogueTypeOK, PromptRecords

\* The files are loaded: what was there stays there.
LEMMA SyncedCatalogue ==
  ASSUME CatalogueTypeOK, NEW force \in BOOLEAN, Synced(force), ops' \in 0..MaxOps
  PROVE  CatalogueTypeOK' /\ PromptsThere \subseteq PromptsThere'
<1>1. ASSUME NEW p \in Prompts
      PROVE  Seeded(p, force) \in PromptRecords /\ Seeded(p, force).there
  <2>1. prompt[p] \in PromptRecords
    BY DEF CatalogueTypeOK, PromptRecords
  <2>2. CASE prompt[p].there
    <3> DEFINE r == [prompt[p] EXCEPT !.active = TRUE, !.text = "file"]
    <3>1. r \in PromptRecords /\ r.there
      BY <2>1, <2>2 DEF PromptRecords, Texts
    <3>2. Seeded(p, force) = IF force THEN r ELSE prompt[p]
      BY <2>2 DEF Seeded
    <3> HIDE DEF r
    <3>3. QED BY <2>1, <2>2, <3>1, <3>2
  <2>3. CASE ~prompt[p].there
    BY <2>3, CatalogueAssumption DEF Seeded, PromptRecords, Texts
  <2>4. QED BY <2>2, <2>3
<1>2. /\ prompt' = [p \in Prompts |->
            IF \E c \in DOMAIN File : p \in File[c] THEN Seeded(p, force) ELSE prompt[p]]
      /\ category' = [c \in Categories |->
            IF c \in DOMAIN File /\ (force \/ ~category[c].there)
            THEN [there |-> TRUE, active |-> TRUE, text |-> "file"] ELSE category[c]]
      /\ assigned' = {a \in assigned : ~force \/ a[1] \notin DOMAIN File}
                     \cup {a \in Categories \X Prompts :
                             a[1] \in DOMAIN File /\ a[2] \in File[a[1]]}
      /\ UNCHANGED <<depends, home>>
  BY DEF Synced
<1>3. /\ prompt' \in [Prompts -> PromptRecords]
      /\ \A p \in Prompts : (\E c \in DOMAIN File : p \in File[c]) => prompt'[p].there
      /\ \A p \in Prompts : ~(\E c \in DOMAIN File : p \in File[c]) => prompt'[p] = prompt[p]
  BY <1>1, <1>2 DEF CatalogueTypeOK, PromptRecords
<1>4. PromptsThere \subseteq PromptsThere'
  BY <1>3 DEF PromptsThere
<1>5. \A p \in Prompts : prompt'[p].there \/ prompt'[p] = NoPrompt
  BY <1>3 DEF CatalogueTypeOK
<1>6. /\ category' \in [Categories -> [there : BOOLEAN, active : BOOLEAN, text : Texts]]
      /\ \A c \in Categories : category[c].there => category'[c].there
      /\ \A c \in DOMAIN File : c \in Categories => category'[c].there
      /\ \A c \in Categories : category'[c].there \/ category'[c] = NoCategory
  BY <1>2 DEF CatalogueTypeOK, Texts
<1>7. CategoriesThere \subseteq CategoriesThere'
  BY <1>6 DEF CategoriesThere
<1>8. assigned' \subseteq CategoriesThere' \X PromptsThere'
  <2>1. ASSUME NEW a \in Categories \X Prompts, a[1] \in DOMAIN File, a[2] \in File[a[1]]
        PROVE  a \in CategoriesThere' \X PromptsThere'
    <3>1. a[1] \in Categories /\ a[2] \in Prompts /\ a = <<a[1], a[2]>>
      OBVIOUS
    <3>2. category'[a[1]].there /\ prompt'[a[2]].there
      BY <1>3, <1>6, <2>1, <3>1
    <3>3. QED BY <3>1, <3>2 DEF CategoriesThere, PromptsThere
  <2>2. QED BY <1>2, <1>4, <1>7, <2>1 DEF CatalogueTypeOK
<1>9. /\ depends' \subseteq PromptsThere' \X PromptsThere'
      /\ home' \in CategoriesThere' \cup {"none", "gone"}
  BY <1>2, <1>4, <1>7 DEF CatalogueTypeOK
<1>10. NoPrompt' = NoPrompt /\ NoCategory' = NoCategory
  BY DEF NoPrompt, NoCategory
<1>11. QED BY <1>3, <1>4, <1>5, <1>6, <1>8, <1>9, <1>10 DEF CatalogueTypeOK, PromptRecords

LEMMA ChangedCatalogue ==
  ASSUME CatalogueTypeOK, ChangeCatalogue
  PROVE  CatalogueTypeOK' /\ PromptsThere \subseteq PromptsThere'
<1>1. ASSUME NEW p \in Prompts, CreatePrompt(p) \/ UpdatePrompt(p)
      PROVE  CatalogueTypeOK' /\ PromptsThere \subseteq PromptsThere'
  <2>1. PICK n \in MaxRetries, on \in BOOLEAN :
          prompt' = [prompt EXCEPT ![p] =
                       [there |-> TRUE, active |-> on, text |-> "edited", tries |-> n]]
    BY <1>1 DEF CreatePrompt, UpdatePrompt
  <2> DEFINE r == [there |-> TRUE, active |-> on, text |-> "edited", tries |-> n]
  <2>2. r \in PromptRecords /\ r.there
    BY DEF PromptRecords, Texts
  <2>3. prompt' = [prompt EXCEPT ![p] = r]
    BY <2>1
  <2> HIDE DEF r
  <2>4. ops' \in 0..MaxOps /\ UNCHANGED <<depends, category, assigned, home>>
    BY <1>1, CatalogueAssumption DEF CreatePrompt, UpdatePrompt, Request, CatalogueTypeOK
  <2>5. QED BY <2>2, <2>3, <2>4, StoredPrompt
<1>2. ASSUME Request PROVE ops' \in 0..MaxOps
  BY <1>2, CatalogueAssumption DEF Request, CatalogueTypeOK
<1>3. ASSUME UNCHANGED prompt
      PROVE  PromptsThere' = PromptsThere
             /\ (\A p \in Prompts : prompt[p].there \/ prompt[p] = NoPrompt)'
  BY <1>3 DEF PromptsThere, CatalogueTypeOK, NoPrompt
<1>4. ASSUME UNCHANGED category
      PROVE  CategoriesThere' = CategoriesThere
  BY <1>4 DEF CategoriesThere
<1>5. ASSUME \/ \E p, q \in Prompts : AddDependency(p, q)
             \/ \E d \in depends : RemoveDependency(d)
             \/ \E c \in Categories, p \in Prompts : AssignPrompt(c, p) \/ RemovePrompt(c, p)
             \/ \E c \in Categories : UpdateSource(c)
      PROVE  CatalogueTypeOK' /\ PromptsThere \subseteq PromptsThere'
  <2>1. Request /\ UNCHANGED <<prompt, category>>
    BY <1>5 DEF AddDependency, RemoveDependency, AssignPrompt, RemovePrompt, UpdateSource
  <2>2. /\ depends' \subseteq PromptsThere \X PromptsThere
        /\ assigned' \subseteq CategoriesThere \X PromptsThere
        /\ home' \in CategoriesThere \cup {"none", "gone"}
    BY <1>5 DEF AddDependency, RemoveDependency, AssignPrompt, RemovePrompt, UpdateSource,
       CatalogueTypeOK, PromptsThere, CategoriesThere
  <2>3. QED BY <1>2, <1>3, <1>4, <2>1, <2>2 DEF CatalogueTypeOK, NoPrompt, NoCategory
<1>6. ASSUME NEW c \in Categories, CreateCategory(c) \/ UpdateCategory(c)
      PROVE  CatalogueTypeOK' /\ PromptsThere \subseteq PromptsThere'
  <2>1. Request /\ UNCHANGED <<prompt, depends, assigned, home>>
    BY <1>6 DEF CreateCategory, UpdateCategory
  <2>2. /\ category' \in [Categories -> [there : BOOLEAN, active : BOOLEAN, text : Texts]]
        /\ category'[c].there /\ \A d \in Categories : d # c => category'[d] = category[d]
    <3> DEFINE Record == [there : BOOLEAN, active : BOOLEAN, text : Texts]
    <3>1. PICK r \in Record : r.there /\ category' = [category EXCEPT ![c] = r]
      <4>1. CASE CreateCategory(c)
        <5> DEFINE r == [there |-> TRUE, active |-> TRUE, text |-> "edited"]
        <5>1. r \in Record /\ r.there
          BY DEF Texts
        <5>2. category' = [category EXCEPT ![c] = r]
          BY <4>1 DEF CreateCategory
        <5> HIDE DEF r, Record
        <5>3. QED BY <5>1, <5>2
      <4>2. CASE UpdateCategory(c)
        <5>1. PICK on \in BOOLEAN :
                category' = [category EXCEPT ![c].active = on, ![c].text = "edited"]
          BY <4>2 DEF UpdateCategory
        <5> DEFINE r == [category[c] EXCEPT !.active = on, !.text = "edited"]
        <5>2. r \in Record /\ r.there
          BY <4>2 DEF UpdateCategory, CatalogueTypeOK, Texts
        <5>3. category' = [category EXCEPT ![c] = r]
          BY <5>1 DEF CatalogueTypeOK
        <5> HIDE DEF r, Record
        <5>4. QED BY <5>2, <5>3
      <4>3. QED BY <1>6, <4>1, <4>2
    <3>2. QED BY <3>1 DEF CatalogueTypeOK
  <2>3. CategoriesThere \subseteq CategoriesThere'
    BY <2>2 DEF CategoriesThere
  <2>4. QED BY <1>2, <1>3, <2>1, <2>2, <2>3 DEF CatalogueTypeOK, NoCategory
<1>7. ASSUME NEW c \in Categories, NEW force \in BOOLEAN, DeleteCategory(c, force)
      PROVE  CatalogueTypeOK' /\ PromptsThere \subseteq PromptsThere'
  <2>1. Request /\ UNCHANGED <<prompt, depends>> /\ category[c].there
    BY <1>7 DEF DeleteCategory
  <2>2. CASE home = c /\ ~force
    <3>1. category' = [category EXCEPT ![c].active = FALSE] /\ UNCHANGED <<assigned, home>>
      BY <1>7, <2>2 DEF DeleteCategory
    <3>2. /\ category' \in [Categories -> [there : BOOLEAN, active : BOOLEAN, text : Texts]]
          /\ \A d \in Categories : category'[d].there = category[d].there
          /\ \A d \in Categories : d # c => category'[d] = category[d]
      BY <3>1 DEF CatalogueTypeOK
    <3>3. CategoriesThere' = CategoriesThere
      BY <3>2 DEF CategoriesThere
    <3>4. QED BY <1>2, <1>3, <2>1, <3>1, <3>2, <3>3 DEF CatalogueTypeOK, NoCategory
  <2>3. CASE ~(home = c /\ ~force)
    <3>1. /\ category' = [category EXCEPT ![c] = NoCategory]
          /\ assigned' = {a \in assigned : a[1] # c}
          /\ home' = IF home = c THEN "none" ELSE home
      BY <1>7, <2>3 DEF DeleteCategory
    <3>2. NoCategory \in [there : BOOLEAN, active : BOOLEAN, text : Texts] /\ ~NoCategory.there
      BY DEF NoCategory, Texts
    <3>3. /\ category' \in [Categories -> [there : BOOLEAN, active : BOOLEAN, text : Texts]]
          /\ category'[c] = NoCategory
          /\ \A d \in Categories : d # c => category'[d] = category[d]
      BY <3>1, <3>2 DEF CatalogueTypeOK
    <3>4. CategoriesThere' = CategoriesThere \ {c}
      BY <3>2, <3>3 DEF CategoriesThere
    <3>5. assigned' \subseteq CategoriesThere' \X PromptsThere
      BY <3>1, <3>4 DEF CatalogueTypeOK
    <3>6. home' \in CategoriesThere' \cup {"none", "gone"}
      BY <3>1, <3>4 DEF CatalogueTypeOK
    <3>7. \A d \in Categories : category'[d].there \/ category'[d] = NoCategory
      BY <3>3 DEF CatalogueTypeOK
    <3>8. NoCategory' = NoCategory
      BY DEF NoCategory
    <3>9. QED BY <1>2, <1>3, <2>1, <3>3, <3>5, <3>6, <3>7, <3>8 DEF CatalogueTypeOK
  <2>4. QED BY <2>2, <2>3
<1>8. ASSUME NEW force \in BOOLEAN, LoadCategories(force)
      PROVE  CatalogueTypeOK' /\ PromptsThere \subseteq PromptsThere'
  BY <1>2, <1>8, SyncedCatalogue DEF LoadCategories
<1>9. QED BY <1>1, <1>5, <1>6, <1>7, <1>8 DEF ChangeCatalogue

-----------------------------------------------------------------------------
(***************************************************************************)
(* Calls                                                                   *)
(***************************************************************************)
\* What a row may say of itself.
Sound(r) ==
  /\ r.sure /\ Required > 0 => r.val # "none" /\ r.believed
  /\ r.val # "none" => r.raw # "none"
  /\ r.val # "none" /\ ~r.again => r.by = r.raw

Cap == 5 * MaxBackoff

\* Attempts made so far are calls at most, and one sleep less; the second phase
\* starts from what the first used up.
CallOK(k) ==
  /\ k \in Calls
  /\ k.attempt <= k.tries
  /\ k.pc = "none" => k = NoCall
  /\ k.pc = "load" => k.calls = 0 /\ k.sleep = 0
  /\ k.pc = "extract" => k.calls <= k.attempt - 1 /\ k.sleep <= (k.attempt - 1) * Cap
  /\ k.pc = "format" =>
       /\ k.attempt = 1 /\ k.calls <= k.tries /\ k.sleep <= (k.tries - 1) * Cap
  /\ k.pc = "validate" =>
       /\ k.calls <= k.tries + k.attempt - 1
       /\ k.sleep <= (k.tries + k.attempt - 2) * Cap
  /\ k.calls <= 2 * k.tries /\ k.sleep <= (2 * k.tries - 2) * Cap
  /\ k.pc \in {"format", "validate"} => k.got.raw = k.text
  /\ k.pc \in {"extract", "format", "validate"} => k.got.val = "none"
  /\ k.pc \notin {"format", "validate", "raised"} => Sound(k.got)

CallsInv == call \in [Prompts -> Calls] /\ \A p \in Prompts : CallOK(call[p])

LEMMA Bounds ==
  /\ MaxRetries \subseteq 1..10 /\ Default \in 1..10 /\ Cap \in Nat
  /\ \A t \in MaxRetries : t \in 1..10 /\ (2 * t - 2) * Cap \in Nat
BY CatalogueAssumption, PromptEngineAssumption DEF Cap

LEMMA OneMore ==
  ASSUME NEW m \in Nat, NEW slept \in Nat, slept <= m * Cap, NEW wait \in 0..Cap
  PROVE  slept + wait <= (m + 1) * Cap
<1>1. m * Cap \in Nat /\ (m + 1) * Cap = m * Cap + Cap
  BY Bounds
<1>2. QED BY <1>1, Bounds

LEMMA Monotone ==
  ASSUME NEW m \in Nat, NEW n \in Nat, m <= n, NEW slept \in Nat, slept <= m * Cap
  PROVE  slept <= n * Cap
<1> DEFINE d == n - m
<1>1. d \in Nat /\ n = m + d
  OBVIOUS
<1> HIDE DEF d
<1>2. m * Cap \in Nat /\ d * Cap \in Nat /\ n * Cap = m * Cap + d * Cap
  BY <1>1, Bounds
<1>3. QED BY <1>2

LEMMA ResultsTyped ==
  /\ NoRow \in Results /\ Sound(NoRow) /\ NoRow.val = "none"
  /\ \A r \in Results :
       r.val = "none" => Insufficient(r) \in Results /\ Sound(Insufficient(r))
<1>1. NoRow \in Results /\ Sound(NoRow) /\ NoRow.val = "none"
  BY DEF NoRow, Results, Sound
<1>2. ASSUME NEW r \in Results, r.val = "none"
      PROVE  Insufficient(r) \in Results /\ Sound(Insufficient(r))
  <2> DEFINE no == 0 >= Required
             f == [r EXCEPT !.sure = no, !.quality = "known"]
  <2>1. no \in BOOLEAN /\ (Required > 0 => ~no)
    BY PromptEngineAssumption
  <2>2. Insufficient(r) = f
    BY DEF Insufficient
  <2> HIDE DEF no
  <2>3. f \in Results /\ f.sure = no /\ f.val = "none"
    BY <1>2, <2>1 DEF Results
  <2>4. QED BY <2>1, <2>2, <2>3 DEF Sound
<1>3. QED BY <1>1, <1>2

LEMMA NoCallOK == CallOK(NoCall) /\ NoCall.pc = "none"
<1>1. NoCall \in Calls
  BY CatalogueAssumption, ResultsTyped DEF NoCall, Calls, Texts
<1>2. QED BY <1>1, Bounds, ResultsTyped DEF CallOK, NoCall

LEMMA BegunOK ==
  ASSUME CatalogueTypeOK, NEW p \in Prompts
  PROVE  CallOK(Begun(p)) /\ Begun(p).pc = "extract"
<1>1. prompt[p].text \in Texts /\ prompt[p].tries \in MaxRetries
  BY DEF CatalogueTypeOK
<1>2. NoCall \in Calls /\ NoCall.attempt = 1 /\ NoCall.calls = 0 /\ NoCall.sleep = 0
      /\ NoCall.got = NoRow
  BY NoCallOK DEF CallOK, NoCall
<1> DEFINE n == NoCall
           k == [n EXCEPT !.pc = "extract", !.text = prompt[p].text, !.tries = prompt[p].tries]
<1>3. Begun(p) = k
  BY DEF Begun
<1> HIDE DEF n
<1>4. n \in Calls /\ n.attempt = 1 /\ n.calls = 0 /\ n.sleep = 0 /\ n.got = NoRow
  BY <1>2 DEF n
<1>5. /\ k.pc = "extract" /\ k.text = prompt[p].text /\ k.tries = prompt[p].tries
      /\ k.attempt = 1 /\ k.calls = 0 /\ k.sleep = 0 /\ k.got = NoRow
  BY <1>4 DEF Calls
<1>6. k \in Calls
  BY <1>1, <1>4 DEF Calls
<1> HIDE DEF k
<1>7. k.tries \in 1..10 /\ (2 * k.tries - 2) * Cap \in Nat /\ 0 * Cap = 0
  <2>1. k.tries \in MaxRetries /\ Cap \in Nat
    BY <1>1, <1>5, Bounds
  <2>2. k.tries \in 1..10 /\ (2 * k.tries - 2) * Cap \in Nat
    BY <2>1, Bounds
  <2>3. 0 * Cap = 0
    BY <2>1
  <2>4. QED BY <2>2, <2>3
<1>8. CallOK(k)
  BY <1>5, <1>6, <1>7, ResultsTyped DEF CallOK
<1>9. QED BY <1>3, <1>5, <1>8

\* One call changes.
LEMMA OneCall ==
  ASSUME CallsInv, NEW p \in Prompts, NEW k, CallOK(k), call' = [call EXCEPT ![p] = k]
  PROVE  CallsInv'
<1>1. k \in Calls
  BY DEF CallOK
<1>2. call' \in [Prompts -> Calls]
  BY <1>1 DEF CallsInv
<1>3. \A q \in Prompts : call'[q] = IF q = p THEN k ELSE call[q]
  BY DEF CallsInv
<1>4. \A q \in Prompts : CallOK(call'[q])
  BY <1>3 DEF CallsInv
<1>5. QED BY <1>2, <1>4 DEF CallsInv, CallOK, Calls, NoCall, Cap, Sound, Results

\* The longest wait is capped.
LEMMA WaitCapped ==
  ASSUME NEW attempt \in 1..10
  PROVE  Longest(attempt) \in 0..Cap
BY PromptEngineAssumption DEF Longest, Cap

LEMMA AttemptedCalls ==
  ASSUME CallsInv, NEW p \in Prompts, NEW made \in {0, 1}, Attempted(p, made)
  PROVE  CallsInv'
<1>1. CallOK(call[p]) /\ call[p] \in Calls /\ call[p].pc \in {"extract", "validate"}
  BY DEF Attempted, At, CallsInv
<1> DEFINE wait == Longest(call[p].attempt)
           k == [call[p] EXCEPT !.calls = call[p].calls + made, !.attempt = call[p].attempt + 1,
                                !.sleep = call[p].sleep + wait]
           last == Insufficient(call[p].got)
           l == [call[p] EXCEPT !.calls = call[p].calls + made, !.pc = "done", !.got = last]
<1>2. /\ call[p].attempt \in 1..10 /\ call[p].tries \in MaxRetries /\ call[p].tries \in 1..10
      /\ call[p].calls \in 0..20 /\ call[p].sleep \in Nat /\ call[p].got \in Results
      /\ call[p].text \in Texts
  BY <1>1, Bounds DEF Calls
<1>3. wait \in 0..Cap
  BY <1>2, WaitCapped
<1> HIDE DEF wait
<1>4. CASE MayRetry(p)
  <2>1. call[p].attempt < call[p].tries
    BY <1>4 DEF MayRetry
  <2>2. /\ k.pc = call[p].pc /\ k.text = call[p].text /\ k.tries = call[p].tries
        /\ k.got = call[p].got /\ k.attempt = call[p].attempt + 1
        /\ k.calls = call[p].calls + made /\ k.sleep = call[p].sleep + wait
        /\ DOMAIN k = DOMAIN call[p] /\ k = [k EXCEPT !.pc = k.pc]
    BY <1>1 DEF Calls
  <2>3. k.calls \in 0..20 /\ k.sleep \in Nat /\ k.attempt \in 1..10
    BY <1>1, <1>2, <1>3, <2>1, <2>2 DEF CallOK
  <2>4. k \in Calls
    BY <1>1, <2>2, <2>3 DEF Calls
  <2>5. call' = [call EXCEPT ![p] = k]
    BY <1>1, <1>4 DEF Attempted, wait, CallsInv
  <2> HIDE DEF k
  <2>6. CallOK(k)
    <3>1. CASE call[p].pc = "extract"
      <4> DEFINE m == call[p].attempt - 1
      <4>1. m \in Nat /\ m + 1 = k.attempt - 1 /\ 2 * k.tries - 2 \in Nat
            /\ m + 1 <= 2 * k.tries - 2
        BY <1>2, <2>1, <2>2
      <4>2. call[p].sleep <= m * Cap
        BY <1>1, <3>1 DEF CallOK
      <4> HIDE DEF m
      <4>3. k.sleep <= (m + 1) * Cap
        BY <1>2, <1>3, <2>2, <4>1, <4>2, OneMore
      <4>4. k.sleep <= (k.attempt - 1) * Cap /\ k.sleep <= (2 * k.tries - 2) * Cap
        BY <2>3, <4>1, <4>3, Monotone
      <4>5. k.calls <= k.attempt - 1 /\ k.calls <= 2 * k.tries /\ k.attempt <= k.tries
        BY <1>1, <1>2, <2>1, <2>2, <3>1 DEF CallOK
      <4>6. Sound(k.got) /\ k.got.val = "none"
        BY <1>1, <2>2, <3>1 DEF CallOK
      <4>7. QED BY <2>2, <2>4, <3>1, <4>4, <4>5, <4>6 DEF CallOK
    <3>2. CASE call[p].pc = "validate"
      <4> DEFINE m == call[p].tries + call[p].attempt - 2
      <4>1. m \in Nat /\ m + 1 = k.tries + k.attempt - 2 /\ 2 * k.tries - 2 \in Nat
            /\ m + 1 <= 2 * k.tries - 2
        <5> DEFINE t == call[p].tries
                   a == call[p].attempt
        <5>1. t \in 1..10 /\ a \in 1..10 /\ a < t /\ k.tries = t /\ k.attempt = a + 1
              /\ m = t + a - 2
          BY <1>2, <2>1, <2>2
        <5> HIDE DEF m, t, a
        <5>2. QED BY <5>1
      <4>2. call[p].sleep <= m * Cap
        BY <1>1, <3>2 DEF CallOK
      <4> HIDE DEF m
      <4>3. k.sleep <= (m + 1) * Cap
        BY <1>2, <1>3, <2>2, <4>1, <4>2, OneMore
      <4>4. /\ k.sleep <= (k.tries + k.attempt - 2) * Cap
            /\ k.sleep <= (2 * k.tries - 2) * Cap
        BY <2>3, <4>1, <4>3, Monotone
      <4>5. /\ k.calls <= k.tries + k.attempt - 1 /\ k.calls <= 2 * k.tries
            /\ k.attempt <= k.tries
        BY <1>1, <1>2, <2>1, <2>2, <3>2 DEF CallOK
      <4>6. k.got.raw = k.text /\ k.got.val = "none"
        BY <1>1, <2>2, <3>2 DEF CallOK
      <4>7. QED BY <2>2, <2>4, <3>2, <4>4, <4>5, <4>6 DEF CallOK
    <3>3. QED BY <1>1, <3>1, <3>2
  <2>7. QED BY <2>5, <2>6, OneCall
<1>5. CASE ~MayRetry(p)
  <2>1. call[p].attempt = call[p].tries
    BY <1>1, <1>2, <1>5 DEF MayRetry, CallOK
  <2>2. last \in Results /\ Sound(last)
    <3>1. call[p].got.val = "none"
      BY <1>1 DEF CallOK
    <3>2. QED BY <1>2, <3>1, ResultsTyped
  <2>3. call' = [call EXCEPT ![p] = l]
    BY <1>1, <1>5 DEF Attempted, CallsInv
  <2> HIDE DEF last
  <2>4. /\ l.pc = "done" /\ l.text = call[p].text /\ l.tries = call[p].tries
        /\ l.got = last /\ l.attempt = call[p].attempt
        /\ l.calls = call[p].calls + made /\ l.sleep = call[p].sleep
    BY <1>1 DEF Calls
  <2>5. l.calls \in 0..20 /\ l.calls <= 2 * l.tries /\ l.sleep <= (2 * l.tries - 2) * Cap
    <3>1. call[p].sleep <= (2 * call[p].tries - 2) * Cap
      BY <1>1 DEF CallOK
    <3>2. call[p].calls <= call[p].attempt - 1 \/ call[p].calls <= call[p].tries + call[p].attempt - 1
      BY <1>1 DEF CallOK
    <3>3. call[p].calls + made <= 2 * call[p].tries
      BY <1>2, <2>1, <3>2
    <3>4. QED BY <1>2, <2>4, <3>1, <3>3
  <2>6. l \in Calls
    BY <1>1, <2>2, <2>4, <2>5 DEF Calls
  <2> HIDE DEF l
  <2>7. CallOK(l)
    BY <1>1, <2>1, <2>2, <2>4, <2>5, <2>6 DEF CallOK
  <2>8. QED BY <2>3, <2>7, OneCall
<1>6. QED BY <1>4, <1>5

\* A phase answers: that was one call more.
LEMMA AnsweredCalls ==
  ASSUME CallsInv, NEW p \in Prompts, NEW pc \in {"done", "format"}, NEW r \in Results,
         call[p].pc \in {"extract", "validate"}, Answered(p, pc, r),
         pc = "done" => Sound(r),
         pc = "format" => call[p].pc = "extract" /\ r.raw = call[p].text /\ r.val = "none"
  PROVE  CallsInv'
<1>1. CallOK(call[p]) /\ call[p] \in Calls
  BY DEF CallsInv
<1> DEFINE k == [call[p] EXCEPT !.pc = pc, !.calls = call[p].calls + 1, !.attempt = 1, !.got = r]
<1>2. /\ call[p].attempt \in 1..10 /\ call[p].tries \in MaxRetries /\ call[p].tries \in 1..10
      /\ call[p].calls \in 0..20 /\ call[p].sleep \in Nat /\ call[p].text \in Texts
      /\ call[p].attempt <= call[p].tries
  BY <1>1, Bounds DEF Calls, CallOK
<1>3. /\ k.pc = pc /\ k.text = call[p].text /\ k.tries = call[p].tries /\ k.got = r
      /\ k.attempt = 1 /\ k.calls = call[p].calls + 1 /\ k.sleep = call[p].sleep
  BY <1>1 DEF Calls
<1>4. call' = [call EXCEPT ![p] = k]
  BY DEF Answered, CallsInv
<1>5. k.calls <= 2 * k.tries /\ k.calls \in 0..20
  <2>1. call[p].calls <= call[p].tries + call[p].attempt - 1
    BY <1>1, <1>2 DEF CallOK
  <2>2. QED BY <1>2, <1>3, <2>1
<1>6. k \in Calls
  <2>1. k.attempt \in 1..10 /\ pc \in {"done", "format"} /\ r \in Results
    BY <1>3
  <2>2. QED BY <1>1, <1>2, <1>3, <1>5, <2>1 DEF Calls
<1> HIDE DEF k
<1>7. k.sleep <= (2 * k.tries - 2) * Cap
  BY <1>1, <1>3 DEF CallOK
<1>8. CASE pc = "done"
  <2>1. CallOK(k)
    BY <1>2, <1>3, <1>5, <1>6, <1>7, <1>8 DEF CallOK
  <2>2. QED BY <1>4, <2>1, OneCall
<1>9. CASE pc = "format"
  <2> DEFINE m == call[p].attempt - 1
             n == k.tries - 1
  <2>1. m \in Nat /\ n \in Nat /\ m <= n
    BY <1>2, <1>3
  <2>2. call[p].calls <= m /\ call[p].sleep <= m * Cap
    BY <1>1, <1>9 DEF CallOK
  <2>3. k.calls <= k.tries
    BY <1>2, <1>3, <2>2
  <2> HIDE DEF m
  <2>4. k.sleep <= n * Cap
    BY <1>2, <1>3, <2>1, <2>2, Monotone
  <2>5. CallOK(k)
    BY <1>2, <1>3, <1>5, <1>6, <1>7, <1>9, <2>3, <2>4 DEF CallOK
  <2>6. QED BY <1>4, <2>5, OneCall
<1>10. QED BY <1>8, <1>9

\* A phase begins or ends without a call.
LEMMA FormattedCalls ==
  ASSUME CallsInv, NEW p \in Prompts, FormatPrompt(p)
  PROVE  CallsInv'
<1>1. CallOK(call[p]) /\ call[p] \in Calls /\ call[p].pc = "format"
  BY DEF CallsInv, FormatPrompt, At
<1>2. /\ call[p].attempt = 1 /\ call[p].tries \in 1..10 /\ call[p].calls <= call[p].tries
      /\ call[p].calls \in 0..20 /\ call[p].sleep <= (call[p].tries - 1) * Cap
      /\ call[p].got.raw = call[p].text /\ call[p].text \in Texts
      /\ call[p].got.val = "none" /\ call[p].got \in Results
      /\ call[p].calls <= 2 * call[p].tries /\ call[p].sleep <= (2 * call[p].tries - 2) * Cap
  BY <1>1, Bounds DEF Calls, CallOK
<1>3. ASSUME NEW pc \in {"validate", "raised"}, call' = [call EXCEPT ![p].pc = pc]
      PROVE  CallsInv'
  <2> DEFINE k == [call[p] EXCEPT !.pc = pc]
  <2>1. call' = [call EXCEPT ![p] = k]
    BY <1>3 DEF CallsInv
  <2>2. /\ k.pc = pc /\ k.text = call[p].text /\ k.tries = call[p].tries
        /\ k.got = call[p].got /\ k.attempt = 1 /\ k.calls = call[p].calls
        /\ k.sleep = call[p].sleep /\ k \in Calls
    BY <1>1, <1>2 DEF Calls
  <2> HIDE DEF k
  <2>3. k.tries + k.attempt - 2 = k.tries - 1 /\ k.tries + k.attempt - 1 = k.tries
    BY <1>2, <2>2
  <2>4. CallOK(k)
    BY <1>2, <2>2, <2>3 DEF CallOK
  <2>5. QED BY <2>1, <2>4, OneCall
<1>4. ASSUME Finished(p, Insufficient(call[p].got))
      PROVE  CallsInv'
  <2> DEFINE last == Insufficient(call[p].got)
             k == [call[p] EXCEPT !.pc = "done", !.got = last]
  <2>1. last \in Results /\ Sound(last)
    BY <1>2, ResultsTyped
  <2>2. call' = [call EXCEPT ![p] = k]
    BY <1>4 DEF Finished, CallsInv
  <2> HIDE DEF last
  <2>3. /\ k.pc = "done" /\ k.text = call[p].text /\ k.tries = call[p].tries
        /\ k.got = last /\ k.attempt = 1 /\ k.calls = call[p].calls
        /\ k.sleep = call[p].sleep /\ k \in Calls
    BY <1>1, <1>2, <2>1 DEF Calls
  <2> HIDE DEF k
  <2>4. CallOK(k)
    BY <1>2, <2>1, <2>3 DEF CallOK
  <2>5. QED BY <2>2, <2>4, OneCall
<1>5. QED BY <1>3, <1>4 DEF FormatPrompt

\* The first phase notes the text it used, the second says by which it judges:
\* the same, since the prompt is loaded once.
LEMMA ExtractedCalls ==
  ASSUME CallsInv, NEW p \in Prompts, ExtractAnswers(p)
  PROVE  CallsInv'
<1>1. call[p].pc = "extract" /\ call[p].text \in Texts
  BY DEF CallsInv, Calls, ExtractAnswers, At
<1>2. CASE Answered(p, "done", Insufficient(NoRow))
  BY <1>1, <1>2, ResultsTyped, AnsweredCalls
<1>3. ASSUME NEW enough \in Reaches,
             Answered(p, "format", [NoRow EXCEPT !.raw = call[p].text, !.believed = enough])
      PROVE  CallsInv'
  <2> DEFINE r == [NoRow EXCEPT !.raw = call[p].text, !.believed = enough]
  <2>1. enough \in BOOLEAN
    <3>1. PICK reply \in Replies : enough = (Confidence(reply) >= Required)
      BY DEF Reaches
    <3>2. Confidence(reply) \in Nat /\ Required \in Nat
      BY PromptEngineAssumption DEF Confidence, Base, Replies
    <3>3. QED BY <3>1, <3>2
  <2> DEFINE n == NoRow
             m == [n EXCEPT !.raw = call[p].text, !.believed = enough]
  <2>2. n \in Results /\ n.val = "none"
    BY ResultsTyped DEF NoRow
  <2> HIDE DEF n
  <2>3. m \in Results /\ m.raw = call[p].text /\ m.val = "none"
    BY <1>1, <2>1, <2>2 DEF Results
  <2>4. r \in Results /\ r.raw = call[p].text /\ r.val = "none"
    BY <2>3 DEF n
  <2> HIDE DEF r
  <2>5. Answered(p, "format", r)
    BY <1>3 DEF r
  <2>6. QED BY <1>1, <2>4, <2>5, AnsweredCalls
<1>4. QED BY <1>2, <1>3 DEF ExtractAnswers

LEMMA ScoresTyped == Scores \subseteq BOOLEAN
<1>1. SUFFICES ASSUME NEW enough \in Scores PROVE enough \in BOOLEAN
  OBVIOUS
<1>2. PICK score \in 0..10 : enough = (score >= Required)
  BY DEF Scores
<1>3. score \in Nat /\ Required \in Nat
  BY PromptEngineAssumption
<1>4. QED BY <1>2, <1>3

LEMMA ValidatedCalls ==
  ASSUME CallsInv, NEW p \in Prompts, ValidateAnswers(p)
  PROVE  CallsInv'
<1> DEFINE got == call[p].got
<1>1. /\ call[p].pc = "validate" /\ call[p].text \in Texts /\ got \in Results
      /\ got.raw = call[p].text
  BY DEF CallsInv, CallOK, Calls, ValidateAnswers, At
<1>2. PICK v \in {"empty", "value"}, enough \in Scores, q \in {"known", "unknown"} :
        Answered(p, "done", [got EXCEPT !.by = ValidationPrompt(p), !.val = v,
                             !.quality = q, !.sure = got.believed /\ enough])
  BY DEF ValidateAnswers
<1> DEFINE sure == got.believed /\ enough
           r == [got EXCEPT !.by = ValidationPrompt(p), !.val = v, !.quality = q, !.sure = sure]
<1>3. Answered(p, "done", r)
  BY <1>2
<1>4. enough \in BOOLEAN
  BY ScoresTyped
<1> HIDE DEF got
<1>5. sure \in BOOLEAN /\ (sure => got.believed)
  BY <1>1, <1>4 DEF Results
<1> HIDE DEF sure
<1>6. /\ r \in Results /\ r.raw = call[p].text /\ r.by = call[p].text /\ r.val # "none"
      /\ r.sure = sure /\ r.believed = got.believed
  BY <1>1, <1>5 DEF Results, ValidationPrompt
<1> HIDE DEF r
<1>7. Sound(r)
  BY <1>1, <1>5, <1>6 DEF Sound, Texts
<1>8. QED BY <1>1, <1>3, <1>6, <1>7, AnsweredCalls

-----------------------------------------------------------------------------
(***************************************************************************)
(* Jobs, rows and waves                                                    *)
(***************************************************************************)
\* Every prompt that is worked on belongs to a job that a worker has, or had
\* before the queue was flushed; and a factory reset has disowned all of them
\* before it flushes.  A batch runs without jobs.
JobsInv ==
  /\ DeliveryTypeOK
  /\ batch.pc = "off" =>
       /\ {j \in Jobs : phase[j] = "taken"} \subseteq Running
       /\ \A p \in Running : /\ p \in Jobs
                             /\ \/ phase[p] = "taken"
                                \/ phase[p] = "lost" /\ p \in orphans
  /\ batch.pc # "off" => \A j \in Jobs : phase[j] = "absent"
  /\ reset = "flush" => {j \in Jobs : phase[j] \in {"waiting", "taken"}} \subseteq orphans

RowsInv ==
  /\ row \in [Prompts -> Results]
  /\ \A p \in Prompts : Sound(row[p]) /\ (row[p] # NoRow => prompt[p].there)
  /\ checked \subseteq PromptsThere

\* A row that a revalidation holds is there, with its raw result, or is known
\* to be gone.
HeldInv ==
  /\ seen \in [Prompts -> Texts \cup {"none", "gone"}]
  /\ \A p \in Prompts : seen[p] \in Texts => row[p].raw # "none"

BatchInv == batch \in [pc : {"off", "resolve", "run"}, list : SUBSET Prompts,
                       waves : Seq(SUBSET Prompts), at : Nat]

EngineInv == CatalogueTypeOK /\ CallsInv /\ JobsInv /\ RowsInv /\ HeldInv /\ BatchInv

LEMMA SameCalls ==
  ASSUME CallsInv, UNCHANGED call
  PROVE  CallsInv'
BY DEF CallsInv, CallOK, Calls, NoCall, Cap, Sound, Results

LEMMA NextCalls ==
  ASSUME EngineInv, Next
  PROVE  CallsInv'
<1> USE DEF EngineInv
<1>1. Jobs \subseteq Prompts
  BY PromptEngineAssumption
<1>2. ASSUME \/ FactoryReset \/ FlushQueue \/ EndReset \/ ResolveWave \/ Resolved
             \/ BeginRevalidate \/ EndRevalidate
             \/ \E p \in Prompts : CheckPrompt(p) \/ DeletePrompt(p)
             \/ ChangeCatalogue /\ UNCHANGED <<dvars, row, call, orphans, checked, reset, seen, batch>>
      PROVE  CallsInv'
  <2>1. UNCHANGED call
    BY <1>2 DEF FactoryReset, FlushQueue, EndReset, ResolveWave, Resolved, CheckPrompt,
       DeletePrompt, BeginRevalidate, EndRevalidate
  <2>2. QED BY <2>1, SameCalls
<1>3. ASSUME NEW p \in Jobs, TakeJob(p)
      PROVE  CallsInv'
  <2>1. phase[p] = "waiting" /\ call' = [call EXCEPT ![p].pc = "load"]
    BY <1>3 DEF TakeJob, Take, Move
  <2>2. call[p] = NoCall
    <3>1. p \notin Running
      BY <2>1 DEF JobsInv
    <3>2. QED BY <1>1, <3>1 DEF Running, CallsInv, CallOK
  <2> DEFINE n == NoCall
             k == [n EXCEPT !.pc = "load"]
  <2>3. call' = [call EXCEPT ![p] = k]
    BY <1>1, <2>1, <2>2 DEF CallsInv
  <2>4. n \in Calls /\ n.attempt = 1 /\ n.calls = 0 /\ n.sleep = 0 /\ n.got = NoRow
    BY NoCallOK DEF CallOK, NoCall
  <2> HIDE DEF n
  <2>5. /\ k.pc = "load" /\ k.tries = n.tries /\ k.attempt = 1 /\ k.calls = 0 /\ k.sleep = 0
        /\ k.got = NoRow /\ k \in Calls /\ n.tries \in MaxRetries
    BY <2>4 DEF Calls
  <2> HIDE DEF k
  <2>6. k.tries \in 1..10 /\ (2 * k.tries - 2) * Cap \in Nat
    BY <2>5, Bounds
  <2>7. CallOK(k)
    BY <2>5, <2>6, ResultsTyped DEF CallOK
  <2>8. QED BY <1>1, <2>3, <2>7, OneCall
<1>4. ASSUME NEW p \in Jobs, StoreExtraction(p) \/ JobFails(p)
      PROVE  CallsInv'
  <2>1. call' = [call EXCEPT ![p] = NoCall]
    BY <1>4 DEF StoreExtraction, JobFails
  <2>2. QED BY <1>1, <2>1, NoCallOK, OneCall
<1>5. ASSUME NEW p \in Prompts, LoadPrompt(p)
      PROVE  CallsInv'
  <2>1. call' = [call EXCEPT ![p] = Begun(p)]
    BY <1>5 DEF LoadPrompt
  <2>2. QED BY <2>1, BegunOK, OneCall
<1>6. ASSUME NEW p \in Prompts,
             \/ ExtractAnswers(p) \/ FormatPrompt(p) \/ ValidateAnswers(p)
             \/ Refused(p) \/ CompletionFails(p)
      PROVE  CallsInv'
  BY <1>6, ExtractedCalls, FormattedCalls, ValidatedCalls, AttemptedCalls
     DEF Refused, CompletionFails
<1>7. ASSUME StartWave \/ EndWave
      PROVE  CallsInv'
  <2>1. /\ call' = [p \in Prompts |-> call'[p]]
        /\ \A p \in Prompts : call'[p] = Begun(p) \/ call'[p] = NoCall
    <3>1. CASE StartWave
      <4>1. call' = [p \in Prompts |->
              IF p \in batch.waves[batch.at + 1] THEN Begun(p) ELSE NoCall]
        BY <3>1 DEF StartWave
      <4>2. QED BY <4>1
    <3>2. CASE EndWave
      <4>1. call' = [p \in Prompts |-> NoCall]
        BY <3>2 DEF EndWave
      <4>2. QED BY <4>1
    <3>3. QED BY <1>7, <3>1, <3>2
  <2>2. \A p \in Prompts : CallOK(call'[p])
    BY <2>1, BegunOK, NoCallOK
  <2>3. call' \in [Prompts -> Calls]
    BY <2>1, BegunOK, NoCallOK DEF CallOK
  <2>4. QED BY <2>2, <2>3 DEF CallsInv, CallOK, Calls, NoCall, Cap, Sound, Results
<1>8. QED BY <1>2, <1>3, <1>4, <1>5, <1>6, <1>7 DEF Next

\* The catalogue is typed whoever changes it, and what was found without rows
\* is there until it is deleted.
LEMMA DroppedPrompt ==
  ASSUME CatalogueTypeOK, NEW p \in Prompts, Detachable(p), DropPrompt(p), UNCHANGED ops
  PROVE  CatalogueTypeOK' /\ PromptsThere' = PromptsThere \ {p}
<1>1. /\ prompt' = [prompt EXCEPT ![p] = NoPrompt]
      /\ depends' = {d \in depends : d[1] # p}
      /\ assigned' = {a \in assigned : a[2] # p}
      /\ UNCHANGED <<category, home>>
  BY DEF DropPrompt
<1>2. /\ prompt' \in [Prompts -> PromptRecords] /\ prompt'[p] = NoPrompt
      /\ \A q \in Prompts : q # p => prompt'[q] = prompt[q]
  BY <1>1, NoPromptTyped DEF CatalogueTypeOK, PromptRecords
<1>3. PromptsThere' = PromptsThere \ {p}
  BY <1>2, NoPromptTyped DEF PromptsThere
<1>4. \A q \in Prompts : prompt'[q].there \/ prompt'[q] = NoPrompt
  BY <1>2 DEF CatalogueTypeOK
<1>5. depends' \subseteq PromptsThere' \X PromptsThere'
  BY <1>1, <1>3 DEF CatalogueTypeOK, Detachable, PromptsThere
<1>6. assigned' \subseteq CategoriesThere \X PromptsThere'
  BY <1>1, <1>3 DEF CatalogueTypeOK
<1>7. NoPrompt' = NoPrompt /\ CategoriesThere' = CategoriesThere /\ NoCategory' = NoCategory
  BY <1>1 DEF NoPrompt, CategoriesThere, NoCategory
<1>8. /\ category' \in [Categories -> [there : BOOLEAN, active : BOOLEAN, text : Texts]]
      /\ \A c \in Categories : category'[c].there \/ category'[c] = NoCategory
      /\ home' \in CategoriesThere \cup {"none", "gone"} /\ ops' \in 0..MaxOps
  BY <1>1 DEF CatalogueTypeOK
<1>9. CatalogueTypeOK'
  BY <1>2, <1>4, <1>5, <1>6, <1>7, <1>8 DEF CatalogueTypeOK, PromptRecords
<1>10. QED BY <1>3, <1>9

LEMMA EmptiedCatalogue ==
  ASSUME CatalogueTypeOK, Emptied, ops' \in 0..MaxOps
  PROVE  CatalogueTypeOK'
<1>1. /\ prompt' = [p \in Prompts |-> NoPrompt]
      /\ category' = [c \in Categories |-> NoCategory]
      /\ depends' = {} /\ assigned' = {} /\ home' = "gone"
  BY DEF Emptied
<1>2. prompt' \in [Prompts -> PromptRecords] /\ \A p \in Prompts : prompt'[p] = NoPrompt
  BY <1>1, NoPromptTyped
<1>3. NoCategory \in [there : BOOLEAN, active : BOOLEAN, text : Texts]
  BY DEF NoCategory, Texts
<1>4. /\ category' \in [Categories -> [there : BOOLEAN, active : BOOLEAN, text : Texts]]
      /\ \A c \in Categories : category'[c] = NoCategory
  BY <1>1, <1>3
<1>5. NoPrompt' = NoPrompt /\ NoCategory' = NoCategory
  BY DEF NoPrompt, NoCategory
<1>6. QED BY <1>1, <1>2, <1>4, <1>5 DEF CatalogueTypeOK, PromptRecords

LEMMA SameCatalogue ==
  ASSUME CatalogueTypeOK, UNCHANGED catalogue, ops' \in 0..MaxOps
  PROVE  CatalogueTypeOK' /\ PromptsThere' = PromptsThere
BY DEF catalogue, CatalogueTypeOK, PromptsThere, CategoriesThere, NoPrompt, NoCategory

\* The steps that have nothing to do with the catalogue, its rows or the batch.
Working(p) ==
  \/ p \in Jobs /\ TakeJob(p)
  \/ LoadPrompt(p) \/ ExtractAnswers(p) \/ FormatPrompt(p) \/ ValidateAnswers(p)
  \/ Refused(p) \/ CompletionFails(p)
Settling(p) == p \in Jobs /\ (StoreExtraction(p) \/ JobFails(p))
Batching == ResolveWave \/ Resolved \/ StartWave \/ EndWave

LEMMA Steps ==
  ASSUME Next
  PROVE  \/ \E p \in Prompts : Working(p) \/ Settling(p) \/ CheckPrompt(p) \/ DeletePrompt(p)
         \/ FactoryReset \/ FlushQueue \/ EndReset \/ Batching
         \/ BeginRevalidate \/ EndRevalidate
         \/ ChangeCatalogue /\ UNCHANGED <<dvars, row, call, orphans, checked, reset, seen, batch>>
BY PromptEngineAssumption DEF Next, Working, Settling, Batching

LEMMA WorkingFrame ==
  ASSUME NEW p \in Prompts, Working(p)
  PROVE  UNCHANGED <<catalogue, ops, row, orphans, checked, reset, seen, batch>>
BY DEF Working, TakeJob, LoadPrompt, ExtractAnswers, FormatPrompt, ValidateAnswers,
   Refused, CompletionFails, Attempted

LEMMA BatchingFrame ==
  ASSUME Batching
  PROVE  UNCHANGED <<catalogue, ops, dvars, row, orphans, checked, reset, seen>> /\ batch.pc # "off"
BY DEF Batching, ResolveWave, Resolved, StartWave, EndWave

LEMMA NextCatalogue ==
  ASSUME EngineInv, Next
  PROVE  CatalogueTypeOK' /\ checked' \subseteq PromptsThere'
<1> USE DEF EngineInv
<1>1. checked \subseteq PromptsThere /\ ops \in 0..MaxOps
  BY DEF RowsInv, CatalogueTypeOK
<1>2. ASSUME UNCHANGED <<catalogue, ops, checked>>
      PROVE  CatalogueTypeOK' /\ checked' \subseteq PromptsThere'
  BY <1>1, <1>2, SameCatalogue
<1>3. ASSUME NEW p \in Prompts, Working(p) \/ Settling(p)
      PROVE  UNCHANGED <<catalogue, ops, checked>>
  BY <1>3, WorkingFrame DEF Settling, StoreExtraction, JobFails
<1>4. ASSUME Request
      PROVE  ops' \in 0..MaxOps
  BY <1>1, <1>4, CatalogueAssumption DEF Request
<1>5. ASSUME NEW p \in Prompts, CheckPrompt(p)
      PROVE  CatalogueTypeOK' /\ checked' \subseteq PromptsThere'
  <2>1. UNCHANGED catalogue /\ ops' \in 0..MaxOps /\ checked' = checked \cup {p}
        /\ prompt[p].there
    BY <1>4, <1>5 DEF CheckPrompt
  <2>2. QED BY <1>1, <2>1, SameCatalogue DEF PromptsThere
<1>6. ASSUME NEW p \in Prompts, DeletePrompt(p)
      PROVE  CatalogueTypeOK' /\ checked' \subseteq PromptsThere'
  <2>1. checked' = checked \ {p} /\ UNCHANGED ops
    BY <1>6 DEF DeletePrompt
  <2>2. CASE Detachable(p)
    BY <1>1, <1>6, <2>1, <2>2, DroppedPrompt DEF DeletePrompt
  <2>3. CASE ~Detachable(p)
    <3>1. UNCHANGED catalogue
      BY <1>6, <2>3 DEF DeletePrompt
    <3>2. QED BY <1>1, <2>1, <3>1, SameCatalogue
  <2>4. QED BY <2>2, <2>3
<1>7. ASSUME FactoryReset
      PROVE  CatalogueTypeOK' /\ checked' \subseteq PromptsThere'
  BY <1>4, <1>7, EmptiedCatalogue DEF FactoryReset
<1>8. ASSUME EndReset
      PROVE  CatalogueTypeOK' /\ checked' \subseteq PromptsThere'
  <2>1. UNCHANGED <<ops, checked>>
    BY <1>8 DEF EndReset
  <2>2. CASE Synced(TRUE)
    BY <1>1, <2>1, <2>2, SyncedCatalogue
  <2>3. CASE UNCHANGED catalogue
    BY <1>1, <2>1, <2>3, SameCatalogue
  <2>4. QED BY <1>8, <2>2, <2>3 DEF EndReset
<1>9. ASSUME ChangeCatalogue, UNCHANGED checked
      PROVE  CatalogueTypeOK' /\ checked' \subseteq PromptsThere'
  BY <1>1, <1>9, ChangedCatalogue
<1>10. CASE FlushQueue
  BY <1>2, <1>10 DEF FlushQueue
<1>11. CASE Batching
  BY <1>2, <1>11, BatchingFrame
<1>12. CASE BeginRevalidate \/ EndRevalidate
  <2>1. UNCHANGED <<catalogue, checked>> /\ ops' \in 0..MaxOps
    BY <1>1, <1>4, <1>12 DEF BeginRevalidate, EndRevalidate
  <2>2. QED BY <1>1, <2>1, SameCatalogue
<1>13. QED BY <1>2, <1>3, <1>5, <1>6, <1>7, <1>8, <1>9, <1>10, <1>11, <1>12, Steps

\* A validation that is repeated leaves a sound row sound.
LEMMA RevalidatedRow ==
  ASSUME NEW p \in Prompts, row[p] \in Results, row[p].raw # "none", seen[p] \in Texts,
         NEW enough \in BOOLEAN
  PROVE  /\ Revalidated(p, enough) \in Results /\ Sound(Revalidated(p, enough))
         /\ Revalidated(p, enough).raw = row[p].raw
<1> DEFINE old == row[p]
           sure == old.believed /\ enough
           r == [old EXCEPT !.val = "value", !.by = seen[p], !.again = TRUE, !.sure = sure]
<1>1. Revalidated(p, enough) = r
  BY DEF Revalidated
<1>2. sure \in BOOLEAN /\ (sure => old.believed)
  BY DEF Results
<1> HIDE DEF old, sure
<1>3. old \in Results /\ old.raw # "none"
  BY DEF old
<1>4. /\ r \in Results /\ r.val = "value" /\ r.again /\ r.sure = sure
      /\ r.believed = old.believed /\ r.raw = old.raw
  BY <1>2, <1>3 DEF Results
<1> HIDE DEF r
<1>5. Sound(r)
  BY <1>2, <1>3, <1>4 DEF Sound
<1>6. QED BY <1>1, <1>4, <1>5 DEF old

\* What a revalidation writes.
LEMMA RevalidatedRows ==
  ASSUME RowsInv, HeldInv, EndRevalidate
  PROVE  /\ row' \in [Prompts -> Results]
         /\ \A p \in Prompts : Sound(row'[p]) /\ (row'[p] # NoRow => row[p] # NoRow)
<1>1. /\ row \in [Prompts -> Results]
      /\ \A p \in Prompts : Sound(row[p])
  BY DEF RowsInv
<1>2. CASE UNCHANGED row
  BY <1>1, <1>2
<1>3. CASE ~ UNCHANGED row
  <2>1. PICK judged \in SUBSET {p \in Prompts : seen[p] \in Texts} :
          \E enough \in [judged -> Scores] :
            row' = [p \in Prompts |->
              IF p \in judged THEN Revalidated(p, enough[p]) ELSE row[p]]
    BY <1>3 DEF EndRevalidate
  <2>2. PICK enough \in [judged -> Scores] :
          row' = [p \in Prompts |->
            IF p \in judged THEN Revalidated(p, enough[p]) ELSE row[p]]
    BY <2>1
  <2>3. ASSUME NEW p \in judged
        PROVE  /\ Revalidated(p, enough[p]) \in Results /\ Sound(Revalidated(p, enough[p]))
               /\ row[p] # NoRow
    <3>1. p \in Prompts /\ seen[p] \in Texts /\ enough[p] \in BOOLEAN
      BY <2>2, ScoresTyped
    <3>2. row[p] \in Results /\ row[p].raw # "none"
      BY <1>1, <3>1 DEF HeldInv
    <3>3. row[p] # NoRow
      BY <3>2 DEF NoRow
    <3>4. QED BY <3>1, <3>2, <3>3, RevalidatedRow
  <2>4. QED BY <1>1, <2>2, <2>3
<1>4. QED BY <1>2, <1>3

\* A row says what the call of its prompt found, and goes with its prompt.
LEMMA NextRows ==
  ASSUME EngineInv, Next
  PROVE  RowsInv'
<1> USE DEF EngineInv
<1> SUFFICES /\ row' \in [Prompts -> Results]
             /\ \A p \in Prompts : Sound(row'[p]) /\ (row'[p] # NoRow => prompt'[p].there)
  BY NextCatalogue DEF RowsInv, Results, Sound, NoRow
<1>1. /\ row \in [Prompts -> Results]
      /\ \A p \in Prompts : Sound(row[p]) /\ (row[p] # NoRow => p \in PromptsThere)
  BY DEF RowsInv, PromptsThere
<1>2. \A p \in Prompts : prompt'[p].there <=> p \in PromptsThere'
  BY DEF PromptsThere
<1>3. ASSUME UNCHANGED row, PromptsThere \subseteq PromptsThere'
      PROVE  /\ row' \in [Prompts -> Results]
             /\ \A p \in Prompts : Sound(row'[p]) /\ (row'[p] # NoRow => prompt'[p].there)
  BY <1>1, <1>2, <1>3
<1>4. ASSUME UNCHANGED catalogue
      PROVE  PromptsThere \subseteq PromptsThere'
  BY <1>4 DEF catalogue, PromptsThere
<1>5. ASSUME NEW p \in Prompts, Working(p) \/ CheckPrompt(p)
      PROVE  UNCHANGED <<row, catalogue>>
  BY <1>5, WorkingFrame DEF CheckPrompt
<1>6. ASSUME NEW p \in Jobs, StoreExtraction(p)
      PROVE  /\ row' \in [Prompts -> Results]
             /\ \A q \in Prompts : Sound(row'[q]) /\ (row'[q] # NoRow => prompt'[q].there)
  <2>1. /\ row' = [row EXCEPT ![p] = call[p].got] /\ call[p].pc = "done"
        /\ prompt[p].there /\ UNCHANGED catalogue /\ p \in Prompts
    BY <1>6, PromptEngineAssumption DEF StoreExtraction, Insertable, Found, At
  <2>2. call[p].got \in Results /\ Sound(call[p].got)
    BY <2>1 DEF CallsInv, CallOK, Calls
  <2>3. p \in PromptsThere
    BY <2>1 DEF PromptsThere
  <2>4. \A q \in Prompts : row'[q] = IF q = p THEN call[p].got ELSE row[q]
    BY <1>1, <2>1
  <2>5. row' \in [Prompts -> Results]
    BY <1>1, <2>1, <2>2
  <2>6. QED BY <1>1, <1>2, <1>4, <2>1, <2>2, <2>3, <2>4, <2>5
<1>7. ASSUME NEW p \in Jobs, JobFails(p)
      PROVE  UNCHANGED <<row, catalogue>>
  BY <1>7 DEF JobFails
<1>8. ASSUME NEW p \in Prompts, DeletePrompt(p)
      PROVE  /\ row' \in [Prompts -> Results]
             /\ \A q \in Prompts : Sound(row'[q]) /\ (row'[q] # NoRow => prompt'[q].there)
  <2>1. CASE Detachable(p)
    <3>1. row' = [row EXCEPT ![p] = NoRow] /\ PromptsThere' = PromptsThere \ {p}
      BY <1>8, <2>1, DroppedPrompt DEF DeletePrompt
    <3>2. \A q \in Prompts : row'[q] = IF q = p THEN NoRow ELSE row[q]
      BY <1>1, <3>1
    <3>3. row' \in [Prompts -> Results]
      BY <1>1, <3>1, ResultsTyped
    <3>4. QED BY <1>1, <1>2, <3>1, <3>2, <3>3, ResultsTyped
  <2>2. CASE ~Detachable(p)
    BY <1>3, <1>4, <1>8, <2>2 DEF DeletePrompt
  <2>3. QED BY <2>1, <2>2
<1>9. ASSUME FactoryReset
      PROVE  /\ row' \in [Prompts -> Results]
             /\ \A q \in Prompts : Sound(row'[q]) /\ (row'[q] # NoRow => prompt'[q].there)
  BY <1>9, ResultsTyped DEF FactoryReset
<1>10. ASSUME EndReset
       PROVE  UNCHANGED row /\ PromptsThere \subseteq PromptsThere'
  <2>1. UNCHANGED <<row, ops>> /\ (Synced(TRUE) \/ UNCHANGED catalogue)
    BY <1>10 DEF EndReset
  <2>2. ops' \in 0..MaxOps
    BY <2>1 DEF CatalogueTypeOK
  <2>3. QED BY <1>4, <2>1, <2>2, SyncedCatalogue
<1>11. ASSUME ChangeCatalogue, UNCHANGED row
       PROVE  PromptsThere \subseteq PromptsThere'
  BY <1>11, ChangedCatalogue
<1>12. ASSUME FlushQueue \/ Batching
       PROVE  UNCHANGED <<row, catalogue>>
  BY <1>12, BatchingFrame DEF FlushQueue
<1>13. CASE BeginRevalidate
  BY <1>3, <1>4, <1>13 DEF BeginRevalidate
<1>14. CASE EndRevalidate
  BY <1>1, <1>2, <1>4, <1>14, RevalidatedRows DEF EndRevalidate
<1>15. QED
  BY <1>3, <1>4, <1>5, <1>6, <1>7, <1>8, <1>9, <1>10, <1>11, <1>12, <1>13, <1>14, Steps
     DEF Settling

\* Nothing but a deletion takes a row from under a revalidation, and that is
\* noted; a factory reset waits.
LEMMA NextHeld ==
  ASSUME EngineInv, Next
  PROVE  HeldInv'
<1> USE DEF EngineInv
<1>1. /\ seen \in [Prompts -> Texts \cup {"none", "gone"}] /\ row \in [Prompts -> Results]
      /\ \A p \in Prompts : seen[p] \in Texts => row[p].raw # "none"
  BY DEF HeldInv, RowsInv
<1>2. "none" \notin Texts /\ "gone" \notin Texts
  BY DEF Texts
<1>3. ASSUME UNCHANGED <<seen, row>> PROVE HeldInv'
  BY <1>1, <1>3 DEF HeldInv, Texts
<1>4. ASSUME NEW p \in Prompts, Working(p) \/ CheckPrompt(p)
      PROVE  UNCHANGED <<seen, row>>
  BY <1>4, WorkingFrame DEF CheckPrompt
<1>5. ASSUME NEW p \in Jobs, StoreExtraction(p)
      PROVE  HeldInv'
  <2>1. UNCHANGED seen /\ row' = [row EXCEPT ![p] = call[p].got] /\ row[p] = NoRow
    BY <1>5 DEF StoreExtraction, Insertable
  <2>2. p \in Prompts /\ NoRow.raw = "none"
    BY PromptEngineAssumption DEF NoRow
  <2>3. seen[p] \notin Texts
    BY <1>1, <2>1, <2>2
  <2>4. QED BY <1>1, <2>1, <2>2, <2>3 DEF HeldInv, Texts
<1>6. ASSUME NEW p \in Jobs, JobFails(p)
      PROVE  UNCHANGED <<seen, row>>
  BY <1>6 DEF JobFails
<1>7. ASSUME NEW p \in Prompts, DeletePrompt(p)
      PROVE  HeldInv'
  <2>1. CASE Detachable(p)
    <3>1. /\ row' = [row EXCEPT ![p] = NoRow]
          /\ seen' = [seen EXCEPT ![p] = IF @ = "none" THEN @ ELSE "gone"]
      BY <1>7, <2>1 DEF DeletePrompt
    <3>2. \A q \in Prompts : /\ row'[q] = IF q = p THEN NoRow ELSE row[q]
                             /\ seen'[q] = IF q # p THEN seen[q]
                                           ELSE IF seen[q] = "none" THEN "none" ELSE "gone"
      BY <1>1, <3>1
    <3>3. seen' \in [Prompts -> Texts \cup {"none", "gone"}]
      BY <1>1, <3>1
    <3>4. QED BY <1>1, <1>2, <3>2, <3>3 DEF HeldInv, Texts
  <2>2. CASE ~Detachable(p)
    BY <1>3, <1>7, <2>2 DEF DeletePrompt
  <2>3. QED BY <2>1, <2>2
<1>8. CASE FactoryReset
  <2>1. UNCHANGED seen /\ \A p \in Prompts : seen[p] = "none"
    BY <1>8 DEF FactoryReset, Held
  <2>2. QED BY <1>1, <1>2, <2>1 DEF HeldInv, Texts
<1>9. CASE FlushQueue \/ EndReset \/ Batching
  BY <1>3, <1>9, BatchingFrame DEF FlushQueue, EndReset
<1>10. CASE BeginRevalidate
  <2>1. PICK missing \in BOOLEAN :
          seen' = [p \in Prompts |->
            IF row[p].raw # "none" /\ (missing => row[p].val # "value")
            THEN prompt[p].text ELSE "none"]
    BY <1>10 DEF BeginRevalidate
  <2>2. UNCHANGED row /\ \A p \in Prompts : prompt[p].text \in Texts
    BY <1>10 DEF BeginRevalidate, CatalogueTypeOK
  <2>3. QED BY <1>2, <2>1, <2>2 DEF HeldInv, Texts
<1>11. CASE EndRevalidate
  <2>1. seen' = [p \in Prompts |-> "none"]
    BY <1>11 DEF EndRevalidate
  <2>2. QED BY <1>2, <2>1 DEF HeldInv, Texts
<1>12. CASE ChangeCatalogue /\ UNCHANGED <<dvars, row, call, orphans, checked, reset, seen, batch>>
  BY <1>3, <1>12
<1>13. QED BY <1>3, <1>4, <1>5, <1>6, <1>7, <1>8, <1>9, <1>10, <1>11, <1>12, Steps DEF Settling

\* A worker has one try of a job in hand for each prompt it works on; what it
\* still works on after a flush is disowned.
LEMMA NextJobs ==
  ASSUME EngineInv, Next
  PROVE  JobsInv'
<1> USE DEF EngineInv
<1>1. /\ phase \in [Jobs -> Phases] /\ tries \in [Jobs -> 0..MaxAttempts]
      /\ Jobs \subseteq Prompts /\ call \in [Prompts -> Calls]
      /\ MaxAttempts \in Nat
  BY PromptEngineAssumption DEF JobsInv, DeliveryTypeOK, CallsInv
<1>2. \A p \in Prompts : p \in Running <=> call[p].pc # "none"
  BY DEF Running
<1>3. \A p \in Prompts : p \in Running' <=> call'[p].pc # "none"
  BY DEF Running
<1>4. ASSUME UNCHANGED <<dvars, batch>>, Running' = Running, orphans \subseteq orphans',
             reset' = "flush" => reset = "flush"
      PROVE  JobsInv'
  BY <1>1, <1>4 DEF JobsInv, DeliveryTypeOK, Phases, dvars
<1>5. ASSUME NEW p \in Prompts,
             \/ LoadPrompt(p) \/ ExtractAnswers(p) \/ FormatPrompt(p) \/ ValidateAnswers(p)
             \/ Refused(p) \/ CompletionFails(p)
      PROVE  JobsInv'
  <2>1. UNCHANGED <<dvars, batch, orphans, reset>> /\ call[p].pc # "none"
    BY <1>5 DEF LoadPrompt, ExtractAnswers, FormatPrompt, ValidateAnswers, Refused,
       CompletionFails, Attempted, At
  <2>2. call'[p].pc # "none" /\ \A q \in Prompts : q # p => call'[q] = call[q]
    <3>1. call[p] \in Calls
      BY <1>1
    <3>2. CASE LoadPrompt(p)
      BY <1>1, <3>2, BegunOK DEF LoadPrompt
    <3>3. ASSUME NEW pc \in {"done", "format"}, NEW r, Answered(p, pc, r)
          PROVE  call'[p].pc # "none" /\ \A q \in Prompts : q # p => call'[q] = call[q]
      BY <1>1, <3>1, <3>3 DEF Answered, Calls
    <3>4. CASE ExtractAnswers(p) \/ ValidateAnswers(p)
      BY <3>3, <3>4 DEF ExtractAnswers, ValidateAnswers
    <3>5. CASE FormatPrompt(p)
      BY <1>1, <3>1, <3>5 DEF FormatPrompt, Finished, Calls
    <3>6. ASSUME NEW made, Attempted(p, made)
          PROVE  call'[p].pc # "none" /\ \A q \in Prompts : q # p => call'[q] = call[q]
      BY <1>1, <2>1, <3>1, <3>6 DEF Attempted, Calls
    <3>7. CASE Refused(p) \/ CompletionFails(p)
      BY <3>6, <3>7 DEF Refused, CompletionFails
    <3>8. QED BY <1>5, <3>2, <3>4, <3>5, <3>7
  <2>3. Running' = Running
    BY <2>1, <2>2 DEF Running
  <2>4. QED BY <1>4, <2>1, <2>3
<1>6. ASSUME NEW p \in Jobs, TakeJob(p)
      PROVE  JobsInv'
  <2>1. /\ phase[p] = "waiting" /\ phase' = [phase EXCEPT ![p] = "taken"]
        /\ call' = [call EXCEPT ![p].pc = "load"]
        /\ UNCHANGED <<tries, batch, orphans, reset>>
    BY <1>6 DEF TakeJob, Take, Move
  <2>2. /\ phase' \in [Jobs -> Phases] /\ phase'[p] = "taken"
        /\ \A j \in Jobs : j # p => phase'[j] = phase[j]
    BY <1>1, <2>1 DEF Phases
  <2>3. batch.pc = "off"
    BY <2>1 DEF JobsInv
  <2>4. call'[p].pc = "load" /\ \A q \in Prompts : q # p => call'[q] = call[q]
    BY <1>1, <2>1 DEF Calls
  <2>5. Running' = Running \cup {p}
    BY <1>1, <2>4 DEF Running
  <2>6. QED BY <1>1, <2>1, <2>2, <2>3, <2>5 DEF JobsInv, DeliveryTypeOK, Phases
<1>7. ASSUME NEW p \in Jobs, StoreExtraction(p) \/ JobFails(p)
      PROVE  JobsInv'
  <2>1. /\ batch.pc = "off" /\ call' = [call EXCEPT ![p] = NoCall]
        /\ UNCHANGED <<batch, orphans, reset>>
    BY <1>7 DEF StoreExtraction, JobFails
  <2>2. Running' = Running \ {p}
    BY <1>1, <2>1, NoCallOK DEF Running
  <2>3. \/ /\ phase[p] = "taken"
           /\ \E to \in {"waiting", "completed", "failed"} : phase' = [phase EXCEPT ![p] = to]
        \/ phase[p] = "lost" /\ phase' = phase
    BY <1>7 DEF StoreExtraction, JobFails, Complete, Retry, GiveUp, Forgotten, Move, dvars
  <2>4. /\ phase' \in [Jobs -> Phases] /\ phase'[p] # "taken"
        /\ \A j \in Jobs : j # p => phase'[j] = phase[j]
        /\ phase'[p] \in {"waiting", "taken"} => phase[p] \in {"waiting", "taken"}
    BY <1>1, <2>3 DEF Phases
  <2>5. tries' \in [Jobs -> 0..MaxAttempts]
    <3>1. CASE tries' = tries
      BY <1>1, <3>1
    <3>2. CASE tries[p] + 1 \in 0..MaxAttempts /\ tries' = [tries EXCEPT ![p] = @ + 1]
      BY <1>1, <3>2
    <3>3. tries[p] \in Nat
      BY <1>1
    <3>4. \/ tries' = tries
          \/ tries[p] + 1 <= MaxAttempts /\ tries' = [tries EXCEPT ![p] = @ + 1]
      BY <1>1, <1>7, <3>3 DEF StoreExtraction, JobFails, Complete, Retry, GiveUp, Forgotten, dvars
    <3>5. QED BY <1>1, <3>1, <3>2, <3>3, <3>4
  <2>6. QED BY <1>1, <2>1, <2>2, <2>4, <2>5 DEF JobsInv, DeliveryTypeOK, Phases
<1>8. ASSUME NEW p \in Prompts, CheckPrompt(p) \/ DeletePrompt(p)
      PROVE  JobsInv'
  <2>1. UNCHANGED <<dvars, call, reset, batch>> /\ orphans \subseteq orphans'
    BY <1>8 DEF CheckPrompt, DeletePrompt
  <2>2. QED BY <1>4, <2>1 DEF Running
<1>9. ASSUME FactoryReset
      PROVE  JobsInv'
  <2>1. /\ UNCHANGED <<dvars, call, batch>> /\ reset' = "flush"
        /\ orphans' = orphans \cup {j \in Jobs : phase[j] \in {"waiting", "taken"}}
    BY <1>9 DEF FactoryReset
  <2>2. Running' = Running
    BY <2>1 DEF Running
  <2>3. QED BY <2>1, <2>2 DEF JobsInv, DeliveryTypeOK, Phases, dvars
<1>10. ASSUME FlushQueue
       PROVE  JobsInv'
  <2>1. /\ phase' = [j \in Jobs |-> IF phase[j] \in {"waiting", "taken"} THEN "lost" ELSE phase[j]]
        /\ reset = "flush" /\ reset' = "reload" /\ UNCHANGED <<tries, call, orphans, batch>>
    BY <1>10 DEF FlushQueue
  <2>2. /\ phase' \in [Jobs -> Phases]
        /\ \A j \in Jobs : /\ phase'[j] # "taken"
                           /\ phase[j] = "taken" => phase'[j] = "lost"
                           /\ phase[j] \in {"lost", "absent"} => phase'[j] = phase[j]
    BY <1>1, <2>1 DEF Phases
  <2>3. Running' = Running
    BY <2>1 DEF Running
  <2>4. QED BY <1>1, <2>1, <2>2, <2>3 DEF JobsInv, DeliveryTypeOK
<1>11. ASSUME \/ EndReset
              \/ ChangeCatalogue /\ UNCHANGED <<dvars, call, orphans, reset, batch>>
       PROVE  JobsInv'
  <2>1. UNCHANGED <<dvars, call, batch, orphans>> /\ (reset' = "flush" => reset = "flush")
    BY <1>11 DEF EndReset
  <2>2. QED BY <1>4, <2>1 DEF Running
<1>12. ASSUME Batching
       PROVE  JobsInv'
  <2>1. UNCHANGED <<dvars, orphans, reset>> /\ batch.pc # "off"
    BY <1>12, BatchingFrame
  <2>2. batch'.pc # "off"
    BY <1>12 DEF Batching, ResolveWave, Resolved, StartWave, EndWave, BatchInv
  <2>3. QED BY <1>1, <2>1, <2>2 DEF JobsInv, DeliveryTypeOK, Phases, dvars
<1>13. ASSUME NEW p \in Prompts, Working(p) \/ Settling(p)
       PROVE  JobsInv'
  BY <1>5, <1>6, <1>7, <1>13 DEF Working, Settling
<1>14. CASE BeginRevalidate \/ EndRevalidate
  <2>1. UNCHANGED <<dvars, call, batch, orphans, reset>>
    BY <1>14 DEF BeginRevalidate, EndRevalidate
  <2>2. QED BY <1>4, <2>1 DEF Running
<1>15. QED BY <1>8, <1>9, <1>10, <1>11, <1>12, <1>13, <1>14, Steps

LEMMA NextBatch ==
  ASSUME EngineInv, Next
  PROVE  BatchInv'
<1> USE DEF EngineInv, BatchInv
<1>1. CASE ResolveWave
  <2> DEFINE wave == IF Ready(Remaining) = {} THEN Remaining ELSE Ready(Remaining)
  <2>1. wave \in SUBSET Prompts
    BY DEF Ready, Remaining
  <2>2. batch' = [batch EXCEPT !.waves = Append(@, wave)]
    BY <1>1 DEF ResolveWave
  <2> HIDE DEF wave
  <2>3. Append(batch.waves, wave) \in Seq(SUBSET Prompts)
    BY <2>1
  <2>4. QED BY <2>2, <2>3
<1>2. CASE Resolved \/ StartWave \/ EndWave
  BY <1>2 DEF Resolved, StartWave, EndWave
<1>3. ASSUME UNCHANGED batch PROVE BatchInv'
  BY <1>3
<1>4. ASSUME NEW p \in Prompts, Working(p) \/ Settling(p) \/ CheckPrompt(p) \/ DeletePrompt(p)
      PROVE  UNCHANGED batch
  BY <1>4, WorkingFrame DEF Settling, StoreExtraction, JobFails, CheckPrompt, DeletePrompt
<1>5. CASE FactoryReset \/ FlushQueue \/ EndReset \/ BeginRevalidate \/ EndRevalidate
  BY <1>3, <1>5 DEF FactoryReset, FlushQueue, EndReset, BeginRevalidate, EndRevalidate
<1>6. QED BY <1>1, <1>2, <1>3, <1>4, <1>5, Steps DEF Batching

-----------------------------------------------------------------------------
LEMMA InitEngine == Init => EngineInv
<1> SUFFICES ASSUME Init PROVE EngineInv
  OBVIOUS
<1>1. /\ category = [c \in Categories |->
           IF c \in DOMAIN File THEN [there |-> TRUE, active |-> TRUE, text |-> "file"]
                                ELSE NoCategory]
      /\ home \in DOMAIN File /\ assigned = (DOMAIN File) \X PromptsThere
      /\ tries = [j \in Jobs |-> 0] /\ row = [p \in Prompts |-> NoRow]
      /\ call = [p \in Prompts |-> NoCall] /\ orphans = {} /\ checked = {} /\ reset = "off"
      /\ seen = [p \in Prompts |-> "none"]
      /\ InitJobs \/ InitBatch
  BY DEF Init
<1>2. MaxAttempts \in Nat /\ Jobs \subseteq Prompts /\ DOMAIN File \subseteq Categories
      /\ MaxOps \in Nat
  BY CatalogueAssumption, PromptEngineAssumption
<1>3. /\ prompt \in [Prompts -> PromptRecords]
      /\ \A p \in Prompts : prompt[p].there \/ prompt[p] = NoPrompt
      /\ phase \in [Jobs -> {"waiting", "absent"}]
      /\ batch.pc # "off" => \A j \in Jobs : phase[j] = "absent"
      /\ depends \subseteq PromptsThere \X PromptsThere /\ ops \in 0..MaxOps
      /\ BatchInv
  <2> DEFINE n == NoPrompt
  <2>1. n \in PromptRecords /\ 1 \in MaxRetries
    BY NoPromptTyped, PromptEngineAssumption
  <2>2. NoBatch \in [pc : {"off"}, list : SUBSET Prompts, waves : Seq(SUBSET Prompts), at : Nat]
    BY DEF NoBatch
  <2>3. CASE InitJobs
    <3>1. PICK some \in SUBSET Prompts :
            prompt = [p \in Prompts |->
              IF p \in some THEN [n EXCEPT !.there = TRUE, !.active = TRUE] ELSE n]
      BY <2>3 DEF InitJobs
    <3> HIDE DEF n
    <3>2. /\ [n EXCEPT !.there = TRUE, !.active = TRUE] \in PromptRecords
          /\ [n EXCEPT !.there = TRUE, !.active = TRUE].there
      BY <2>1 DEF PromptRecords
    <3>3. /\ prompt \in [Prompts -> PromptRecords]
          /\ \A p \in Prompts : prompt[p].there \/ prompt[p] = n
      BY <2>1, <3>1, <3>2
    <3>4. /\ phase = [j \in Jobs |-> "waiting"] /\ depends = {} /\ ops = 0 /\ batch = NoBatch
      BY <2>3 DEF InitJobs
    <3>5. QED BY <1>2, <2>2, <3>3, <3>4 DEF BatchInv, n
  <2>4. CASE InitBatch
    <3>1. /\ prompt = [p \in Prompts |->
               [n EXCEPT !.there = TRUE, !.active = TRUE, !.tries = 1]]
          /\ phase = [j \in Jobs |-> "absent"] /\ depends \in SUBSET (Prompts \X Prompts)
          /\ ops = MaxOps
      BY <2>4 DEF InitBatch
    <3> HIDE DEF n
    <3>2. /\ [n EXCEPT !.there = TRUE, !.active = TRUE, !.tries = 1] \in PromptRecords
          /\ [n EXCEPT !.there = TRUE, !.active = TRUE, !.tries = 1].there
      BY <2>1 DEF PromptRecords
    <3>3. prompt \in [Prompts -> PromptRecords] /\ \A p \in Prompts : prompt[p].there
      BY <3>1, <3>2
    <3>4. PromptsThere = Prompts
      BY <3>3 DEF PromptsThere
    <3>5. BatchInv
      <4>1. PICK list \in SUBSET Prompts : batch = [NoBatch EXCEPT !.pc = "resolve", !.list = list]
        BY <2>4 DEF InitBatch
      <4> DEFINE b == NoBatch
      <4>2. b \in [pc : {"off"}, list : SUBSET Prompts, waves : Seq(SUBSET Prompts), at : Nat]
        BY <2>2
      <4>3. batch = [b EXCEPT !.pc = "resolve", !.list = list]
        BY <4>1
      <4> HIDE DEF b
      <4>4. QED BY <4>2, <4>3 DEF BatchInv
    <3>6. QED BY <1>2, <3>1, <3>3, <3>4, <3>5
  <2>5. QED BY <1>1, <2>3, <2>4
<1>4. CatalogueTypeOK
  <2>1. NoCategory \in [there : BOOLEAN, active : BOOLEAN, text : Texts]
    BY DEF NoCategory, Texts
  <2>2. /\ category \in [Categories -> [there : BOOLEAN, active : BOOLEAN, text : Texts]]
        /\ \A c \in Categories : category[c].there \/ category[c] = NoCategory
        /\ DOMAIN File \subseteq CategoriesThere
    BY <1>1, <1>2, <2>1 DEF Texts, CategoriesThere
  <2>3. assigned \subseteq CategoriesThere \X PromptsThere /\ home \in CategoriesThere
    BY <1>1, <2>2
  <2>4. QED BY <1>3, <2>2, <2>3 DEF CatalogueTypeOK, PromptRecords
<1>5. CallsInv
  BY <1>1, NoCallOK DEF CallsInv, CallOK
<1>6. JobsInv
  <2>1. Running = {}
    BY <1>1, NoCallOK DEF Running
  <2>2. QED BY <1>1, <1>2, <1>3, <2>1 DEF JobsInv, DeliveryTypeOK, Phases
<1>7. RowsInv
  BY <1>1, ResultsTyped DEF RowsInv
<1>8. HeldInv
  BY <1>1 DEF HeldInv, Texts
<1>9. QED BY <1>3, <1>4, <1>5, <1>6, <1>7, <1>8 DEF EngineInv

LEMMA EngineInvariant == Spec => []EngineInv
<1>1. EngineInv /\ [Next]_vars => EngineInv'
  <2>1. CASE Next
    BY <2>1, NextCatalogue, NextCalls, NextJobs, NextRows, NextHeld, NextBatch DEF EngineInv
  <2>2. CASE UNCHANGED vars
    <3>1. ASSUME EngineInv PROVE EngineInv'
      <4>1. CatalogueTypeOK'
        BY <2>2, <3>1, SameCatalogue DEF EngineInv, vars, CatalogueTypeOK
      <4>2. CallsInv'
        BY <2>2, <3>1, SameCalls DEF EngineInv, vars
      <4>3. JobsInv' /\ RowsInv' /\ HeldInv' /\ BatchInv'
        BY <2>2, <3>1 DEF EngineInv, vars, catalogue, dvars, JobsInv, RowsInv, HeldInv,
           BatchInv, Texts, DeliveryTypeOK, Phases, Running, PromptsThere, Results, NoRow, Sound
      <4>4. QED BY <4>1, <4>2, <4>3 DEF EngineInv
    <3>2. QED BY <3>1
  <2>3. QED BY <2>1, <2>2
<1>2. QED BY InitEngine, <1>1, PTL DEF Spec

\* The catalogue's foreign keys hold, a row has its prompt, and the prompts that
\* are worked on are those of the jobs that workers hold, or of jobs disowned by
\* a factory reset or a deletion: for any catalogue, jobs, files and bounds.
THEOREM EngineTypeCorrect == Spec => []TypeOK
<1>1. EngineInv => TypeOK
  <2> SUFFICES ASSUME EngineInv PROVE TypeOK
    OBVIOUS
  <2>1. CatalogueTypeOK /\ DeliveryTypeOK /\ row \in [Prompts -> Results]
        /\ call \in [Prompts -> Calls] /\ checked \subseteq PromptsThere
    BY DEF EngineInv, JobsInv, RowsInv, CallsInv
  <2>2. \A p \in Prompts : row[p] # NoRow => prompt[p].there
    BY DEF EngineInv, RowsInv
  <2>3. \A p \in Prompts : call[p].attempt <= call[p].tries
    BY DEF EngineInv, CallsInv, CallOK
  <2>4. batch.pc = "off" => LET taken == {j \in Jobs : phase[j] = "taken"}
                            IN taken \subseteq Running /\ Running \ taken \subseteq orphans
    BY DEF EngineInv, JobsInv
  <2>5. /\ seen \in [Prompts -> Texts \cup {"none", "gone"}]
        /\ \A p \in Prompts : seen[p] \in Texts => row[p].raw # "none"
    BY DEF EngineInv, HeldInv
  <2>6. QED BY <2>1, <2>2, <2>3, <2>4, <2>5 DEF TypeOK
<1>2. QED BY EngineInvariant, <1>1, PTL

\* For any required confidence, with whatever edits, deletions, reloads, resets
\* and revalidations in between.
THEOREM ConfidenceIsValidated == Spec => []ConfidentMeansValidated
<1>1. EngineInv => ConfidentMeansValidated
  BY DEF EngineInv, RowsInv, Sound, ConfidentMeansValidated
<1>2. QED BY EngineInvariant, <1>1, PTL

\* Whatever the breaker refuses and whichever completions fail, a job makes two
\* calls an attempt at most, and its sleep is capped.
THEOREM JobsAreBounded == Spec => []JobBounded
<1>1. EngineInv => JobBounded
  <2> SUFFICES ASSUME EngineInv, NEW p \in Prompts
               PROVE  /\ call[p].calls <= 2 * call[p].tries
                      /\ call[p].sleep <= 2 * (call[p].tries - 1) * 5 * MaxBackoff
    BY DEF JobBounded
  <2>1. /\ call[p].calls <= 2 * call[p].tries
        /\ call[p].sleep <= (2 * call[p].tries - 2) * Cap /\ call[p].tries \in 1..10
    BY Bounds DEF EngineInv, CallsInv, CallOK, Calls
  <2>2. ASSUME NEW t \in 1..10
        PROVE  (2 * t - 2) * Cap = 2 * (t - 1) * 5 * MaxBackoff
    BY PromptEngineAssumption DEF Cap
  <2>3. QED BY <2>1, <2>2
<1>2. QED BY EngineInvariant, <1>1, PTL

-----------------------------------------------------------------------------
(***************************************************************************)
(* Chains of dependencies.  Chains() is defined by recursion, so that what *)
(* it is has to be found by induction.                                     *)
(***************************************************************************)
\* Every set of numbers has a least one.
LEMMA LeastNumber ==
  ASSUME NEW T, T \subseteq Nat, T # {}
  PROVE  \E m \in T : \A k \in T : m <= k
<1>1. IsWellFoundedOn(OpToRel(<, Nat), Nat)
  BY NatLessThanWellFounded
<1>2. PICK m \in T : \A k \in T : <<k, m>> \notin OpToRel(<, Nat)
  BY <1>1, WFMin, Zenon
<1>3. \A k \in T : ~(k < m)
  BY <1>2, Zenon DEF OpToRel
<1>4. QED BY <1>3

\* A set with 0 and with the successor of each of its numbers has them all.
LEMMA Induction ==
  ASSUME NEW S, 0 \in S, \A k \in Nat : k \in S => k + 1 \in S
  PROVE  Nat \subseteq S
<1>1. SUFFICES ASSUME Nat \ S # {} PROVE FALSE
  OBVIOUS
<1>2. PICK m \in Nat \ S : \A k \in Nat \ S : m <= k
  BY <1>1, LeastNumber
<1>3. m # 0 /\ m - 1 \in Nat
  BY <1>2
<1>4. QED BY <1>2, <1>3

\* What needs the end of a chain begins one that is longer by one.
Longer(list, needs, chained) == {p \in list : \E q \in chained : <<p, q>> \in needs}

\* The recursion of Chains() has a solution: up to any length there is one.
LEMMA ChainsOf ==
  ASSUME NEW list \in SUBSET Prompts, NEW needs
  PROVE  LET chain == Chains(list, needs)
             N == Cardinality(Prompts)
         IN  /\ chain[0] = list
             /\ \A k \in 1..N : chain[k] = Longer(list, needs, chain[k - 1])
<1> DEFINE N == Cardinality(Prompts)
           Link(chain, k) == IF k = 0 THEN list ELSE Longer(list, needs, chain[k - 1])
           Upto(m) == {f \in [0..m -> SUBSET Prompts] : \A k \in 0..m : f[k] = Link(f, k)}
           S == {m \in Nat : Upto(m) # {}}
<1>1. N \in Nat
  BY PromptEngineAssumption, FS_CardinalityType
<1>2. 0 \in S
  <2> DEFINE f == [k \in 0..0 |-> list]
  <2>1. \A k \in 0..0 : k = 0
    OBVIOUS
  <2>2. f \in [0..0 -> SUBSET Prompts] /\ \A k \in 0..0 : f[k] = Link(f, k)
    BY <2>1
  <2>3. QED BY <2>2
<1>3. ASSUME NEW m \in Nat, m \in S PROVE m + 1 \in S
  <2>1. PICK f \in [0..m -> SUBSET Prompts] : \A k \in 0..m : f[k] = Link(f, k)
    BY <1>3
  <2> DEFINE g == [k \in 0..(m + 1) |-> IF k = m + 1 THEN Longer(list, needs, f[m]) ELSE f[k]]
  <2>2. \A k \in 0..(m + 1) : k = m + 1 \/ k \in 0..m
    OBVIOUS
  <2>3. Longer(list, needs, f[m]) \in SUBSET Prompts
    BY DEF Longer
  <2>4. g \in [0..(m + 1) -> SUBSET Prompts]
    BY <2>1, <2>2, <2>3
  <2>5. ASSUME NEW k \in 0..(m + 1) PROVE g[k] = Link(g, k)
    <3>1. CASE k = m + 1
      <4>1. k # 0 /\ k - 1 = m /\ m \in 0..(m + 1) /\ m # m + 1
        BY <3>1
      <4>2. g[k - 1] = f[m]
        BY <4>1
      <4>3. g[k] = Longer(list, needs, f[m])
        BY <3>1
      <4>4. QED BY <4>1, <4>2, <4>3
    <3>2. CASE k # m + 1
      <4>1. k \in 0..m /\ g[k] = f[k]
        BY <2>2, <3>2
      <4>2. k # 0 => g[k - 1] = f[k - 1]
        BY <4>1
      <4>3. QED BY <2>1, <4>1, <4>2
    <3>3. QED BY <3>1, <3>2
  <2>6. m + 1 \in Nat /\ g \in Upto(m + 1)
    BY <2>4, <2>5
  <2>7. QED BY <2>6
<1>4. N \in S
  BY <1>1, <1>2, <1>3, Induction
<1>5. PICK f \in [0..N -> SUBSET Prompts] : \A k \in 0..N : f[k] = Link(f, k)
  BY <1>4
<1>6. f = [k \in 0..N |-> IF k = 0 THEN list
                          ELSE {p \in list : \E q \in f[k - 1] : <<p, q>> \in needs}]
  BY <1>5 DEF Longer
<1> DEFINE chain == Chains(list, needs)
<1>7. chain = [k \in 0..N |-> IF k = 0 THEN list
                              ELSE {p \in list : \E q \in chain[k - 1] : <<p, q>> \in needs}]
  BY <1>6, Zenon DEF Chains
<1> HIDE DEF chain
<1>8. 0 \in 0..N /\ \A k \in 1..N : k \in 0..N /\ k # 0
  BY <1>1
<1>9. /\ chain[0] = list
      /\ \A k \in 1..N : chain[k] = {p \in list : \E q \in chain[k - 1] : <<p, q>> \in needs}
  BY <1>7, <1>8, Zenon
<1>10. QED BY <1>9 DEF chain, Longer
\* A chain of k + 1 dependencies begins with one of k.
LEMMA ChainsShrink ==
  ASSUME NEW list \in SUBSET Prompts, NEW needs,
         NEW k \in 0..Cardinality(Prompts), NEW m \in k..Cardinality(Prompts)
  PROVE  Chains(list, needs)[m] \subseteq Chains(list, needs)[k]
<1> DEFINE N == Cardinality(Prompts)
           chain == Chains(list, needs)
           S == {i \in Nat : i + 1 <= N => chain[i + 1] \subseteq chain[i]}
           D == {d \in Nat : k + d <= N => chain[k + d] \subseteq chain[k]}
<1>1. /\ N \in Nat /\ k \in Nat
      /\ m - k \in Nat /\ m <= N /\ k + (m - k) = m
  BY PromptEngineAssumption, FS_CardinalityType
<1>2. chain[0] = list /\ \A i \in 1..N : chain[i] = Longer(list, needs, chain[i - 1])
  BY ChainsOf
<1> HIDE DEF chain, N
<1>3. 0 \in S
  BY <1>1, <1>2 DEF Longer
<1>4. ASSUME NEW i \in Nat, i \in S PROVE i + 1 \in S
  <2>1. ASSUME i + 2 <= N PROVE chain[i + 2] \subseteq chain[i + 1]
    <3>1. chain[i + 1] \subseteq chain[i]
      BY <1>1, <1>4, <2>1
    <3>2. /\ i + 1 \in 1..N /\ i + 2 \in 1..N
          /\ (i + 1) - 1 = i /\ (i + 2) - 1 = i + 1
      BY <1>1, <2>1
    <3>3. /\ chain[i + 1] = Longer(list, needs, chain[i])
          /\ chain[i + 2] = Longer(list, needs, chain[i + 1])
      BY <1>2, <3>2
    <3>4. QED BY <3>1, <3>3 DEF Longer
  <2>2. QED BY <2>1
<1>5. \A i \in Nat : i + 1 <= N => chain[i + 1] \subseteq chain[i]
  BY <1>3, <1>4, Induction
<1>6. 0 \in D
  OBVIOUS
<1>7. ASSUME NEW d \in Nat, d \in D PROVE d + 1 \in D
  <2>1. ASSUME k + (d + 1) <= N PROVE chain[k + (d + 1)] \subseteq chain[k]
    <3>1. k + d \in Nat /\ (k + d) + 1 = k + (d + 1) /\ k + d <= N
      BY <1>1, <2>1
    <3>2. QED BY <1>5, <1>7, <2>1, <3>1
  <2>2. QED BY <2>1
<1>8. m - k \in D
  BY <1>1, <1>6, <1>7, Induction
<1>9. QED BY <1>1, <1>8 DEF chain, N

\* Where no chain ends any more they all run into cycles.
LEMMA ChainsStop ==
  ASSUME NEW list \in SUBSET Prompts, NEW needs,
         NEW k \in Nat, NEW m \in k..Cardinality(Prompts), k + 1 <= Cardinality(Prompts),
         Chains(list, needs)[k + 1] = Chains(list, needs)[k]
  PROVE  Chains(list, needs)[m] = Chains(list, needs)[k]
<1> DEFINE N == Cardinality(Prompts)
           chain == Chains(list, needs)
           D == {d \in Nat : k + d <= N => chain[k + d] = chain[k]}
<1>1. N \in Nat
  BY PromptEngineAssumption, FS_CardinalityType
<1>2. chain[0] = list /\ \A i \in 1..N : chain[i] = Longer(list, needs, chain[i - 1])
  BY ChainsOf
<1>3. /\ chain[k + 1] = chain[k] /\ k + 1 <= N
      /\ m - k \in Nat /\ m <= N /\ k + (m - k) = m
  BY <1>1
<1> HIDE DEF chain, N
<1>4. 0 \in D
  OBVIOUS
<1>5. ASSUME NEW d \in Nat, d \in D PROVE d + 1 \in D
  <2>1. ASSUME k + (d + 1) <= N PROVE chain[k + (d + 1)] = chain[k]
    <3>1. chain[k + d] = chain[k]
      BY <1>1, <1>5, <2>1
    <3>2. /\ k + 1 \in 1..N /\ k + (d + 1) \in 1..N
          /\ (k + 1) - 1 = k /\ (k + (d + 1)) - 1 = k + d
      BY <1>1, <1>3, <2>1
    <3>3. /\ chain[k + 1] = Longer(list, needs, chain[k])
          /\ chain[k + (d + 1)] = Longer(list, needs, chain[k + d])
      BY <1>2, <3>2
    <3>4. QED BY <1>3, <3>1, <3>3
  <2>2. QED BY <2>1
<1>6. m - k \in D
  BY <1>3, <1>4, <1>5, Induction
<1>7. QED BY <1>1, <1>3, <1>6 DEF chain, N

-----------------------------------------------------------------------------
(***************************************************************************)
(* The order of a batch                                                    *)
(***************************************************************************)
\* What resolve_order() made so far: waves of prompts of the list, none empty,
\* no prompt twice, each after those it needs.  Only the last may hold prompts
\* that wait for each other, and nothing remains then.
OrderInv ==
  /\ UNION {batch.waves[i] : i \in DOMAIN batch.waves} \subseteq batch.list
  /\ \A i \in DOMAIN batch.waves : batch.waves[i] # {}
  /\ \A i, j \in DOMAIN batch.waves : i # j => batch.waves[i] \cap batch.waves[j] = {}
  /\ \A i \in DOMAIN batch.waves : \A p \in batch.waves[i], q \in batch.list :
       <<p, q>> \in depends =>
         \/ \E j \in 1..(i - 1) : q \in batch.waves[j]
         \/ i = Len(batch.waves) /\ Remaining = {}

\* A wave is what no longer chain begins with; where there is no such prompt
\* all that remains goes into the last wave.  There is a prompt for each wave.
LevelsInv ==
  LET n == Len(batch.waves)
      chain == Chains(batch.list, depends)
      Level(i) == chain[i - 1] \ chain[i]
  IN /\ n + Cardinality(Remaining) <= Cardinality(Prompts)
     /\ \A i \in 1..(n - 1) : batch.waves[i] = Level(i)
     /\ \/ /\ n # 0 => batch.waves[n] = Level(n)
           /\ Remaining = chain[n]
        \/ /\ n # 0 /\ Remaining = {}
           /\ batch.waves[n] = chain[n - 1] /\ chain[n] = chain[n - 1]

\* While a batch runs nobody edits the prompts.
QuietInv == batch.pc # "off" => ops = MaxOps /\ checked = {} /\ reset = "off"

WavesInv ==
  /\ QuietInv
  /\ batch.pc \in {"resolve", "run"} => OrderInv /\ LevelsInv
  /\ batch.pc = "run" => Remaining = {}

\* What a step of resolve_order() adds.
Wave == IF Ready(Remaining) = {} THEN Remaining ELSE Ready(Remaining)

LEMMA WaveAdded ==
  ASSUME BatchInv, ResolveWave
  PROVE  /\ Wave # {} /\ Wave \subseteq Remaining /\ Remaining \subseteq Prompts
         /\ batch.waves \in Seq(SUBSET Prompts) /\ Len(batch.waves) \in Nat
         /\ DOMAIN batch.waves = 1..Len(batch.waves)
         /\ batch'.list = batch.list /\ depends' = depends
         /\ Len(batch'.waves) = Len(batch.waves) + 1
         /\ DOMAIN batch'.waves = 1..(Len(batch.waves) + 1)
         /\ batch'.waves[Len(batch.waves) + 1] = Wave
         /\ \A i \in 1..Len(batch.waves) : batch'.waves[i] = batch.waves[i]
         /\ Remaining' = Remaining \ Wave
<1> DEFINE n == Len(batch.waves)
<1>1. batch.waves \in Seq(SUBSET Prompts) /\ n \in Nat /\ DOMAIN batch.waves = 1..n
  BY DEF BatchInv
<1>2. /\ Wave # {} /\ Wave \subseteq Remaining /\ Wave \subseteq Prompts
      /\ Remaining \subseteq Prompts
  BY DEF ResolveWave, Ready, Remaining, BatchInv, Wave
<1>3. batch' = [batch EXCEPT !.waves = Append(batch.waves, Wave)] /\ depends' = depends
  BY DEF ResolveWave, catalogue, Wave
<1> DEFINE waves == Append(batch.waves, Wave)
<1>4. batch'.waves = waves /\ batch'.list = batch.list
  BY <1>3 DEF BatchInv
<1>5. /\ Len(waves) = n + 1 /\ DOMAIN waves = 1..(n + 1) /\ waves[n + 1] = Wave
      /\ \A i \in 1..n : waves[i] = batch.waves[i]
  BY <1>1, <1>2
<1> HIDE DEF waves
<1>6. ASSUME NEW q PROVE q \in Remaining' <=> q \in Remaining \ Wave
  <2>1. q \in Remaining <=> q \in batch.list /\ \A i \in 1..n : q \notin batch.waves[i]
    BY <1>1 DEF Remaining
  <2>2. q \in Remaining' <=> q \in batch.list /\ \A i \in 1..(n + 1) : q \notin waves[i]
    BY <1>4, <1>5 DEF Remaining
  <2>3. \A i \in 1..(n + 1) : i \in 1..n \/ i = n + 1
    BY <1>1
  <2>4. n + 1 \in 1..(n + 1) /\ \A i \in 1..n : i \in 1..(n + 1)
    BY <1>1
  <2>5. QED BY <1>5, <2>1, <2>2, <2>3, <2>4
<1>7. Remaining' = Remaining \ Wave
  BY <1>6
<1>8. QED BY <1>1, <1>2, <1>3, <1>4, <1>5, <1>7

LEMMA OneWaveMore ==
  ASSUME BatchInv, OrderInv, ResolveWave
  PROVE  OrderInv'
<1> DEFINE n == Len(batch.waves)
           waves == batch'.waves
<1>1. /\ n \in Nat /\ Wave # {} /\ DOMAIN batch.waves = 1..n
      /\ batch'.list = batch.list /\ depends' = depends
      /\ Len(waves) = n + 1 /\ DOMAIN waves = 1..(n + 1) /\ waves[n + 1] = Wave
      /\ \A i \in 1..n : waves[i] = batch.waves[i]
      /\ Remaining' = Remaining \ Wave
      /\ Wave \subseteq Remaining
  BY WaveAdded
<1>2. \/ Wave = Remaining
      \/ \A p \in Wave, q \in Remaining : <<p, q>> \notin depends
  BY DEF Ready, Wave
<1> HIDE DEF waves
<1>3. \A q : q \in Remaining <=> q \in batch.list /\ \A i \in 1..n : q \notin batch.waves[i]
  BY <1>1 DEF Remaining
<1>4. \A i \in 1..(n + 1) : i \in 1..n \/ i = n + 1
  BY <1>1
<1>5. UNION {waves[i] : i \in 1..(n + 1)} \subseteq batch.list
  BY <1>1, <1>3, <1>4 DEF OrderInv
<1>6. \A i \in 1..(n + 1) : waves[i] # {}
  BY <1>1, <1>4 DEF OrderInv
<1>7. \A i, j \in 1..(n + 1) : i # j => waves[i] \cap waves[j] = {}
  BY <1>1, <1>3, <1>4 DEF OrderInv
<1>8. ASSUME NEW i \in 1..(n + 1), NEW p \in waves[i], NEW q \in batch.list, <<p, q>> \in depends
      PROVE  \/ \E j \in 1..(i - 1) : q \in waves[j]
             \/ i = n + 1 /\ Remaining' = {}
  <2>1. CASE i \in 1..n
    <3>1. PICK j \in 1..(i - 1) : q \in batch.waves[j]
      <4>1. Remaining # {}
        BY <1>1
      <4>2. QED BY <1>1, <1>8, <2>1, <4>1 DEF OrderInv
    <3>2. j \in 1..n
      BY <1>1, <2>1
    <3>3. QED BY <1>1, <3>1, <3>2
  <2>2. CASE i = n + 1
    <3>1. CASE Wave = Remaining
      BY <1>1, <2>2, <3>1
    <3>2. CASE Wave # Remaining
      <4>1. q \notin Remaining
        BY <1>1, <1>2, <1>8, <2>2, <3>2
      <4>2. PICK j \in 1..n : q \in batch.waves[j]
        BY <1>3, <4>1
      <4>3. j \in 1..(i - 1)
        BY <1>1, <2>2
      <4>4. QED BY <1>1, <4>2, <4>3
    <3>3. QED BY <3>1, <3>2
  <2>3. QED BY <1>4, <2>1, <2>2
<1>9. QED BY <1>1, <1>5, <1>6, <1>7, <1>8 DEF OrderInv, waves

LEMMA OneLevelMore ==
  ASSUME BatchInv, LevelsInv, ResolveWave
  PROVE  LevelsInv'
<1> DEFINE n == Len(batch.waves)
           waves == batch'.waves
           chain == Chains(batch.list, depends)
           N == Cardinality(Prompts)
<1>1. /\ n \in Nat /\ Wave # {} /\ Wave \subseteq Remaining
      /\ batch'.list = batch.list /\ depends' = depends
      /\ Len(waves) = n + 1 /\ waves[n + 1] = Wave
      /\ \A i \in 1..n : waves[i] = batch.waves[i]
      /\ Remaining' = Remaining \ Wave /\ Remaining \subseteq Prompts
      /\ Remaining # {}
  BY WaveAdded
<1>2. chain = Chains(batch'.list, depends')
  BY <1>1
<1>3. /\ n + Cardinality(Remaining) <= N
      /\ Remaining = chain[n]
      /\ \A i \in 1..n : batch.waves[i] = chain[i - 1] \ chain[i]
  <2>1. \A i \in 1..n : i \in 1..(n - 1) \/ (i = n /\ n # 0)
    BY <1>1
  <2>2. QED BY <1>1, <2>1 DEF LevelsInv
<1>4. /\ N \in Nat /\ IsFiniteSet(Remaining) /\ Cardinality(Remaining) \in Nat
      /\ Cardinality(Remaining) # 0
      /\ Cardinality(Remaining') \in Nat
      /\ Cardinality(Remaining') + 1 <= Cardinality(Remaining)
  <2>1. N \in Nat /\ IsFiniteSet(Remaining)
    BY <1>1, PromptEngineAssumption, FS_CardinalityType, FS_Subset
  <2>2. Cardinality(Remaining) \in Nat /\ Cardinality(Remaining) # 0
    BY <1>1, <2>1, FS_CardinalityType, FS_EmptySet
  <2>3. Remaining' \in SUBSET Remaining /\ Remaining' # Remaining
    BY <1>1
  <2>4. /\ IsFiniteSet(Remaining') /\ Cardinality(Remaining') <= Cardinality(Remaining)
        /\ Cardinality(Remaining') # Cardinality(Remaining)
    BY <2>1, <2>3, FS_Subset
  <2>5. Cardinality(Remaining') \in Nat
    BY <2>4, FS_CardinalityType
  <2>6. QED BY <2>1, <2>2, <2>4, <2>5
<1>5. (n + 1) + Cardinality(Remaining') <= N /\ n + 1 \in 1..N /\ n \in 0..N
  BY <1>1, <1>3, <1>4
<1>6. /\ chain[n + 1] = Longer(batch.list, depends, Remaining)
      /\ chain[n + 1] \subseteq Remaining
  <2>1. batch.list \in SUBSET Prompts
    BY DEF BatchInv
  <2>2. chain[n + 1] = Longer(batch.list, depends, chain[(n + 1) - 1])
    BY <1>5, <2>1, ChainsOf
  <2>3. (n + 1) - 1 = n /\ n + 1 \in n..N
    BY <1>1, <1>5
  <2>4. chain[n + 1] \subseteq chain[n]
    BY <1>5, <2>1, <2>3, ChainsShrink
  <2>5. QED BY <1>3, <2>2, <2>3, <2>4
<1>7. Remaining \subseteq batch.list
  BY DEF Remaining
<1> HIDE DEF waves, chain, N
<1>8. \A i \in 1..n : waves[i] = chain[i - 1] \ chain[i]
  BY <1>1, <1>3
<1>9. CASE Ready(Remaining) = {}
  <2>1. Wave = Remaining /\ chain[n + 1] = Remaining
    BY <1>6, <1>7, <1>9 DEF Wave, Ready, Longer
  <2>2. Remaining' = {} /\ waves[n + 1] = chain[n] /\ chain[n + 1] = chain[n]
    BY <1>1, <1>3, <2>1
  <2>3. (n + 1) - 1 = n /\ n + 1 # 0
    BY <1>1
  <2>4. QED BY <1>1, <1>2, <1>5, <1>8, <2>2, <2>3 DEF LevelsInv, waves, N
<1>10. CASE Ready(Remaining) # {}
  <2>1. Wave = Remaining \ chain[n + 1]
    BY <1>6, <1>7, <1>10 DEF Wave, Ready, Longer
  <2>2. Remaining' = chain[n + 1] /\ waves[n + 1] = chain[n] \ chain[n + 1]
    BY <1>1, <1>3, <1>6, <2>1
  <2>3. (n + 1) - 1 = n
    BY <1>1
  <2>4. QED BY <1>1, <1>2, <1>5, <1>8, <2>2, <2>3 DEF LevelsInv, waves, N
<1>11. QED BY <1>9, <1>10

\* Nothing is resolved at first.
LEMMA NoLevelYet ==
  ASSUME batch.waves = <<>>, batch.list \in SUBSET Prompts
  PROVE  LevelsInv
<1>1. Len(batch.waves) = 0 /\ Remaining = batch.list
  BY DEF Remaining
<1>2. Chains(batch.list, depends)[0] = batch.list
  BY ChainsOf
<1>3. Cardinality(batch.list) <= Cardinality(Prompts) /\ Cardinality(batch.list) \in Nat
  BY PromptEngineAssumption, FS_Subset, FS_CardinalityType
<1>4. QED BY <1>1, <1>2, <1>3 DEF LevelsInv

LEMMA WavesInvariant == Spec => []WavesInv
<1>1. Init => WavesInv
  <2> SUFFICES ASSUME Init PROVE WavesInv
    OBVIOUS
  <2>1. checked = {} /\ reset = "off" /\ (InitJobs \/ InitBatch)
    BY DEF Init
  <2>2. CASE InitJobs
    BY <2>2 DEF InitJobs, NoBatch, WavesInv, QuietInv
  <2>3. CASE InitBatch
    <3>1. ops = MaxOps /\ batch.waves = <<>> /\ batch.pc = "resolve"
      BY <2>3 DEF InitBatch, NoBatch
    <3>2. batch.list \in SUBSET Prompts
      BY <2>3 DEF InitBatch, NoBatch
    <3>3. QED BY <2>1, <3>1, <3>2, NoLevelYet DEF WavesInv, QuietInv, OrderInv
  <2>4. QED BY <2>1, <2>2, <2>3
<1>2. EngineInv /\ WavesInv /\ [Next]_vars => WavesInv'
  <2> SUFFICES ASSUME EngineInv, WavesInv, [Next]_vars PROVE WavesInv'
    OBVIOUS
  <2>1. BatchInv /\ batch.pc \in {"off", "resolve", "run"}
    BY DEF EngineInv, BatchInv
  <2>2. ASSUME UNCHANGED <<batch, depends, ops, checked, reset>>
        PROVE  WavesInv'
    BY <2>2 DEF WavesInv, QuietInv, OrderInv, LevelsInv, Remaining
  <2>3. ASSUME NEW p \in Prompts, Working(p) \/ Settling(p)
        PROVE  WavesInv'
    BY <2>2, <2>3, WorkingFrame DEF Settling, StoreExtraction, JobFails, catalogue
  <2>4. ASSUME UNCHANGED batch, batch.pc = "off"
        PROVE  WavesInv'
    BY <2>4 DEF WavesInv, QuietInv
  <2>5. ASSUME Request
        PROVE  batch.pc = "off"
    <3>1. ops < MaxOps /\ MaxOps \in Nat
      BY <2>5, CatalogueAssumption DEF Request
    <3>2. QED BY <3>1 DEF WavesInv, QuietInv
  <2>6. ASSUME NEW p \in Prompts, CheckPrompt(p) \/ DeletePrompt(p)
        PROVE  WavesInv'
    BY <2>4, <2>5, <2>6 DEF CheckPrompt, DeletePrompt, WavesInv, QuietInv
  <2>7. CASE FactoryReset \/ FlushQueue \/ EndReset \/ BeginRevalidate \/ EndRevalidate
    <3>1. CASE FactoryReset \/ FlushQueue \/ EndReset \/ BeginRevalidate
      BY <2>4, <2>5, <3>1 DEF FactoryReset, FlushQueue, EndReset, BeginRevalidate, WavesInv,
         QuietInv
    <3>2. CASE EndRevalidate
      BY <2>2, <3>2 DEF EndRevalidate, catalogue
    <3>3. QED BY <2>7, <3>1, <3>2
  <2>8. CASE ChangeCatalogue /\ UNCHANGED <<dvars, row, call, orphans, checked, reset, seen, batch>>
    <3>1. Request
      BY <2>8 DEF ChangeCatalogue, CreatePrompt, UpdatePrompt, AddDependency, RemoveDependency,
         CreateCategory, UpdateCategory, DeleteCategory, AssignPrompt, RemovePrompt,
         UpdateSource, LoadCategories
    <3>2. QED BY <2>4, <2>5, <2>8, <3>1
  <2>9. CASE ResolveWave
    <3>1. /\ UNCHANGED <<catalogue, ops, checked, reset>>
          /\ batch.pc = "resolve" /\ batch'.pc = "resolve"
      BY <2>1, <2>9 DEF ResolveWave, BatchInv
    <3>2. QED BY <2>1, <2>9, <3>1, OneWaveMore, OneLevelMore DEF WavesInv, QuietInv
  <2>10. CASE Resolved \/ StartWave
    <3>1. /\ UNCHANGED <<catalogue, ops, checked, reset>>
          /\ batch'.list = batch.list /\ batch'.waves = batch.waves
          /\ batch.pc \in {"resolve", "run"} /\ batch'.pc = "run"
          /\ Resolved => Remaining = {}
          /\ StartWave => batch.pc = "run"
      BY <2>1, <2>10 DEF Resolved, StartWave, BatchInv
    <3>2. QED BY <2>10, <3>1 DEF WavesInv, QuietInv, OrderInv, LevelsInv, Remaining, catalogue
  <2>11. CASE EndWave
    BY <2>2, <2>11 DEF EndWave, catalogue
  <2>12. CASE UNCHANGED vars
    BY <2>2, <2>12 DEF vars, catalogue
  <2>13. QED BY <2>3, <2>6, <2>7, <2>8, <2>9, <2>10, <2>11, <2>12, Steps DEF Batching
<1>3. QED BY EngineInvariant, <1>1, <1>2, PTL DEF Spec

\* What the waves made so far are, once all are made.
LEMMA WavesLevelled ==
  EngineInv /\ WavesInv => WavesAreLevels
<1>1. ASSUME EngineInv, WavesInv, batch.pc = "run" PROVE WavesAreLevels
  <2> DEFINE n == Len(batch.waves)
             chain == Chains(batch.list, depends)
             N == Cardinality(Prompts)
             cyclic == chain[N]
  <2>1. /\ batch.waves \in Seq(SUBSET Prompts) /\ n \in Nat /\ DOMAIN batch.waves = 1..n
        /\ batch.list \in SUBSET Prompts
    BY <1>1 DEF EngineInv, BatchInv
  <2>2. /\ OrderInv /\ LevelsInv /\ Remaining = {}
    BY <1>1 DEF WavesInv
  <2>3. N \in Nat /\ n <= N
    BY <2>1, <2>2, PromptEngineAssumption, FS_CardinalityType, FS_EmptySet DEF LevelsInv
  <2>4. ASSUME NEW k \in 0..N PROVE cyclic \subseteq chain[k]
    <3>1. N \in k..N
      BY <2>3
    <3>2. QED BY <2>1, <3>1, ChainsShrink
  <2>5. \A i \in 1..(n - 1) : batch.waves[i] = chain[i - 1] \ chain[i]
    BY <2>2 DEF LevelsInv
  <2>6. \A i \in 1..n : i \in 0..N /\ (i \in 1..(n - 1) \/ i = n)
    BY <2>1, <2>3
  <2>7. ASSUME NEW p \in batch.list, NEW i \in 1..n
        PROVE  p \in batch.waves[i] <=>
                 IF p \in cyclic THEN i = n ELSE p \in chain[i - 1] \ chain[i]
    <3>1. CASE (n # 0 => batch.waves[n] = chain[n - 1] \ chain[n]) /\ Remaining = chain[n]
      <4>1. cyclic = {}
        BY <2>1, <2>2, <2>3, <2>4, <3>1
      <4>2. batch.waves[i] = chain[i - 1] \ chain[i]
        BY <2>1, <2>5, <2>6, <3>1
      <4>3. QED BY <4>1, <4>2
    <3>2. CASE n # 0 /\ batch.waves[n] = chain[n - 1] /\ chain[n] = chain[n - 1]
      <4>1. cyclic = chain[n - 1]
        <5>1. n - 1 \in Nat /\ N \in (n - 1)..N /\ (n - 1) + 1 = n
          BY <2>1, <2>3, <3>2
        <5>2. QED BY <2>1, <2>3, <3>2, <5>1, ChainsStop
      <4>2. CASE i = n
        BY <3>2, <4>1, <4>2
      <4>3. CASE i # n
        BY <2>4, <2>5, <2>6, <2>7, <4>3
      <4>4. QED BY <4>2, <4>3
    <3>3. QED BY <2>2, <3>1, <3>2 DEF LevelsInv
  <2>8. QED BY <2>1, <2>2, <2>7 DEF WavesAreLevels, OrderInv
<1>2. QED BY <1>1 DEF WavesAreLevels

\* For any list and any graph: the wave of a prompt is the length of its
\* longest chain of dependencies, or the last one for what waits for a cycle.
THEOREM PromptsRunAtTheirLevel == Spec => []WavesAreLevels
BY EngineInvariant, WavesInvariant, WavesLevelled, PTL

\* process_source() runs every prompt of the list in exactly one wave, whatever
\* they depend on, in cycles too; and a prompt that neither is on a cycle nor
\* waits for one comes after all those of the list that it needs
\* (docs/architecture.md:75-84).
WavesInOrder ==
  batch.pc = "run" =>
    LET n == Len(batch.waves)
        cyclic == Chains(batch.list, depends)[Cardinality(Prompts)]
    IN /\ UNION {batch.waves[i] : i \in 1..n} = batch.list
       /\ \A i, j \in 1..n : i # j => batch.waves[i] \cap batch.waves[j] = {}
       /\ \A i \in 1..n : \A p \in batch.waves[i] \ cyclic, q \in batch.list :
            <<p, q>> \in depends => \E j \in 1..(i - 1) : q \in batch.waves[j]

\* For any list of prompts and any graph of dependencies.
THEOREM PromptsAfterTheirDependencies == Spec => []WavesInOrder
<1>1. ASSUME EngineInv, WavesInv, batch.pc = "run" PROVE WavesInOrder
  <2> DEFINE n == Len(batch.waves)
             N == Cardinality(Prompts)
             chain == Chains(batch.list, depends)
             cyclic == chain[N]
  <2>1. /\ OrderInv /\ LevelsInv /\ Remaining = {} /\ DOMAIN batch.waves = 1..n
        /\ batch.list \in SUBSET Prompts /\ n \in Nat
    BY <1>1 DEF EngineInv, BatchInv, WavesInv
  <2>2. UNION {batch.waves[i] : i \in 1..n} = batch.list
    BY <2>1 DEF OrderInv, Remaining
  <2>3. N \in Nat /\ n <= N
    BY <2>1, PromptEngineAssumption, FS_CardinalityType, FS_EmptySet DEF LevelsInv
  <2>4. \A p \in batch.list, i \in 1..n :
          p \in batch.waves[i] <=>
            IF p \in cyclic THEN i = n ELSE p \in chain[i - 1] \ chain[i]
    BY <1>1, WavesLevelled DEF WavesAreLevels
  <2>5. \A k \in 1..N : chain[k] = Longer(batch.list, depends, chain[k - 1])
    BY <2>1, ChainsOf
  <2>6. ASSUME NEW i \in 1..n, NEW p \in batch.waves[i] \ cyclic, NEW q \in batch.list,
               <<p, q>> \in depends
        PROVE  \E j \in 1..(i - 1) : q \in batch.waves[j]
    <3>1. p \in batch.list /\ i \in 1..N
      BY <2>1, <2>2, <2>3
    <3>2. p \in chain[i - 1] \ chain[i]
      BY <2>4, <3>1
    <3>3. q \notin chain[i - 1]
      BY <2>5, <2>6, <3>1, <3>2 DEF Longer
    <3>4. CASE i # n
      BY <2>1, <2>6, <3>4 DEF OrderInv
    <3>5. CASE i = n
      <4>1. PICK j \in 1..n : q \in batch.waves[j]
        BY <2>2
      <4>2. i - 1 \in 0..N /\ N \in (i - 1)..N
        BY <2>3, <3>1
      <4>3. cyclic \subseteq chain[i - 1]
        BY <2>1, <4>2, ChainsShrink
      <4>4. j # i
        BY <2>4, <3>3, <4>1, <4>3
      <4>5. j \in 1..(i - 1)
        BY <2>1, <3>5, <4>4
      <4>6. QED BY <4>1, <4>5
    <3>6. QED BY <3>4, <3>5
  <2>7. QED BY <2>1, <2>2, <2>6 DEF OrderInv, WavesInOrder
<1>2. EngineInv /\ WavesInv => WavesInOrder
  BY <1>1 DEF WavesInOrder
<1>3. QED BY EngineInvariant, WavesInvariant, <1>2, PTL
=============================================================================
